---------------------------- MODULE RadeonVmProofs ----------------------------
(* Types of RadeonVm, and that a job finds its buffers (JobsFindTheirBuffers), for any address *)
(* spaces, buffers, ids, jobs, changes and failures: what is queued is ordered by fences and   *)
(* waits, updates come before the jobs that rely on them, and an id that is not flushed has    *)
(* been used by nobody else.                                                                   *)
EXTENDS RadeonVm, WellFoundedInduction, TLAPS

-----------------------------------------------------------------------------
(* The least and the greatest of a set, the two rings, and a ring's queue *)

\* What Min returns of a set of naturals that is not empty.
LEMMA MinIs ==
  ASSUME NEW S \in SUBSET Nat, S # {}
  PROVE  Min(S) \in S /\ \A y \in S : Min(S) <= y
<1>. DEFINE Less == {ss \in Nat \X Nat : ss[1] < ss[2]}
<1>1. IsWellFoundedOn(Less, Nat)
  BY NatLessThanWellFounded DEF OpToRel
<1>2. PICK x \in S : \A y \in S : ~ (<<y, x>> \in Less)
  BY <1>1, WFMin
<1>3. ASSUME NEW y \in S PROVE x <= y
  <2>1. x \in Nat /\ y \in Nat
    OBVIOUS
  <2>2. ~(y < x)
    <3>1. <<y, x>> \notin Less
      BY <1>2
    <3>2. <<y, x>> \in Nat \X Nat /\ <<y, x>>[1] = y /\ <<y, x>>[2] = x
      BY <2>1
    <3>. QED
      BY <3>1, <3>2
  <2>. QED
    BY <2>1, <2>2
<1>. QED
  BY <1>3 DEF Min

\* What Max returns of a bounded set of naturals that is not empty.
LEMMA MaxIs ==
  ASSUME NEW S \in SUBSET Nat, S # {}, NEW n \in Nat, \A y \in S : y <= n
  PROVE  Max(S) \in S /\ \A y \in S : y <= Max(S)
<1>. DEFINE T == {n - y : y \in S}
<1>1. T \in SUBSET Nat
  <2>1. ASSUME NEW y \in S PROVE n - y \in Nat
    <3>1. y \in Nat /\ y <= n
      OBVIOUS
    <3>. QED
      BY <3>1
  <2>. QED
    BY <2>1
<1>2. T # {}
  OBVIOUS
<1>3. PICK t \in T : \A u \in T : t <= u
  <2>. HIDE DEF T
  <2>. QED
    BY <1>1, <1>2, MinIs
<1>4. PICK x \in S : t = n - x
  OBVIOUS
<1>5. ASSUME NEW y \in S PROVE y <= x
  <2>1. n - y \in T
    OBVIOUS
  <2>2. n - x <= n - y
    BY <1>3, <1>4, <2>1
  <2>. QED
    BY <2>2
<1>. QED
  BY <1>4, <1>5 DEF Max

\* There are two rings.
LEMMA Others ==
  /\ Other("gfx") = Dma /\ Other(Dma) = "gfx" /\ "gfx" # Dma
  /\ \A r \in Ring : /\ r = "gfx" \/ r = Dma
                     /\ Other(r) \in Ring /\ Other(r) # r /\ Other(Other(r)) = r
                     /\ \A s \in Ring : s = r \/ s = Other(r)
<1>1. Ring = {"gfx", Dma} /\ "gfx" # Dma
  BY DEF Ring, Dma
<1>2. \A s \in Ring : s # "gfx" <=> s = Dma
  BY <1>1
<1>3. \A s \in Ring : s # Dma <=> s = "gfx"
  BY <1>1
<1>4. Other("gfx") = Dma
  BY <1>1, <1>2 DEF Other
<1>5. Other(Dma) = "gfx"
  BY <1>1, <1>3 DEF Other
<1>. QED
  BY <1>1, <1>4, <1>5

-----------------------------------------------------------------------------
(* Types *)

\* The commands: the DMA ring writes a directory or an entry, either ring runs a job.
WritesDirectory == [op : {"pde"}, vm : Vm, to : Nat]
WritesEntry == [op : {"pte"}, vm : Vm, bo : Bo, to : Nat]
RunsJob == [op : {"job"}, vm : Vm, id : Id, flush : BOOLEAN, pd : Nat, at : [Bo -> Nat]]
Cmd == WritesDirectory \cup WritesEntry \cup RunsJob

\* What a ring holds: a command, and the fence of the other ring it waits for.
Queued == [wait : Nat, cmd : Cmd]

\* A submission between its steps, or the update of one mapping.
Submission ==
  [step : {"directory", "freed", "update", "invalids", "schedule"}, vm : Vm,
   ring : Ring \cup {"none"}, use : SUBSET Bo, todo : SUBSET Bo]

\* The graphics ring runs jobs only.
QueueShape ==
  /\ queue \in [Ring -> Seq(Queued)]
  /\ \A i \in 1 .. Len(queue["gfx"]) : queue["gfx"][i].cmd \in RunsJob
  /\ running \in [Ring -> BOOLEAN] /\ known \in [Ring -> Nat]
  /\ emitted \in [Ring -> Nat] /\ done \in [Ring -> Nat]

\* What is noted of each id, and what it uses and caches.
IdShape ==
  /\ ids \in [Vm -> [Ring -> [id : Nat, use : Nat, pd : Nat, flushed : Nat]]]
  /\ active \in [Id -> [ring : Ring, seq : Nat]]
  /\ base \in [Id -> [vm : Vm, pd : Nat]]
  /\ tlb \in [Id -> [table : Nat, page : [Bo -> Nat]]]

\* Where everything is, and what is believed and written of it; an address is never zero.
MapShape ==
  /\ mapped \in [Vm -> [Bo -> BOOLEAN]]
  /\ status \in [Vm -> [Bo -> {"cleared", "done", "invalid"}]]
  /\ freed \in [Vm -> SUBSET Bo] /\ last_pt_update \in [Vm -> [Bo -> Nat]]
  /\ addr \in [Vm -> Nat] /\ pdfence \in [Vm -> Nat]
  /\ place \in [Bo -> Nat \ {0}] /\ pt \in [Vm -> Nat \ {0}] /\ pd \in [Vm -> Nat \ {0}]
  /\ pde \in [Vm -> Nat] /\ pte \in [Vm -> [Bo -> Nat]]

\* A submission to a ring is one of the jobs that are left.
StepShape ==
  /\ cs = Idle \/ cs \in Submission
  /\ cs.step \in {"directory", "invalids", "schedule"} => cs.ring \in Ring
  /\ cs.step # "idle" => cs.ring = "none" \/ jobs < MaxJobs

Shapes == QueueShape /\ IdShape /\ MapShape /\ StepShape

\* What is written is where something has been.
WritesAreBounded ==
  \A i \in 1 .. Len(queue[Dma]) :
    LET c == queue[Dma][i].cmd
    IN /\ c.op = "pde" => c.to <= pt[c.vm]
       /\ c.op = "pte" => c.to <= place[c.bo]

\* The types of the module with what they rest on.
Typed == TypeOK /\ Shapes /\ WritesAreBounded

-----------------------------------------------------------------------------
(* The commands of a ring, by their fences *)

\* The fences of the commands that have not retired.
Pending(r) == (done[r] + 1) .. emitted[r]
Command(r, n) == queue[r][n - done[r]].cmd
Waits(r, n) == queue[r][n - done[r]].wait

\* A ring that gets no command and retires none.
Same(r) ==
  /\ done'[r] = done[r] /\ emitted'[r] = emitted[r]
  /\ \A n \in Pending(r) : Command(r, n)' = Command(r, n) /\ Waits(r, n)' = Waits(r, n)

\* A ring retires its first command, which had nothing to wait for.
Retired(r) ==
  /\ done[r] + 1 \in Pending(r) /\ Waits(r, done[r] + 1) <= done[Other(r)]
  /\ done'[r] = done[r] + 1 /\ emitted'[r] = emitted[r]
  /\ \A n \in Pending(r) : n > done[r] + 1 =>
       Command(r, n)' = Command(r, n) /\ Waits(r, n)' = Waits(r, n)
  /\ Same(Other(r))

\* A ring gets a command.
Emitted(r, want, c) ==
  /\ done'[r] = done[r] /\ emitted'[r] = emitted[r] + 1
  /\ \A n \in Pending(r) : Command(r, n)' = Command(r, n) /\ Waits(r, n)' = Waits(r, n)
  /\ \A n \in Nat : n = emitted[r] + 1 => Command(r, n)' = c /\ Waits(r, n)' = Await(r, want)
  /\ Same(Other(r)) /\ running' = running

\* What the queue holds, by fences.
LEMMA QueueTypes ==
  ASSUME Typed, NEW r \in Ring
  PROVE  /\ done[r] \in Nat /\ emitted[r] \in Nat /\ known[r] \in Nat /\ done[r] <= emitted[r]
         /\ queue[r] \in Seq(Queued) /\ Len(queue[r]) = emitted[r] - done[r]
         /\ \A n \in Pending(r) : /\ n \in Nat /\ Command(r, n) \in Cmd /\ Waits(r, n) \in Nat
                                  /\ r = "gfx" => Command(r, n) \in RunsJob
                                  /\ Waits(r, n) <= emitted[Other(r)]
         /\ running[r] => done[r] + 1 \in Pending(r) /\ Command(r, done[r] + 1).op = "job"
<1>1. /\ queue[r] \in Seq(Queued) /\ Len(queue[r]) \in Nat
      /\ done[r] \in Nat /\ emitted[r] \in Nat /\ known[r] \in Nat
      /\ emitted[Other(r)] \in Nat
  <2>1. queue[r] \in Seq(Queued)
    BY DEF Typed, Shapes, QueueShape
  <2>2. /\ done[r] \in Nat /\ emitted[r] \in Nat /\ known[r] \in Nat
        /\ emitted[Other(r)] \in Nat
    BY Others DEF Typed, Shapes, QueueShape
  <2>. QED
    BY <2>1, <2>2
<1>2. done[r] + Len(queue[r]) = emitted[r]
  BY DEF Typed, TypeOK
<1>3. Len(queue[r]) = emitted[r] - done[r] /\ done[r] <= emitted[r]
  BY <1>1, <1>2
<1>4. ASSUME NEW n \in Pending(r)
      PROVE  /\ n \in Nat /\ Command(r, n) \in Cmd /\ Waits(r, n) \in Nat
             /\ r = "gfx" => Command(r, n) \in RunsJob
             /\ Waits(r, n) <= emitted[Other(r)]
  <2>1. n \in Nat /\ n - done[r] \in 1 .. Len(queue[r])
    BY <1>1, <1>3 DEF Pending
  <2>2. queue[r][n - done[r]] \in Queued
    BY <1>1, <2>1
  <2>3. r = "gfx" => Command(r, n) \in RunsJob
    BY <2>1 DEF Typed, Shapes, QueueShape, Command
  <2>4. queue[r][n - done[r]].wait \in 0 .. emitted[Other(r)]
    BY <2>1 DEF Typed, TypeOK
  <2>. QED
    BY <1>1, <2>1, <2>2, <2>3, <2>4 DEF Command, Waits, Queued
<1>5. ASSUME running[r]
      PROVE  done[r] + 1 \in Pending(r) /\ Command(r, done[r] + 1).op = "job"
  <2>1. queue[r] # <<>> /\ Head(queue[r]).cmd.op = "job"
    BY <1>5 DEF Typed, TypeOK
  <2>2. Len(queue[r]) >= 1 /\ Head(queue[r]) = queue[r][1]
    BY <1>1, <2>1
  <2>3. (done[r] + 1) - done[r] = 1
    BY <1>1
  <2>. QED
    BY <1>1, <1>3, <2>1, <2>2, <2>3 DEF Pending, Command
<1>. QED
  BY <1>1, <1>3, <1>4, <1>5

\* A ring whose queue, fences and retirement stay.
LEMMA Stays ==
  ASSUME Typed, NEW r \in Ring, queue'[r] = queue[r], done'[r] = done[r], emitted'[r] = emitted[r]
  PROVE  Same(r)
BY DEF Same, Command, Waits

\* A command that is retired.
LEMMA Retires ==
  ASSUME Typed, NEW r \in Ring, Retire(r), queue[r] # <<>>, emitted' = emitted,
         Head(queue[r]).wait <= done[Other(r)]
  PROVE  Retired(r) /\ Command(r, done[r] + 1) = Head(queue[r]).cmd
<1>1. /\ done[r] \in Nat /\ emitted[r] \in Nat
      /\ queue[r] \in Seq(Queued) /\ Len(queue[r]) = emitted[r] - done[r]
      /\ Len(queue[r]) \in Nat
  BY QueueTypes
<1>2. /\ queue'[r] = Tail(queue[r]) /\ done'[r] = done[r] + 1 /\ emitted'[r] = emitted[r]
      /\ queue'[Other(r)] = queue[Other(r)] /\ done'[Other(r)] = done[Other(r)]
      /\ emitted'[Other(r)] = emitted[Other(r)]
  BY Others DEF Retire, Typed, Shapes, QueueShape
<1>3. Len(queue[r]) >= 1 /\ Head(queue[r]) = queue[r][1] /\ (done[r] + 1) - done[r] = 1
  BY <1>1
<1>4. done[r] + 1 \in Pending(r) /\ Waits(r, done[r] + 1) <= done[Other(r)]
  BY <1>1, <1>3 DEF Pending, Waits
<1>5. ASSUME NEW n \in Pending(r), n > done[r] + 1
      PROVE  Command(r, n)' = Command(r, n) /\ Waits(r, n)' = Waits(r, n)
  <2>1. n \in Nat /\ n - done[r] \in 2 .. Len(queue[r])
    BY <1>1, <1>5 DEF Pending
  <2>2. PICK k \in Nat : k = n - (done[r] + 1)
    BY <1>1, <1>5 DEF Pending
  <2>3. k \in 1 .. (Len(queue[r]) - 1) /\ k + 1 = n - done[r]
    <3>1. k + 1 = n - done[r]
      BY <1>1, <2>1, <2>2
    <3>. QED
      BY <1>1, <2>1, <3>1
  <2>4. Tail(queue[r])[k] = queue[r][k + 1]
    BY <1>1, <1>3, <2>3
  <2>5. queue'[r][n - done'[r]] = queue[r][n - done[r]]
    BY <1>2, <2>2, <2>3, <2>4
  <2>. QED
    BY <2>5 DEF Command, Waits
<1>6. Same(Other(r))
  BY <1>2, Others, Stays
<1>. QED
  BY <1>2, <1>3, <1>4, <1>5, <1>6 DEF Retired, Command

\* A command that is emitted.
LEMMA Emits ==
  ASSUME Typed, NEW r \in Ring, NEW want, NEW c, Emit(r, want, c), done' = done,
         running' = running
  PROVE  Emitted(r, want, c)
<1>1. /\ done[r] \in Nat /\ emitted[r] \in Nat
      /\ queue[r] \in Seq(Queued) /\ Len(queue[r]) = emitted[r] - done[r]
      /\ Len(queue[r]) \in Nat
  BY QueueTypes
<1>2. PICK x : x = [wait |-> Await(r, want), cmd |-> c]
  OBVIOUS
<1>3. /\ queue'[r] = Append(queue[r], x) /\ emitted'[r] = emitted[r] + 1
      /\ queue'[Other(r)] = queue[Other(r)] /\ emitted'[Other(r)] = emitted[Other(r)]
  BY <1>2, Others DEF Emit, Typed, Shapes, QueueShape
<1>4. ASSUME NEW n \in Pending(r)
      PROVE  Command(r, n)' = Command(r, n) /\ Waits(r, n)' = Waits(r, n)
  <2>1. PICK k \in 1 .. Len(queue[r]) : k = n - done[r]
    BY <1>1 DEF Pending
  <2>2. Append(queue[r], x)[k] = queue[r][k]
    BY <1>1, <2>1
  <2>. QED
    BY <1>3, <2>1, <2>2 DEF Command, Waits
<1>5. ASSUME NEW n \in Nat, n = emitted[r] + 1
      PROVE  Command(r, n)' = c /\ Waits(r, n)' = Await(r, want)
  <2>1. n - done[r] = Len(queue[r]) + 1
    BY <1>1, <1>5
  <2>2. Append(queue[r], x)[Len(queue[r]) + 1] = x
    BY <1>1
  <2>3. queue'[r][n - done'[r]] = x
    BY <1>3, <2>1, <2>2
  <2>. QED
    BY <1>2, <2>3 DEF Command, Waits
<1>6. Same(Other(r))
  BY <1>3, Others, Stays
<1>. QED
  BY <1>3, <1>4, <1>5, <1>6 DEF Emitted

-----------------------------------------------------------------------------
(* Types are kept *)

\* What TypeOK says of the rings, the ids, the tables and the bounds.
RingsCount ==
  \A r \in Ring :
    /\ done[r] + Len(queue[r]) = emitted[r] /\ known[r] \in 0 .. emitted[Other(r)]
    /\ \A i \in 1 .. Len(queue[r]) : queue[r][i].wait \in 0 .. emitted[Other(r)]
    /\ running[r] => queue[r] # <<>> /\ Head(queue[r]).cmd.op = "job"

\* Of the ids: no use and no flush is later than the ring has emitted.
IdsCount ==
  /\ \A v \in Vm, r \in Ring :
       ids[v][r].id \in 0 .. Nvm /\ ids[v][r].use \in 0 .. emitted[r]
         /\ ids[v][r].pd \in 0 .. pd[v] /\ ids[v][r].flushed \in 0 .. emitted[Dma]
  /\ \A i \in Id : active[i].seq \in 0 .. emitted[active[i].ring]

\* Of the tables: nothing is believed or written that was never a place.
TablesCount ==
  /\ \A v \in Vm : addr[v] \in 0 .. pt[v] /\ pde[v] \in 0 .. pt[v]
                     /\ pdfence[v] \in 0 .. emitted[Dma]
  /\ \A v \in Vm, o \in Bo : pte[v][o] \in 0 .. place[o]
                               /\ last_pt_update[v][o] \in 0 .. emitted[Dma]

\* The bounds.
StepsCount == jobs \in 0 .. MaxJobs /\ changes \in 0 .. MaxChange /\ fails \in 0 .. MaxFail

RingTypes == QueueShape /\ RingsCount
IdTypes == IdShape /\ IdsCount
MapTypes == MapShape /\ TablesCount
StepTypes == StepShape /\ StepsCount

\* The types of the module and the shapes, sorted by what they are about.
LEMMA TypeParts == Typed <=> RingTypes /\ IdTypes /\ MapTypes /\ StepTypes /\ WritesAreBounded
BY DEF Typed, TypeOK, Shapes, RingTypes, IdTypes, MapTypes, StepTypes, RingsCount, IdsCount,
       TablesCount, StepsCount

\* The same of the next state.
LEMMA TypePartsNext ==
  RingTypes' /\ IdTypes' /\ MapTypes' /\ StepTypes' /\ WritesAreBounded' => Typed'
BY DEF Typed, TypeOK, Shapes, RingTypes, IdTypes, MapTypes, StepTypes, RingsCount, IdsCount,
       TablesCount, StepsCount

\* The first command of a ring retires.
LEMMA RetireTypes ==
  ASSUME Typed, NEW r \in Ring, Retire(r), queue[r] # <<>>, UNCHANGED <<emitted, known>>,
         running' \in [Ring -> BOOLEAN], ~running'[r], running'[Other(r)] = running[Other(r)]
  PROVE  RingTypes' /\ (UNCHANGED <<pt, place>> => WritesAreBounded')
<1>1. /\ queue[r] \in Seq(Queued) /\ Len(queue[r]) \in Nat /\ done[r] \in Nat
      /\ emitted[r] \in Nat /\ Len(queue[r]) = emitted[r] - done[r]
  BY QueueTypes
<1>2. /\ queue'[r] = Tail(queue[r]) /\ done'[r] = done[r] + 1
      /\ queue'[Other(r)] = queue[Other(r)] /\ done'[Other(r)] = done[Other(r)]
      /\ queue' = [queue EXCEPT ![r] = Tail(queue[r])] /\ done' = [done EXCEPT ![r] = done[r] + 1]
  BY Others DEF Retire, Typed, Shapes, QueueShape
<1>3. /\ Len(queue[r]) >= 1 /\ Tail(queue[r]) \in Seq(Queued)
      /\ Len(Tail(queue[r])) = Len(queue[r]) - 1
  BY <1>1
<1>4. \A i \in 1 .. Len(queue'[r]) : i + 1 \in 1 .. Len(queue[r]) /\ queue'[r][i] = queue[r][i + 1]
  BY <1>1, <1>2, <1>3
<1>5. QueueShape'
  <2>1. queue' \in [Ring -> Seq(Queued)]
    BY <1>2, <1>3 DEF Typed, Shapes, QueueShape
  <2>2. done' \in [Ring -> Nat]
    BY <1>1, <1>2 DEF Typed, Shapes, QueueShape
  <2>3. \A i \in 1 .. Len(queue'["gfx"]) : queue'["gfx"][i].cmd \in RunsJob
    <3>1. \A i \in 1 .. Len(queue["gfx"]) : queue["gfx"][i].cmd \in RunsJob
      BY DEF Typed, Shapes, QueueShape
    <3>2. CASE r = "gfx"
      BY <1>4, <3>1, <3>2
    <3>3. CASE r # "gfx"
      <4>1. queue'["gfx"] = queue["gfx"]
        BY <1>2, <3>3, Others
      <4>. QED
        BY <3>1, <4>1
    <3>. QED
      BY <3>2, <3>3
  <2>. QED
    BY <2>1, <2>2, <2>3 DEF Typed, Shapes, QueueShape
<1>6. RingsCount'
  <2>1. RingsCount
    BY TypeParts DEF RingTypes
  <2>2. ASSUME NEW s \in Ring
        PROVE  done'[s] + Len(queue'[s]) = emitted'[s]
    <3>1. done[s] + Len(queue[s]) = emitted[s]
      BY <2>1 DEF RingsCount
    <3>2. CASE s = r
      <4>1. Len(queue'[r]) = Len(queue[r]) - 1
        BY <1>2, <1>3
      <4>2. done'[r] + Len(queue'[r]) = emitted[r]
        BY <1>1, <1>2, <4>1
      <4>. QED
        BY <3>2, <4>2
    <3>3. CASE s # r
      BY <1>2, <3>1, <3>3, Others
    <3>. QED
      BY <3>2, <3>3
  <2>3. ASSUME NEW s \in Ring, NEW i \in 1 .. Len(queue'[s])
        PROVE  queue'[s][i].wait \in 0 .. emitted'[Other(s)]
    BY <1>2, <1>4, <2>1, <2>3, Others DEF RingsCount
  <2>4. ASSUME NEW s \in Ring, running'[s]
        PROVE  queue'[s] # <<>> /\ Head(queue'[s]).cmd.op = "job"
    BY <1>2, <2>1, <2>4, Others DEF RingsCount
  <2>. QED
    BY <2>1, <2>2, <2>3, <2>4 DEF RingsCount
<1>7. ASSUME UNCHANGED <<pt, place>> PROVE WritesAreBounded'
  <2>1. ASSUME NEW i \in 1 .. Len(queue'[Dma])
        PROVE  \E k \in 1 .. Len(queue[Dma]) : queue'[Dma][i] = queue[Dma][k]
    <3>1. CASE r = Dma
      BY <1>4, <2>1, <3>1
    <3>2. CASE r # Dma
      <4>1. queue'[Dma] = queue[Dma]
        BY <1>2, <3>2, Others
      <4>. QED
        BY <2>1, <4>1
    <3>. QED
      BY <3>1, <3>2
  <2>2. WritesAreBounded
    BY DEF Typed
  <2>. QED
    BY <1>7, <2>1, <2>2 DEF WritesAreBounded
<1>. QED
  BY <1>5, <1>6, <1>7 DEF RingTypes

\* What a command may wait for.
LEMMA AwaitTypes ==
  ASSUME Typed, NEW r \in Ring, NEW want
  PROVE  Await(r, want) \in 0 .. emitted[Other(r)]
BY Others, QueueTypes DEF Await

\* A ring gets a command.
LEMMA EmitTypes ==
  ASSUME Typed, NEW r \in Ring, NEW want, NEW c \in Cmd, r = "gfx" => c \in RunsJob,
         Emit(r, want, c), UNCHANGED <<running, done>>
  PROVE  /\ RingTypes' /\ emitted'[r] = emitted[r] + 1 /\ emitted'[Other(r)] = emitted[Other(r)]
         /\ UNCHANGED <<pt, place>> /\ (c.op = "pde" => c.to <= pt[c.vm])
              /\ (c.op = "pte" => c.to <= place[c.bo]) => WritesAreBounded'
<1>1. /\ queue[r] \in Seq(Queued) /\ Len(queue[r]) \in Nat /\ done[r] \in Nat
      /\ emitted[r] \in Nat /\ Len(queue[r]) = emitted[r] - done[r]
      /\ emitted[Other(r)] \in Nat /\ known[r] \in Nat
  BY QueueTypes, Others
<1>2. Await(r, want) \in 0 .. emitted[Other(r)] /\ Await(r, want) \in Nat
  BY <1>1, AwaitTypes
<1>3. PICK x : x = [wait |-> Await(r, want), cmd |-> c]
  OBVIOUS
<1>4. x \in Queued /\ x.wait = Await(r, want) /\ x.cmd = c
  BY <1>2, <1>3 DEF Queued
<1>5. /\ queue' = [queue EXCEPT ![r] = Append(queue[r], x)]
      /\ emitted' = [emitted EXCEPT ![r] = emitted[r] + 1]
      /\ known' = [known EXCEPT ![r] = Larger(known[r], Await(r, want))]
  BY <1>3 DEF Emit, Note
<1>6. /\ queue'[r] = Append(queue[r], x) /\ emitted'[r] = emitted[r] + 1
      /\ queue'[Other(r)] = queue[Other(r)] /\ emitted'[Other(r)] = emitted[Other(r)]
      /\ known'[r] = Larger(known[r], Await(r, want)) /\ known'[Other(r)] = known[Other(r)]
  BY <1>5, Others DEF Typed, Shapes, QueueShape
<1>7. Append(queue[r], x) \in Seq(Queued) /\ Len(Append(queue[r], x)) = Len(queue[r]) + 1
  BY <1>1, <1>4
<1>8. /\ \A i \in 1 .. Len(queue[r]) : Append(queue[r], x)[i] = queue[r][i]
      /\ Append(queue[r], x)[Len(queue[r]) + 1] = x
  BY <1>1, <1>4
<1>9. ASSUME NEW s \in Ring, NEW i \in 1 .. Len(queue'[s])
      PROVE  (i \in 1 .. Len(queue[s]) /\ queue'[s][i] = queue[s][i]) \/ (s = r /\ queue'[s][i] = x)
  <2>1. CASE s = r
    <3>1. i \in 1 .. (Len(queue[r]) + 1)
      BY <1>6, <1>7, <1>9, <2>1
    <3>. QED
      BY <1>1, <1>6, <1>8, <2>1, <3>1
  <2>2. CASE s # r
    <3>1. queue'[s] = queue[s]
      BY <1>6, <2>2, Others
    <3>. QED
      BY <1>9, <3>1
  <2>. QED
    BY <2>1, <2>2
<1>10. QueueShape'
  <2>1. queue' \in [Ring -> Seq(Queued)]
    BY <1>5, <1>7 DEF Typed, Shapes, QueueShape
  <2>2. emitted' \in [Ring -> Nat]
    BY <1>1, <1>5 DEF Typed, Shapes, QueueShape
  <2>3. known' \in [Ring -> Nat]
    <3>1. Larger(known[r], Await(r, want)) \in Nat
      BY <1>1, <1>2 DEF Larger
    <3>. QED
      BY <1>5, <3>1 DEF Typed, Shapes, QueueShape
  <2>4. \A i \in 1 .. Len(queue'["gfx"]) : queue'["gfx"][i].cmd \in RunsJob
    <3>1. \A i \in 1 .. Len(queue["gfx"]) : queue["gfx"][i].cmd \in RunsJob
      BY DEF Typed, Shapes, QueueShape
    <3>. QED
      BY <1>4, <1>9, <3>1, Others
  <2>. QED
    BY <2>1, <2>2, <2>3, <2>4 DEF Typed, Shapes, QueueShape
<1>11. RingsCount'
  <2>1. RingsCount
    BY TypeParts DEF RingTypes
  <2>2. ASSUME NEW s \in Ring
        PROVE  /\ done'[s] + Len(queue'[s]) = emitted'[s]
               /\ emitted[s] \in Nat /\ emitted'[s] \in Nat /\ emitted[s] <= emitted'[s]
    <3>1. emitted[s] \in Nat /\ done[s] + Len(queue[s]) = emitted[s]
      BY <2>1, QueueTypes DEF RingsCount
    <3>2. CASE s = r
      <4>1. Len(queue'[r]) = Len(queue[r]) + 1
        BY <1>6, <1>7
      <4>2. done[r] + Len(queue'[r]) = emitted'[r]
        BY <1>1, <1>6, <4>1
      <4>. QED
        BY <1>1, <1>6, <3>2, <4>2
    <3>3. CASE s # r
      BY <1>6, <3>1, <3>3, Others
    <3>. QED
      BY <3>2, <3>3
  <2>3. ASSUME NEW s \in Ring, NEW i \in 1 .. Len(queue'[s])
        PROVE  queue'[s][i].wait \in 0 .. emitted'[Other(s)]
    <3>1. CASE i \in 1 .. Len(queue[s]) /\ queue'[s][i] = queue[s][i]
      <4>1. queue[s][i].wait \in 0 .. emitted[Other(s)] /\ Other(s) \in Ring
        BY <2>1, <3>1, Others DEF RingsCount
      <4>. QED
        BY <2>2, <3>1, <4>1
    <3>2. CASE s = r /\ queue'[s][i] = x
      BY <1>2, <1>4, <1>6, <3>2
    <3>. QED
      BY <1>9, <2>3, <3>1, <3>2
  <2>4. ASSUME NEW s \in Ring, running'[s]
        PROVE  queue'[s] # <<>> /\ Head(queue'[s]).cmd.op = "job"
    <3>1. queue[s] # <<>> /\ Head(queue[s]).cmd.op = "job" /\ queue[s] \in Seq(Queued)
      BY <2>1, <2>4, QueueTypes DEF RingsCount
    <3>2. Head(queue[s]) = queue[s][1] /\ Len(queue[s]) >= 1
      BY <3>1
    <3>3. CASE s = r
      <4>1. queue'[s][1] = queue[s][1] /\ Len(queue'[s]) >= 1 /\ queue'[s] \in Seq(Queued)
        <5>1. Append(queue[r], x)[1] = queue[r][1]
          BY <1>1, <1>8, <3>2, <3>3
        <5>. QED
          <6>1. queue'[r] \in Seq(Queued) /\ Len(queue'[r]) = Len(queue[r]) + 1
            BY <1>6, <1>7
          <6>2. queue'[r][1] = queue[r][1]
            BY <1>6, <5>1
          <6>. QED
            BY <1>1, <3>3, <6>1, <6>2
      <4>2. Head(queue'[s]) = queue'[s][1] /\ queue'[s] # <<>>
        BY <4>1
      <4>. QED
        BY <3>1, <3>2, <4>1, <4>2
    <3>4. CASE s # r
      <4>1. queue'[s] = queue[s]
        BY <1>6, <3>4, Others
      <4>. QED
        BY <3>1, <4>1
    <3>. QED
      BY <3>3, <3>4
  <2>5. ASSUME NEW s \in Ring
        PROVE  known'[s] \in 0 .. emitted'[Other(s)]
    <3>1. known[s] \in 0 .. emitted[Other(s)] /\ Other(s) \in Ring
      BY <2>1, Others DEF RingsCount
    <3>2. CASE s = r
      BY <1>1, <1>2, <1>6, <3>1, <3>2 DEF Larger
    <3>3. CASE s # r
      BY <1>6, <2>2, <3>1, <3>3, Others
    <3>. QED
      BY <3>2, <3>3
  <2>. QED
    BY <2>2, <2>3, <2>4, <2>5 DEF RingsCount
<1>12. ASSUME UNCHANGED <<pt, place>>, c.op = "pde" => c.to <= pt[c.vm],
              c.op = "pte" => c.to <= place[c.bo]
       PROVE  WritesAreBounded'
  <2>1. WritesAreBounded
    BY DEF Typed
  <2>2. Dma \in Ring
    BY DEF Ring
  <2>. QED
    BY <1>4, <1>9, <1>12, <2>1, <2>2 DEF WritesAreBounded
<1>. QED
  BY <1>6, <1>10, <1>11, <1>12 DEF RingTypes

\* A submission is going on.
LEMMA Going ==
  ASSUME Typed, cs.step # "idle"
  PROVE  /\ cs \in Submission /\ cs.vm \in Vm /\ cs.ring \in Ring \cup {"none"}
         /\ cs.use \subseteq Bo /\ cs.todo \subseteq Bo /\ cs # Idle
<1>1. cs # Idle
  BY DEF Idle
<1>. QED
  BY <1>1 DEF Typed, Shapes, StepShape, Submission

\* The types of a submission that goes on.
LEMMA GoesOn ==
  ASSUME Typed, cs.step # "idle",
         NEW step \in {"directory", "freed", "update", "invalids", "schedule"}, Goto(step)
  PROVE  /\ cs' \in Submission /\ cs'.step = step /\ cs'.vm = cs.vm /\ cs'.ring = cs.ring
         /\ cs'.use = cs.use /\ cs'.todo = cs.todo
BY Going DEF Goto, Submission

\* Fences are only added.
Grows == \A r \in Ring : emitted'[r] \in Nat /\ emitted[r] <= emitted'[r]

\* A step that emits nothing, or one command, leaves no ring behind where it was.
LEMMA Growing ==
  ASSUME Typed
  PROVE  /\ emitted' = emitted => Grows
         /\ \A r \in Ring : emitted'[r] = emitted[r] + 1 /\ emitted'[Other(r)] = emitted[Other(r)]
                              => Grows
<1>1. \A r \in Ring : emitted[r] \in Nat
  BY QueueTypes
<1>. QED
  BY <1>1, Others DEF Grows

\* What leaves the rings alone keeps their types,
LEMMA RingTypesStay ==
  ASSUME Typed, UNCHANGED <<queue, running, emitted, done, known, pt, place>>
  PROVE  RingTypes' /\ WritesAreBounded' /\ Grows
<1>1. RingTypes' /\ WritesAreBounded'
  BY TypeParts DEF RingTypes, QueueShape, RingsCount, WritesAreBounded
<1>. QED
  BY <1>1, Growing

\* what leaves the ids alone those of the ids,
LEMMA IdTypesStay ==
  ASSUME Typed, Grows, UNCHANGED <<ids, active, base, tlb>>,
         \A v \in Vm : pd'[v] \in Nat /\ pd[v] <= pd'[v]
  PROVE  IdTypes'
<1>1. IdShape /\ IdsCount
  BY TypeParts DEF IdTypes
<1>2. IdShape'
  BY <1>1 DEF IdShape
<1>3. \A r \in Ring : emitted[r] \in Nat
  BY QueueTypes
<1>4. ASSUME NEW v \in Vm, NEW r \in Ring
      PROVE  ids'[v][r].id \in 0 .. Nvm /\ ids'[v][r].use \in 0 .. emitted'[r]
               /\ ids'[v][r].pd \in 0 .. pd'[v] /\ ids'[v][r].flushed \in 0 .. emitted'[Dma]
  <2>1. /\ ids[v][r].id \in 0 .. Nvm /\ ids[v][r].use \in 0 .. emitted[r]
        /\ ids[v][r].pd \in 0 .. pd[v] /\ ids[v][r].flushed \in 0 .. emitted[Dma]
    BY <1>1 DEF IdsCount
  <2>2. Dma \in Ring /\ pd[v] \in Nat
    BY DEF Ring, Typed, Shapes, MapShape
  <2>. QED
    BY <1>3, <2>1, <2>2 DEF Grows
<1>5. ASSUME NEW i \in Id PROVE active'[i].seq \in 0 .. emitted'[active'[i].ring]
  <2>1. active[i].seq \in 0 .. emitted[active[i].ring] /\ active[i].ring \in Ring
    BY <1>1 DEF IdsCount, IdShape
  <2>. QED
    BY <1>3, <2>1 DEF Grows
<1>. QED
  BY <1>2, <1>4, <1>5 DEF IdTypes, IdsCount

\* what leaves the tables alone those of the tables,
LEMMA TablesStay ==
  ASSUME Typed, Grows, UNCHANGED <<addr, pdfence, place, pt, pde, pte, last_pt_update>>
  PROVE  TablesCount'
<1>1. TablesCount /\ emitted[Dma] \in Nat /\ emitted'[Dma] \in Nat /\ emitted[Dma] <= emitted'[Dma]
  BY TypeParts, QueueTypes DEF MapTypes, Grows, Ring
<1>2. \A k \in 0 .. emitted[Dma] : k \in 0 .. emitted'[Dma]
  BY <1>1
<1>. QED
  BY <1>1, <1>2 DEF TablesCount

\* what leaves the mappings too those of both,
LEMMA MapTypesStay ==
  ASSUME Typed, Grows,
         UNCHANGED <<mapped, status, freed, last_pt_update, addr, pdfence, place, pt, pd, pde, pte>>
  PROVE  MapTypes' /\ \A v \in Vm : pd'[v] \in Nat /\ pd[v] <= pd'[v]
<1>1. MapShape'
  BY DEF Typed, Shapes, MapShape
<1>2. \A v \in Vm : pd'[v] \in Nat /\ pd[v] <= pd'[v]
  BY DEF Typed, Shapes, MapShape
<1>. QED
  BY <1>1, <1>2, TablesStay DEF MapTypes

\* and what leaves the submission alone its own.
LEMMA StepTypesStay ==
  ASSUME Typed, UNCHANGED <<cs, bounds>>
  PROVE  StepTypes'
BY TypeParts DEF StepTypes, StepShape, StepsCount, bounds

-----------------------------------------------------------------------------
(* The types of the GPU's steps *)

LEMMA WriteTypes ==
  ASSUME Typed, NEW r \in Ring, Write(r)
  PROVE  Typed' /\ r = Dma
<1>1. /\ queue[r] # <<>> /\ ~running[r] /\ Retire(r)
      /\ UNCHANGED <<running, emitted, known, ids, active, maps, addr, pdfence, places, base, tlb,
                     cs, bounds>>
  BY DEF Write, Ready
<1>2. PICK c : c = Head(queue[r]).cmd
  OBVIOUS
<1>3. c \in Cmd /\ (r = "gfx" => c \in RunsJob) /\ c = queue[r][1].cmd /\ 1 \in 1 .. Len(queue[r])
  <2>1. queue[r] \in Seq(Queued) /\ Len(queue[r]) >= 1 /\ Head(queue[r]) = queue[r][1]
    BY <1>1, QueueTypes
  <2>2. queue[r][1] \in Queued /\ 1 \in 1 .. Len(queue[r])
    BY <2>1
  <2>3. c \in Cmd
    BY <1>2, <2>1, <2>2 DEF Queued
  <2>. QED
    BY <1>2, <2>1, <2>2, <2>3 DEF Typed, Shapes, QueueShape
<1>4. \/ c.op = "pde" /\ pde' = [pde EXCEPT ![c.vm] = c.to] /\ UNCHANGED pte
      \/ c.op = "pte" /\ pte' = [pte EXCEPT ![c.vm][c.bo] = c.to] /\ UNCHANGED pde
  BY <1>2 DEF Write
<1>5. r = Dma
  BY <1>3, <1>4, Others DEF RunsJob
<1>6. (c.op = "pde" => c \in WritesDirectory) /\ (c.op = "pte" => c \in WritesEntry)
  BY <1>3 DEF Cmd, WritesDirectory, WritesEntry, RunsJob
<1>7. (c.op = "pde" => c.to <= pt[c.vm]) /\ (c.op = "pte" => c.to <= place[c.bo])
  BY <1>3, <1>5 DEF Typed, WritesAreBounded
<1>8. RingTypes' /\ WritesAreBounded'
  <2>1. /\ running' \in [Ring -> BOOLEAN] /\ ~running'[r] /\ running'[Other(r)] = running[Other(r)]
        /\ UNCHANGED <<emitted, known, pt, place>>
    BY <1>1 DEF Typed, Shapes, QueueShape, places
  <2>. QED
    BY <1>1, <2>1, RetireTypes
<1>9. Grows
  BY <1>1, Growing
<1>10. MapTypes'
  <2>1. UNCHANGED <<mapped, status, freed, last_pt_update, addr, pdfence, place, pt, pd>>
    BY <1>1 DEF maps, places
  <2>2. MapShape /\ TablesCount
    BY TypeParts DEF MapTypes
  <2>3. pde' \in [Vm -> Nat] /\ pte' \in [Vm -> [Bo -> Nat]]
    <3>1. pde \in [Vm -> Nat] /\ pte \in [Vm -> [Bo -> Nat]]
      BY <2>2 DEF MapShape
    <3>2. CASE c.op = "pde"
      <4>1. c.vm \in Vm /\ c.to \in Nat /\ pde' = [pde EXCEPT ![c.vm] = c.to] /\ pte' = pte
        BY <1>4, <1>6, <3>2 DEF WritesDirectory
      <4>. QED
        BY <3>1, <4>1
    <3>3. CASE c.op = "pte"
      <4>1. /\ c.vm \in Vm /\ c.bo \in Bo /\ c.to \in Nat /\ pde' = pde
            /\ pte' = [pte EXCEPT ![c.vm][c.bo] = c.to]
        BY <1>4, <1>6, <3>3 DEF WritesEntry
      <4>. QED
        BY <3>1, <4>1
    <3>. QED
      BY <1>4, <3>2, <3>3
  <2>4. MapShape'
    BY <2>1, <2>2, <2>3 DEF MapShape
  <2>5. ASSUME NEW v \in Vm PROVE pde'[v] \in 0 .. pt[v]
    <3>1. pde[v] \in 0 .. pt[v] /\ pt[v] \in Nat
      BY <2>2 DEF TablesCount, MapShape
    <3>2. CASE c.op = "pde"
      <4>1. c.vm \in Vm /\ c.to \in Nat /\ pde' = [pde EXCEPT ![c.vm] = c.to]
        BY <1>4, <1>6, <3>2 DEF WritesDirectory
      <4>2. pde'[v] = IF v = c.vm THEN c.to ELSE pde[v]
        BY <2>2, <4>1 DEF MapShape
      <4>. QED
        BY <1>7, <3>1, <3>2, <4>1, <4>2
    <3>3. CASE c.op # "pde"
      BY <1>4, <3>1, <3>3
    <3>. QED
      BY <3>2, <3>3
  <2>6. ASSUME NEW v \in Vm, NEW o \in Bo PROVE pte'[v][o] \in 0 .. place[o]
    <3>1. pte[v][o] \in 0 .. place[o] /\ place[o] \in Nat
      BY <2>2 DEF TablesCount, MapShape
    <3>2. CASE c.op = "pte"
      <4>1. pte' = [pte EXCEPT ![c.vm][c.bo] = c.to] /\ c.vm \in Vm /\ c.bo \in Bo /\ c.to \in Nat
        BY <1>4, <1>6, <3>2 DEF WritesEntry
      <4>2. pte'[v][o] = IF v = c.vm /\ o = c.bo THEN c.to ELSE pte[v][o]
        BY <2>2, <4>1 DEF MapShape
      <4>. QED
        BY <1>7, <3>1, <3>2, <4>1, <4>2
    <3>3. CASE c.op # "pte"
      BY <1>4, <3>1, <3>3
    <3>. QED
      BY <3>2, <3>3
  <2>. QED
    BY <1>1, <2>1, <2>2, <2>4, <2>5, <2>6 DEF MapTypes, TablesCount
<1>11. IdTypes' /\ StepTypes'
  <2>1. \A v \in Vm : pd'[v] \in Nat /\ pd[v] <= pd'[v]
    BY <1>1 DEF places, Typed, Shapes, MapShape
  <2>. QED
    BY <1>1, <1>9, <2>1, IdTypesStay, StepTypesStay
<1>. QED
  BY <1>5, <1>8, <1>10, <1>11, TypePartsNext

\* A job starts: it is the first of its ring.
LEMMA StartTypes ==
  ASSUME Typed, NEW r \in Ring, Start(r)
  PROVE  /\ Typed' /\ queue[r] # <<>> /\ Head(queue[r]).cmd \in RunsJob
         /\ Head(queue[r]).cmd = Command(r, done[r] + 1) /\ done[r] + 1 \in Pending(r)
<1>1. /\ queue[r] # <<>> /\ Head(queue[r]).cmd.op = "job"
      /\ running' = [running EXCEPT ![r] = TRUE]
      /\ UNCHANGED <<done, pde, pte, rings, ids, active, maps, addr, pdfence, places, cs, bounds>>
  BY DEF Start, Ready
<1>2. PICK c : c = Head(queue[r]).cmd
  OBVIOUS
<1>3. c \in RunsJob /\ c = Command(r, done[r] + 1) /\ done[r] + 1 \in Pending(r)
  <2>1. queue[r] \in Seq(Queued) /\ Len(queue[r]) >= 1 /\ Head(queue[r]) = queue[r][1]
    BY <1>1, QueueTypes
  <2>2. queue[r][1] \in Queued
    BY <2>1
  <2>3. (done[r] + 1) - done[r] = 1 /\ done[r] + 1 \in Pending(r)
    BY <2>1, QueueTypes DEF Pending
  <2>4. c = Command(r, done[r] + 1)
    BY <1>2, <2>1, <2>3 DEF Command
  <2>5. c \in RunsJob
    BY <1>1, <1>2, <2>1, <2>2 DEF Queued, Cmd, WritesDirectory, WritesEntry
  <2>. QED
    BY <2>3, <2>4, <2>5
<1>4. IF c.flush THEN /\ base' = [base EXCEPT ![c.id] = [vm |-> c.vm, pd |-> c.pd]]
                      /\ tlb' = [tlb EXCEPT ![c.id] = Empty]
      ELSE UNCHANGED <<base, tlb>>
  BY <1>2 DEF Start
<1>5. RingTypes' /\ WritesAreBounded'
  BY <1>1, TypeParts DEF RingTypes, QueueShape, RingsCount, WritesAreBounded, rings, places
<1>6. Grows
  BY <1>1, Growing DEF rings
<1>7. MapTypes' /\ StepTypes'
  BY <1>1, <1>6, MapTypesStay, StepTypesStay DEF maps, places
<1>8. IdTypes'
  <2>1. IdShape /\ IdsCount
    BY TypeParts DEF IdTypes
  <2>2. base' \in [Id -> [vm : Vm, pd : Nat]] /\ tlb' \in [Id -> [table : Nat, page : [Bo -> Nat]]]
    <3>1. /\ base \in [Id -> [vm : Vm, pd : Nat]]
          /\ tlb \in [Id -> [table : Nat, page : [Bo -> Nat]]]
          /\ c.id \in Id /\ c.vm \in Vm /\ c.pd \in Nat
      BY <1>3, <2>1 DEF IdShape, RunsJob
    <3>2. [vm |-> c.vm, pd |-> c.pd] \in [vm : Vm, pd : Nat]
      BY <3>1
    <3>3. Empty \in [table : Nat, page : [Bo -> Nat]]
      BY DEF Empty
    <3>. QED
      BY <1>4, <3>1, <3>2, <3>3
  <2>. QED
    BY <1>1, <2>1, <2>2 DEF IdTypes, IdShape, IdsCount, rings, places
<1>. QED
  BY <1>1, <1>2, <1>3, <1>5, <1>7, <1>8, TypePartsNext

\* A job ends: it was the first of its ring.
LEMMA FinishTypes ==
  ASSUME Typed, NEW r \in Ring, Finish(r)
  PROVE  /\ Typed' /\ queue[r] # <<>> /\ Head(queue[r]).cmd \in RunsJob
         /\ Head(queue[r]).cmd = Command(r, done[r] + 1)
<1>1. /\ running[r] /\ running' = [running EXCEPT ![r] = FALSE] /\ Retire(r)
      /\ UNCHANGED <<emitted, known, pde, pte, base, ids, active, maps, addr, pdfence, places, cs,
                     bounds>>
  BY DEF Finish
<1>2. queue[r] # <<>> /\ Head(queue[r]).cmd.op = "job"
  BY <1>1 DEF Typed, TypeOK
<1>3. PICK c : c = Head(queue[r]).cmd
  OBVIOUS
<1>4. c \in RunsJob /\ c = Command(r, done[r] + 1)
  <2>1. queue[r] \in Seq(Queued) /\ Len(queue[r]) >= 1 /\ Head(queue[r]) = queue[r][1]
    BY <1>2, QueueTypes
  <2>2. queue[r][1] \in Queued
    BY <2>1
  <2>3. (done[r] + 1) - done[r] = 1
    BY QueueTypes
  <2>4. c = Command(r, done[r] + 1)
    BY <1>3, <2>1, <2>3 DEF Command
  <2>5. c \in RunsJob
    BY <1>2, <1>3, <2>1, <2>2 DEF Queued, Cmd, WritesDirectory, WritesEntry
  <2>. QED
    BY <2>4, <2>5
<1>5. tlb' = [tlb EXCEPT ![c.id] =
                [table |-> Table(c.id),
                 page |-> [o \in Bo |-> IF c.at[o] # 0 THEN Found(c.id, o) ELSE tlb[c.id].page[o]]]]
  BY <1>3 DEF Finish
<1>6. RingTypes' /\ WritesAreBounded'
  <2>1. /\ running' \in [Ring -> BOOLEAN] /\ ~running'[r] /\ running'[Other(r)] = running[Other(r)]
        /\ UNCHANGED <<emitted, known, pt, place>>
    BY <1>1, Others DEF Typed, Shapes, QueueShape, places
  <2>. QED
    BY <1>1, <1>2, <2>1, RetireTypes
<1>7. Grows
  BY <1>1, Growing
<1>8. MapTypes' /\ StepTypes'
  BY <1>1, <1>7, MapTypesStay, StepTypesStay DEF maps, places
<1>9. IdTypes'
  <2>1. IdShape /\ IdsCount /\ MapShape
    BY TypeParts DEF IdTypes, MapTypes
  <2>2. c.id \in Id
    BY <1>4 DEF RunsJob
  <2>3. base[c.id].vm \in Vm
    BY <2>1, <2>2 DEF IdShape
  <2>4. Table(c.id) \in Nat
    BY <2>1, <2>2, <2>3 DEF IdShape, MapShape, Table
  <2>5. \A o \in Bo : Found(c.id, o) \in Nat /\ tlb[c.id].page[o] \in Nat
    BY <2>1, <2>2, <2>3 DEF IdShape, MapShape, Found, Walk
  <2>6. tlb' \in [Id -> [table : Nat, page : [Bo -> Nat]]]
    BY <1>5, <2>1, <2>2, <2>4, <2>5 DEF IdShape
  <2>. QED
    BY <1>1, <2>1, <2>6 DEF IdTypes, IdShape, IdsCount, places
<1>. QED
  BY <1>2, <1>3, <1>4, <1>6, <1>8, <1>9, TypePartsNext

-----------------------------------------------------------------------------
(* The types of a submission *)

\* An id is found for every address space.
LEMMA GrabIdTypes ==
  ASSUME Typed, NEW v \in Vm, NEW r \in Ring
  PROVE  /\ GrabId(v, r) \in Id
         /\ StillValid(v, r) => GrabId(v, r) = ids[v][r].id /\ active[GrabId(v, r)].ring = r
<1>1. /\ active \in [Id -> [ring : Ring, seq : Nat]] /\ ids[v][r].id \in 0 .. Nvm
      /\ Nvm \in Nat \ {0}
  BY VmAssumption DEF Typed, TypeOK, Shapes, IdShape
<1>2. ASSUME NEW S \in SUBSET Id, S # {}
      PROVE  Earliest(S) \in S
  <2>1. PICK T : T = {active[i].seq : i \in S}
    OBVIOUS
  <2>2. T \in SUBSET Nat /\ T # {}
    BY <1>1, <1>2, <2>1
  <2>3. PICK i \in S : active[i].seq = Min(T)
    BY <2>1, <2>2, MinIs
  <2>4. \A j \in S : active[i].seq <= active[j].seq
    <3>1. \A j \in S : active[j].seq \in T
      BY <2>1
    <3>2. \A y \in T : Min(T) <= y
      BY <2>2, MinIs
    <3>. QED
      BY <2>3, <3>1, <3>2
  <2>. QED
    BY <2>4 DEF Earliest
<1>3. PICK free, same : /\ free = {i \in Id : active[i] = NoFence}
                        /\ same = {i \in Id : active[i].ring = r}
  OBVIOUS
<1>4. GrabId(v, r) = IF StillValid(v, r) THEN ids[v][r].id
                     ELSE IF free # {} THEN Min(free)
                     ELSE IF same # {} THEN Earliest(same) ELSE Earliest(Id)
  BY <1>3 DEF GrabId
<1>5. CASE StillValid(v, r)
  BY <1>1, <1>4, <1>5 DEF StillValid, Id
<1>6. CASE ~StillValid(v, r)
  <2>1. free # {} => Min(free) \in free
    <3>1. free \in SUBSET Nat
      BY <1>3 DEF Id
    <3>. QED
      BY <3>1, MinIs
  <2>2. same # {} => Earliest(same) \in same
    BY <1>2, <1>3
  <2>3. Earliest(Id) \in Id
    <3>1. 1 \in Id
      BY <1>1 DEF Id
    <3>. QED
      BY <1>2, <3>1
  <2>. QED
    BY <1>3, <1>4, <1>6, <2>1, <2>2, <2>3
<1>. QED
  BY <1>5, <1>6

\* The updates a job knows of are those of the buffers it uses and of the directory.
LEMMA UpdatesAre ==
  ASSUME Typed, cs.step = "schedule"
  PROVE  /\ Updates \in 0 .. emitted[Dma] /\ pdfence[cs.vm] <= Updates
         /\ \A o \in cs.use : last_pt_update[cs.vm][o] <= Updates
         /\ emitted[Dma] \in Nat /\ pdfence[cs.vm] \in Nat
         /\ \A o \in cs.use : last_pt_update[cs.vm][o] \in Nat
<1>1. cs.vm \in Vm /\ cs.use \subseteq Bo
  BY Going
<1>2. PICK S : S = {pdfence[cs.vm]} \cup {last_pt_update[cs.vm][o] : o \in cs.use}
  OBVIOUS
<1>3. emitted[Dma] \in Nat
  BY QueueTypes DEF Ring
<1>4. \A k \in S : k \in 0 .. emitted[Dma]
  BY <1>1, <1>2 DEF Typed, TypeOK
<1>5. S \in SUBSET Nat /\ S # {} /\ \A k \in S : k <= emitted[Dma]
  BY <1>2, <1>3, <1>4
<1>6. Max(S) \in S /\ \A k \in S : k <= Max(S)
  BY <1>3, <1>5, MaxIs
<1>7. Updates = Max(S)
  BY <1>2 DEF Updates
<1>. QED
  BY <1>2, <1>3, <1>4, <1>5, <1>6, <1>7

\* A submission begins with the jobs that are left.
LEMMA SubmitTypes ==
  ASSUME Typed, NEW v \in Vm, NEW r \in Ring, NEW use \in SUBSET Bo, Submit(v, r, use)
  PROVE  Typed'
<1>1. UNCHANGED <<gpu, rings, ids, active, maps, addr, pdfence, places, bounds>>
  BY DEF Submit
<1>2. RingTypes' /\ WritesAreBounded' /\ Grows
  BY <1>1, RingTypesStay DEF gpu, rings, places
<1>3. MapTypes' /\ IdTypes'
  <2>1. MapTypes' /\ \A w \in Vm : pd'[w] \in Nat /\ pd[w] <= pd'[w]
    BY <1>1, <1>2, MapTypesStay DEF maps, gpu, places
  <2>. QED
    BY <1>1, <1>2, <2>1, IdTypesStay DEF gpu
<1>4. StepTypes'
  <2>1. cs' = [step |-> "directory", vm |-> v, ring |-> r, use |-> use, todo |-> use]
    BY DEF Submit
  <2>2. cs' \in Submission /\ cs'.ring \in Ring /\ jobs < MaxJobs
    BY <2>1 DEF Submission, Submit
  <2>. QED
    BY <1>1, <2>2, TypeParts DEF StepTypes, StepShape, StepsCount, bounds
<1>. QED
  BY <1>2, <1>3, <1>4, TypePartsNext

\* A step of a submission that changes neither rings nor tables.
LEMMA PassingTypes ==
  ASSUME Typed, UNCHANGED <<gpu, rings, ids, active, maps, addr, pdfence, places>>,
         StepTypes'
  PROVE  Typed'
<1>1. RingTypes' /\ WritesAreBounded' /\ Grows
  BY RingTypesStay DEF gpu, rings, places
<1>2. MapTypes' /\ \A w \in Vm : pd'[w] \in Nat /\ pd[w] <= pd'[w]
  BY <1>1, MapTypesStay DEF maps, gpu, places
<1>3. IdTypes'
  BY <1>1, <1>2, IdTypesStay DEF gpu
<1>. QED
  BY <1>1, <1>2, <1>3, TypePartsNext

\* The steps that find nothing more to do.
LEMMA PassTypes ==
  ASSUME Typed, FreedCleared \/ BosUpdated \/ InvalidsCleared
  PROVE  Typed'
<1>1. /\ UNCHANGED <<gpu, rings, ids, active, maps, addr, pdfence, places, bounds>>
      /\ cs.step # "idle"
      /\ \/ cs' = Idle
         \/ Goto("update")
         \/ cs.step = "update" /\ cs.ring # "none" /\ Goto("invalids")
         \/ cs.step = "invalids" /\ Goto("schedule")
  BY DEF FreedCleared, BosUpdated, InvalidsCleared
<1>2. StepTypes'
  <2>1. StepShape /\ StepsCount
    BY TypeParts DEF StepTypes
  <2>2. CASE cs' = Idle
    BY <1>1, <2>1, <2>2 DEF StepTypes, StepShape, StepsCount, bounds, Idle
  <2>3. ASSUME NEW step \in {"update", "invalids", "schedule"}, Goto(step),
               step # "update" => cs.ring \in Ring
        PROVE  StepTypes'
    <3>1. cs' \in Submission /\ cs'.step = step /\ cs'.ring = cs.ring
      BY <1>1, <2>3, GoesOn
    <3>. QED
      BY <1>1, <2>1, <2>3, <3>1 DEF StepTypes, StepShape, StepsCount, bounds
  <2>4. cs.ring \in Ring \cup {"none"} /\ (cs.step = "invalids" => cs.ring \in Ring)
    BY <1>1, <2>1, Going DEF StepShape
  <2>. QED
    BY <1>1, <2>2, <2>3, <2>4
<1>. QED
  BY <1>1, <1>2, PassingTypes

\* An update that fails.
LEMMA GiveUp ==
  ASSUME Typed, fails < MaxFail, fails' = fails + 1, cs' = Idle, UNCHANGED <<jobs, changes>>
  PROVE  StepTypes' /\ fails' # 0
<1>1. fails \in 0 .. MaxFail /\ MaxFail \in Nat
  BY VmAssumption DEF Typed, TypeOK
<1>2. fails' \in 0 .. MaxFail /\ fails' # 0
  BY <1>1
<1>. QED
  BY <1>2, TypeParts DEF StepTypes, StepShape, StepsCount, Idle

\* What an update of an entry adds.
LEMMA UpdateTypes ==
  ASSUME Typed, NEW v \in Vm, NEW o \in Bo, NEW want, NEW to \in Nat, to <= place[o],
         Update(v, o, want, to), UNCHANGED <<gpu, places>>
  PROVE  /\ RingTypes' /\ WritesAreBounded' /\ Grows /\ emitted'[Dma] = emitted[Dma] + 1
         /\ Emitted(Dma, want, [op |-> "pte", vm |-> v, bo |-> o, to |-> to])
<1>1. PICK c : c = [op |-> "pte", vm |-> v, bo |-> o, to |-> to]
  OBVIOUS
<1>2. c \in Cmd /\ c.op = "pte" /\ c.bo = o /\ c.to = to
  BY <1>1 DEF Cmd, WritesEntry
<1>3. Emit(Dma, want, c) /\ UNCHANGED <<running, done, pt, place>>
  BY <1>1 DEF Update, gpu, places
<1>4. Dma \in Ring /\ Dma # "gfx"
  BY Others DEF Ring
<1>5. /\ RingTypes' /\ emitted'[Dma] = emitted[Dma] + 1
      /\ emitted'[Other(Dma)] = emitted[Other(Dma)]
      /\ WritesAreBounded'
  BY <1>2, <1>3, <1>4, EmitTypes
<1>6. Grows
  BY <1>4, <1>5, Growing
<1>7. Emitted(Dma, want, c)
  BY <1>3, <1>4, Emits
<1>. QED
  BY <1>1, <1>5, <1>6, <1>7

\* The directory is written with where the table is, or the update fails.
LEMMA UpdateDirectoryTypes ==
  ASSUME Typed, UpdateDirectory
  PROVE  Typed'
<1>1. /\ cs.step = "directory" /\ addr' = [addr EXCEPT ![cs.vm] = pt[cs.vm]]
      /\ UNCHANGED <<gpu, ids, active, maps, places, jobs, changes>>
  BY DEF UpdateDirectory
<1>2. cs.vm \in Vm /\ cs.ring \in Ring \cup {"none"}
  BY <1>1, Going
<1>3. \/ Goto("freed") /\ UNCHANGED <<rings, pdfence, fails>>
      \/ /\ Emit(Dma, 0, [op |-> "pde", vm |-> cs.vm, to |-> pt[cs.vm]])
         /\ pdfence' = [pdfence EXCEPT ![cs.vm] = emitted[Dma] + 1]
         /\ Goto("freed") /\ UNCHANGED fails
      \/ fails < MaxFail /\ fails' = fails + 1 /\ cs' = Idle /\ UNCHANGED <<rings, pdfence>>
  BY DEF UpdateDirectory
<1>4. StepTypes'
  <2>1. StepShape /\ StepsCount
    BY TypeParts DEF StepTypes
  <2>2. ASSUME Goto("freed"), UNCHANGED fails
        PROVE  StepTypes'
    <3>1. cs' \in Submission /\ cs'.step = "freed" /\ cs'.ring = cs.ring
      BY <1>1, <2>2, GoesOn
    <3>. QED
      BY <1>1, <2>1, <2>2, <3>1 DEF StepTypes, StepShape, StepsCount
  <2>. QED
    BY <1>1, <1>3, <2>2, GiveUp
<1>5. MapShape /\ TablesCount /\ emitted[Dma] \in Nat /\ pt[cs.vm] \in Nat
  BY <1>2, TypeParts, QueueTypes DEF MapTypes, Ring, MapShape
<1>6. addr' \in [Vm -> Nat] /\ \A v \in Vm : addr'[v] \in 0 .. pt[v]
  <2>1. \A v \in Vm : addr'[v] = IF v = cs.vm THEN pt[v] ELSE addr[v]
    BY <1>1, <1>5 DEF MapShape
  <2>2. addr' \in [Vm -> Nat]
    BY <1>1, <1>5 DEF MapShape
  <2>3. ASSUME NEW v \in Vm PROVE addr'[v] \in 0 .. pt[v]
    <3>1. addr[v] \in 0 .. pt[v] /\ pt[v] \in Nat
      BY <1>5 DEF MapShape, TablesCount
    <3>. QED
      BY <2>1, <3>1
  <2>. QED
    BY <2>2, <2>3
<1>7. CASE UNCHANGED <<rings, pdfence>>
  <2>1. RingTypes' /\ WritesAreBounded' /\ Grows
    BY <1>1, <1>7, RingTypesStay DEF gpu, rings, places
  <2>2. MapTypes'
    BY <1>1, <1>5, <1>6, <1>7 DEF MapTypes, MapShape, TablesCount, maps, gpu, places, rings
  <2>3. IdTypes'
    BY <1>1, <1>5, <2>1, IdTypesStay DEF gpu, places, MapShape
  <2>. QED
    BY <1>4, <2>1, <2>2, <2>3, TypePartsNext
<1>8. CASE /\ Emit(Dma, 0, [op |-> "pde", vm |-> cs.vm, to |-> pt[cs.vm]])
           /\ pdfence' = [pdfence EXCEPT ![cs.vm] = emitted[Dma] + 1]
  <2>1. PICK c : c = [op |-> "pde", vm |-> cs.vm, to |-> pt[cs.vm]]
    OBVIOUS
  <2>2. c \in Cmd /\ c.op = "pde" /\ c.vm = cs.vm /\ c.to = pt[cs.vm]
    BY <1>2, <1>5, <2>1 DEF Cmd, WritesDirectory
  <2>3. Emit(Dma, 0, c) /\ UNCHANGED <<running, done, pt, place>> /\ Dma \in Ring /\ Dma # "gfx"
    BY <1>1, <1>8, <2>1, Others DEF gpu, places, Ring
  <2>4. /\ RingTypes' /\ emitted'[Dma] = emitted[Dma] + 1
        /\ emitted'[Other(Dma)] = emitted[Other(Dma)] /\ WritesAreBounded'
    BY <1>5, <2>2, <2>3, EmitTypes
  <2>5. Grows
    BY <2>3, <2>4, Growing
  <2>6. MapTypes'
    <3>1. /\ pdfence' \in [Vm -> Nat]
          /\ \A v \in Vm : pdfence'[v] = IF v = cs.vm THEN emitted[Dma] + 1 ELSE pdfence[v]
      <4>1. pdfence \in [Vm -> Nat] /\ emitted[Dma] + 1 \in Nat
        BY <1>5 DEF MapShape
      <4>2. pdfence' = [pdfence EXCEPT ![cs.vm] = emitted[Dma] + 1]
        BY <1>8
      <4>. QED
        BY <4>1, <4>2
    <3>2. MapShape'
      BY <1>1, <1>5, <1>6, <3>1 DEF MapShape, maps, gpu, places
    <3>3. \A k \in 0 .. emitted[Dma] : k \in 0 .. emitted'[Dma]
      BY <1>5, <2>4
    <3>4. \A v \in Vm : pdfence'[v] \in 0 .. emitted'[Dma]
      BY <1>5, <2>4, <3>1, <3>3 DEF TablesCount
    <3>. QED
      BY <1>1, <1>5, <1>6, <3>2, <3>3, <3>4 DEF MapTypes, TablesCount, maps, gpu, places
  <2>7. IdTypes'
    BY <1>1, <1>5, <2>5, IdTypesStay DEF gpu, places, MapShape
  <2>. QED
    BY <1>4, <2>4, <2>6, <2>7, TypePartsNext
<1>. QED
  BY <1>3, <1>7, <1>8

\* The entry of a mapping that was removed is cleared, or the update fails.
LEMMA ClearFreedTypes ==
  ASSUME Typed, NEW o \in Bo, ClearFreed(o)
  PROVE  Typed'
<1>1. /\ cs.step = "freed" /\ freed' = [freed EXCEPT ![cs.vm] = freed[cs.vm] \ {o}]
      /\ \/ Update(cs.vm, o, Users(cs.vm), 0) /\ UNCHANGED <<cs, fails>>
         \/ fails < MaxFail /\ fails' = fails + 1 /\ cs' = Idle /\ UNCHANGED rings
      /\ UNCHANGED <<gpu, ids, active, mapped, status, last_pt_update, addr, pdfence, places, jobs,
                     changes>>
  BY DEF ClearFreed
<1>2. cs.vm \in Vm
  BY <1>1, Going
<1>3. StepTypes'
  BY <1>1, GiveUp, StepTypesStay DEF bounds
<1>4. RingTypes' /\ WritesAreBounded' /\ Grows
  <2>1. CASE Update(cs.vm, o, Users(cs.vm), 0)
    <3>1. 0 \in Nat /\ 0 <= place[o]
      BY DEF Typed, Shapes, MapShape
    <3>. QED
      BY <1>1, <1>2, <2>1, <3>1, UpdateTypes
  <2>2. CASE UNCHANGED rings
    BY <1>1, <2>2, RingTypesStay DEF gpu, rings, places
  <2>. QED
    BY <1>1, <2>1, <2>2
<1>5. MapShape /\ TablesCount
  BY TypeParts DEF MapTypes
<1>6. MapTypes'
  <2>1. freed' \in [Vm -> SUBSET Bo]
    BY <1>1, <1>2, <1>5 DEF MapShape
  <2>2. MapShape'
    BY <1>1, <1>5, <2>1 DEF MapShape, gpu, places
  <2>. QED
    BY <1>1, <1>4, <2>2, TablesStay DEF MapTypes, gpu, places
<1>7. IdTypes'
  BY <1>1, <1>4, <1>5, IdTypesStay DEF gpu, places, MapShape
<1>. QED
  BY <1>3, <1>4, <1>6, <1>7, TypePartsNext

\* An update of a mapping that is noted, given up or not needed.
LEMMA MappingTypes ==
  ASSUME Typed, NEW v \in Vm, NEW o \in Bo, NEW to \in Nat, to <= place[o], NEW want,
         NEW s \in {"cleared", "done"}, status' = [status EXCEPT ![v][o] = s],
         UNCHANGED <<gpu, ids, active, mapped, freed, addr, pdfence, places, jobs, changes>>,
         \/ UNCHANGED <<rings, last_pt_update>>
         \/ /\ Update(v, o, want, to)
            /\ last_pt_update' = [last_pt_update EXCEPT ![v][o] = emitted[Dma] + 1],
         StepTypes'
  PROVE  Typed'
<1>1. MapShape /\ TablesCount /\ emitted[Dma] \in Nat
  BY TypeParts, QueueTypes DEF MapTypes, Ring
<1>2. status' \in [Vm -> [Bo -> {"cleared", "done", "invalid"}]]
  BY <1>1 DEF MapShape
<1>3. CASE UNCHANGED <<rings, last_pt_update>>
  <2>1. RingTypes' /\ WritesAreBounded' /\ Grows
    BY <1>3, RingTypesStay DEF gpu, rings, places
  <2>2. MapShape'
    BY <1>1, <1>2, <1>3 DEF MapShape, gpu, places
  <2>3. MapTypes'
    BY <1>3, <2>1, <2>2, TablesStay DEF MapTypes, gpu, places
  <2>4. IdTypes'
    BY <1>1, <2>1, IdTypesStay DEF gpu, places, MapShape
  <2>. QED
    BY <2>1, <2>3, <2>4, TypePartsNext
<1>4. CASE /\ Update(v, o, want, to)
           /\ last_pt_update' = [last_pt_update EXCEPT ![v][o] = emitted[Dma] + 1]
  <2>1. RingTypes' /\ WritesAreBounded' /\ Grows /\ emitted'[Dma] = emitted[Dma] + 1
    BY <1>4, UpdateTypes
  <2>2. last_pt_update' = [last_pt_update EXCEPT ![v][o] = emitted[Dma] + 1]
    BY <1>4
  <2>3. emitted[Dma] + 1 \in Nat /\ last_pt_update \in [Vm -> [Bo -> Nat]]
    BY <1>1 DEF MapShape
  <2>4. /\ last_pt_update' \in [Vm -> [Bo -> Nat]]
        /\ \A w \in Vm, x \in Bo :
             last_pt_update'[w][x] \in {last_pt_update[w][x], emitted[Dma] + 1}
    BY <2>2, <2>3
  <2>5. MapShape'
    BY <1>1, <1>2, <2>4 DEF MapShape, gpu, places
  <2>6. \A k \in 0 .. emitted[Dma] : k \in 0 .. emitted'[Dma]
    BY <1>1, <2>1
  <2>7. emitted[Dma] + 1 \in 0 .. emitted'[Dma]
    BY <1>1, <2>1
  <2>8. \A w \in Vm, x \in Bo : last_pt_update'[w][x] \in 0 .. emitted'[Dma]
    BY <1>1, <2>4, <2>6, <2>7 DEF TablesCount
  <2>9. MapTypes'
    BY <1>1, <2>5, <2>6, <2>8 DEF MapTypes, TablesCount, gpu, places
  <2>10. IdTypes'
    BY <1>1, <2>1, IdTypesStay DEF gpu, places, MapShape
  <2>. QED
    BY <2>1, <2>9, <2>10, TypePartsNext
<1>. QED
  BY <1>3, <1>4

\* The entry of a buffer is written with where it is, or the update fails.
LEMMA BoUpdateTypes ==
  ASSUME Typed, NEW o \in Bo, BoUpdate(o)
  PROVE  Typed'
<1>1. /\ cs.step = "update" /\ o \in cs.todo
      /\ status' = [status EXCEPT ![cs.vm][o] = "done"]
      /\ UNCHANGED <<gpu, ids, active, mapped, freed, addr, pdfence, places, jobs, changes>>
      /\ \/ UNCHANGED <<rings, last_pt_update>>
         \/ /\ Update(cs.vm, o, 0, place[o])
            /\ last_pt_update' = [last_pt_update EXCEPT ![cs.vm][o] = emitted[Dma] + 1]
      /\ \/ cs' = [cs EXCEPT !.todo = cs.todo \ {o}] /\ UNCHANGED fails
         \/ fails < MaxFail /\ fails' = fails + 1 /\ cs' = Idle
  BY DEF BoUpdate
<1>2. cs.vm \in Vm /\ cs \in Submission
  BY <1>1, Going
<1>3. StepTypes'
  <2>1. StepShape /\ StepsCount
    BY TypeParts DEF StepTypes
  <2>2. CASE cs' = [cs EXCEPT !.todo = cs.todo \ {o}] /\ UNCHANGED fails
    <3>1. cs' \in Submission /\ cs'.step = cs.step /\ cs'.ring = cs.ring
      BY <1>2, <2>2 DEF Submission
    <3>. QED
      BY <1>1, <2>1, <2>2, <3>1 DEF StepTypes, StepShape, StepsCount
  <2>. QED
    BY <1>1, <2>2, GiveUp
<1>4. place[o] \in Nat /\ place[o] <= place[o]
  BY DEF Typed, Shapes, MapShape
<1>. QED
  BY <1>1, <1>2, <1>3, <1>4, MappingTypes

\* An invalidated mapping is written, or the update fails.
LEMMA ClearInvalidTypes ==
  ASSUME Typed, NEW o \in Bo, ClearInvalid(o)
  PROVE  Typed'
<1>1. /\ cs.step = "invalids" /\ status' = [status EXCEPT ![cs.vm][o] = "cleared"]
      /\ UNCHANGED <<gpu, ids, active, mapped, freed, addr, pdfence, places, jobs, changes>>
      /\ \/ /\ Update(cs.vm, o, Users(cs.vm), 0)
            /\ last_pt_update' = [last_pt_update EXCEPT ![cs.vm][o] = emitted[Dma] + 1]
            /\ UNCHANGED <<cs, fails>>
         \/ /\ fails < MaxFail /\ fails' = fails + 1 /\ cs' = Idle
            /\ UNCHANGED <<rings, last_pt_update>>
  BY DEF ClearInvalid
<1>2. cs.vm \in Vm
  BY <1>1, Going
<1>3. StepTypes'
  BY <1>1, GiveUp, StepTypesStay DEF bounds
<1>4. 0 \in Nat /\ 0 <= place[o]
  BY DEF Typed, Shapes, MapShape
<1>. QED
  BY <1>1, <1>2, <1>3, <1>4, MappingTypes

\* What the address space notes of a flush.
LEMMA FlushedTypes ==
  ASSUME Typed, cs.step = "schedule", NEW v \in Vm, NEW r \in Ring, NEW use \in Nat
  PROVE  /\ Flushed(v, r, use) \in [Vm -> [Ring -> [id : Nat, use : Nat, pd : Nat, flushed : Nat]]]
         /\ \A w \in Vm, s \in Ring : w # v \/ s # r => Flushed(v, r, use)[w][s] = ids[w][s]
         /\ Flushed(v, r, use)[v][r].id = GrabId(v, r) /\ Flushed(v, r, use)[v][r].use = use
         /\ Flushed(v, r, use)[v][r].pd = pd[v]
         /\ Flushed(v, r, use)[v][r].flushed =
              IF NeedsFlush(v, r) THEN Updates ELSE ids[v][r].flushed
         /\ Flushed(v, r, use)[v][r].flushed \in 0 .. emitted[Dma]
<1>1. /\ ids \in [Vm -> [Ring -> [id : Nat, use : Nat, pd : Nat, flushed : Nat]]]
      /\ pd[v] \in Nat /\ ids[v][r].flushed \in 0 .. emitted[Dma]
  BY DEF Typed, TypeOK, Shapes, IdShape, MapShape
<1>2. GrabId(v, r) \in Nat /\ Updates \in 0 .. emitted[Dma]
  BY GrabIdTypes, UpdatesAre DEF Id
<1>3. PICK k \in 0 .. emitted[Dma] : k = IF NeedsFlush(v, r) THEN Updates ELSE ids[v][r].flushed
  BY <1>1, <1>2
<1>4. PICK x : x = [id |-> GrabId(v, r), use |-> use, pd |-> pd[v], flushed |-> k]
  OBVIOUS
<1>5. x \in [id : Nat, use : Nat, pd : Nat, flushed : Nat]
  BY <1>1, <1>2, <1>4
<1>6. Flushed(v, r, use) = [ids EXCEPT ![v][r] = x]
  BY <1>3, <1>4 DEF Flushed
<1>7. /\ Flushed(v, r, use) \in [Vm -> [Ring -> [id : Nat, use : Nat, pd : Nat, flushed : Nat]]]
      /\ \A w \in Vm, s \in Ring : w # v \/ s # r => Flushed(v, r, use)[w][s] = ids[w][s]
      /\ Flushed(v, r, use)[v][r] = x
  BY <1>1, <1>5, <1>6
<1>. QED
  BY <1>3, <1>4, <1>7

\* A job takes an id, is emitted, and is noted for its address space.
LEMMA ScheduleTypes ==
  ASSUME Typed, Schedule
  PROVE  Typed'
<1>1. PICK v, r : v = cs.vm /\ r = cs.ring
  OBVIOUS
<1>2. PICK use : use = emitted[r] + 1
  OBVIOUS
<1>3. PICK i : i = GrabId(v, r)
  OBVIOUS
<1>4. PICK c : c = [op |-> "job", vm |-> v, id |-> i, flush |-> NeedsFlush(v, r), pd |-> pd[v],
                    at |-> [o \in Bo |-> IF o \in cs.use THEN place[o] ELSE 0]]
  OBVIOUS
<1>5. /\ cs.step = "schedule" /\ Emit(r, Want(r), c) /\ ids' = Flushed(v, r, use)
      /\ active' = [active EXCEPT ![i] = [ring |-> r, seq |-> use]]
      /\ \E f \in Kept : pdfence' = [pdfence EXCEPT ![v] = f]
      /\ cs' = Idle /\ jobs' = jobs + 1
      /\ UNCHANGED <<gpu, maps, addr, places, changes, fails>>
  BY <1>1, <1>2, <1>3, <1>4 DEF Schedule
<1>6. /\ v \in Vm /\ r \in Ring /\ i \in Id /\ use \in Nat /\ use = emitted[r] + 1
      /\ emitted[r] \in Nat /\ emitted[Dma] \in Nat
  <2>1. v \in Vm /\ r \in Ring
    BY <1>1, <1>5, Going DEF Typed, Shapes, StepShape
  <2>. QED
    BY <1>2, <1>3, <2>1, GrabIdTypes, QueueTypes DEF Ring
<1>7. MapShape /\ TablesCount /\ IdShape /\ IdsCount
  BY TypeParts DEF MapTypes, IdTypes
<1>8. c \in RunsJob
  <2>1. NeedsFlush(v, r) \in BOOLEAN
    BY DEF NeedsFlush
  <2>2. [o \in Bo |-> IF o \in cs.use THEN place[o] ELSE 0] \in [Bo -> Nat]
    BY <1>7 DEF MapShape
  <2>3. pd[v] \in Nat
    BY <1>6, <1>7 DEF MapShape
  <2>. QED
    BY <1>4, <1>6, <2>1, <2>2, <2>3 DEF RunsJob
<1>9. /\ RingTypes' /\ WritesAreBounded' /\ Grows /\ emitted'[r] = emitted[r] + 1
  <2>1. c \in Cmd /\ c.op = "job"
    BY <1>8 DEF Cmd, RunsJob
  <2>2. UNCHANGED <<running, done, pt, place>>
    BY <1>5 DEF gpu, places
  <2>3. /\ RingTypes' /\ emitted'[r] = emitted[r] + 1 /\ emitted'[Other(r)] = emitted[Other(r)]
        /\ WritesAreBounded'
    BY <1>5, <1>6, <1>8, <2>1, <2>2, EmitTypes
  <2>. QED
    BY <1>6, <2>3, Growing
<1>10. \A s \in Ring : emitted[s] \in Nat /\ \A k \in 0 .. emitted[s] : k \in 0 .. emitted'[s]
  <2>1. \A s \in Ring : emitted[s] \in Nat /\ emitted'[s] \in Nat /\ emitted[s] <= emitted'[s]
    BY <1>9, QueueTypes DEF Grows
  <2>. QED
    BY <2>1
<1>11. MapTypes'
  <2>1. PICK f \in 0 .. emitted[Dma] : pdfence' = [pdfence EXCEPT ![v] = f]
    <3>1. pdfence[v] \in 0 .. emitted[Dma] /\ 0 \in 0 .. emitted[Dma]
      BY <1>6, <1>7 DEF TablesCount
    <3>2. \A f \in Kept : f \in 0 .. emitted[Dma]
      BY <1>1, <3>1 DEF Kept
    <3>. QED
      BY <1>5, <3>2
  <2>2. /\ pdfence' \in [Vm -> Nat]
        /\ \A w \in Vm : pdfence'[w] \in 0 .. emitted[Dma]
    <3>1. pdfence \in [Vm -> Nat] /\ f \in Nat
      BY <1>7, <2>1 DEF MapShape
    <3>. QED
      BY <1>7, <2>1, <3>1 DEF TablesCount
  <2>3. MapShape'
    BY <1>5, <1>7, <2>2 DEF MapShape, gpu, maps, places
  <2>4. \A k \in 0 .. emitted[Dma] : k \in 0 .. emitted'[Dma]
    BY <1>10 DEF Ring
  <2>. QED
    BY <1>5, <1>7, <2>2, <2>3, <2>4 DEF MapTypes, TablesCount, gpu, maps, places
<1>12. IdTypes'
  <2>1. /\ ids' \in [Vm -> [Ring -> [id : Nat, use : Nat, pd : Nat, flushed : Nat]]]
        /\ \A w \in Vm, s \in Ring : w # v \/ s # r => ids'[w][s] = ids[w][s]
        /\ ids'[v][r].id = i /\ ids'[v][r].use = use /\ ids'[v][r].pd = pd[v]
        /\ ids'[v][r].flushed \in 0 .. emitted[Dma]
    <3>1. cs.step = "schedule" /\ ids' = Flushed(v, r, use) /\ i = GrabId(v, r)
      BY <1>3, <1>5
    <3>2. v \in Vm /\ r \in Ring /\ use \in Nat /\ cs.step = "schedule"
      BY <1>5, <1>6
    <3>3. Flushed(v, r, use) \in [Vm -> [Ring -> [id : Nat, use : Nat, pd : Nat, flushed : Nat]]]
      BY <3>2, FlushedTypes
    <3>4. \A w \in Vm, s \in Ring : w # v \/ s # r => Flushed(v, r, use)[w][s] = ids[w][s]
      BY <3>2, FlushedTypes
    <3>5. Flushed(v, r, use)[v][r].id = GrabId(v, r) /\ Flushed(v, r, use)[v][r].use = use
      BY <3>2, FlushedTypes
    <3>6. Flushed(v, r, use)[v][r].pd = pd[v]
      BY <3>2, FlushedTypes
    <3>7. Flushed(v, r, use)[v][r].flushed \in 0 .. emitted[Dma]
      BY <3>2, FlushedTypes
    <3>. QED
      BY <3>1, <3>3, <3>4, <3>5, <3>6, <3>7
  <2>2. active' \in [Id -> [ring : Ring, seq : Nat]] /\ active'[i] = [ring |-> r, seq |-> use]
        /\ \A j \in Id : j # i => active'[j] = active[j]
    BY <1>5, <1>6, <1>7 DEF IdShape
  <2>3. IdShape'
    BY <1>5, <1>7, <2>1, <2>2 DEF IdShape, gpu
  <2>4. Dma \in Ring /\ pd' = pd /\ \A w \in Vm : pd[w] \in Nat
    BY <1>5, <1>7 DEF Ring, places, MapShape
  <2>5. ASSUME NEW w \in Vm, NEW s \in Ring
        PROVE  ids'[w][s].id \in 0 .. Nvm /\ ids'[w][s].use \in 0 .. emitted'[s]
                 /\ ids'[w][s].pd \in 0 .. pd'[w] /\ ids'[w][s].flushed \in 0 .. emitted'[Dma]
    <3>1. CASE w = v /\ s = r
      <4>1. i \in 0 .. Nvm
        BY <1>6 DEF Id
      <4>2. use \in 0 .. emitted'[r]
        BY <1>6, <1>9
      <4>3. pd[v] \in 0 .. pd[v]
        BY <1>6, <2>4
      <4>4. ids'[v][r].flushed \in 0 .. emitted'[Dma]
        BY <1>10, <2>1, <2>4
      <4>. QED
        BY <2>1, <2>4, <3>1, <4>1, <4>2, <4>3, <4>4
    <3>2. CASE w # v \/ s # r
      BY <1>7, <1>10, <2>1, <2>4, <3>2 DEF IdsCount
    <3>. QED
      BY <3>1, <3>2
  <2>6. ASSUME NEW j \in Id PROVE active'[j].seq \in 0 .. emitted'[active'[j].ring]
    <3>1. CASE j = i
      BY <1>6, <1>9, <2>2, <3>1
    <3>2. CASE j # i
      BY <1>7, <1>10, <2>2, <3>2 DEF IdsCount, IdShape
    <3>. QED
      BY <3>1, <3>2
  <2>. QED
    BY <2>3, <2>5, <2>6 DEF IdTypes, IdsCount
<1>13. StepTypes'
  <2>1. StepShape /\ StepsCount /\ MaxJobs \in Nat
    BY TypeParts, VmAssumption DEF StepTypes
  <2>2. cs.ring # "none"
    BY <1>1, <1>6 DEF Ring, Dma
  <2>3. jobs < MaxJobs
    BY <1>5, <2>1, <2>2 DEF StepShape
  <2>4. jobs' \in 0 .. MaxJobs
    BY <1>5, <2>1, <2>3 DEF StepsCount
  <2>. QED
    BY <1>5, <2>1, <2>4 DEF StepTypes, StepShape, StepsCount, Idle
<1>. QED
  BY <1>9, <1>11, <1>12, <1>13, TypePartsNext

\* The two failures of a job are counted.
LEMMA ScheduleUnsyncedTypes ==
  ASSUME Typed, ScheduleUnsynced
  PROVE  Typed' /\ fails' # 0
<1>1. PICK v, r : v = cs.vm /\ r = cs.ring
  OBVIOUS
<1>2. /\ cs.step = "schedule" /\ fails < MaxFail /\ fails' = fails + 1 /\ cs' = Idle
      /\ \/ UNCHANGED ids
         \/ ids' = [ids EXCEPT ![v][r].id = GrabId(v, r), ![v][r].pd = 0]
      /\ UNCHANGED <<gpu, rings, active, maps, addr, pdfence, places, jobs, changes>>
  BY <1>1 DEF ScheduleUnsynced
<1>3. v \in Vm /\ r \in Ring /\ GrabId(v, r) \in Id
  <2>1. v \in Vm /\ r \in Ring
    BY <1>1, <1>2, Going DEF Typed, Shapes, StepShape
  <2>. QED
    BY <2>1, GrabIdTypes
<1>4. StepTypes' /\ fails' # 0
  BY <1>2, GiveUp
<1>5. RingTypes' /\ WritesAreBounded' /\ Grows
  BY <1>2, RingTypesStay DEF gpu, rings, places
<1>6. MapTypes' /\ \A w \in Vm : pd'[w] \in Nat /\ pd[w] <= pd'[w]
  BY <1>2, <1>5, MapTypesStay DEF maps, gpu, places
<1>7. IdTypes'
  <2>1. CASE UNCHANGED ids
    BY <1>2, <1>5, <1>6, <2>1, IdTypesStay DEF gpu
  <2>2. CASE ids' = [ids EXCEPT ![v][r].id = GrabId(v, r), ![v][r].pd = 0]
    <3>1. IdShape /\ IdsCount /\ pd' = pd /\ \A w \in Vm : pd[w] \in Nat
      BY <1>2, TypeParts DEF IdTypes, MapTypes, MapShape, places
    <3>2. GrabId(v, r) \in Nat /\ GrabId(v, r) \in 0 .. Nvm
      BY <1>3 DEF Id
    <3>3. PICK x : x = [ids[v][r] EXCEPT !.id = GrabId(v, r), !.pd = 0]
      OBVIOUS
    <3>4. ids[v][r] \in [id : Nat, use : Nat, pd : Nat, flushed : Nat]
      BY <1>3, <3>1 DEF IdShape
    <3>5. /\ x \in [id : Nat, use : Nat, pd : Nat, flushed : Nat]
          /\ x.id = GrabId(v, r) /\ x.pd = 0
          /\ x.use = ids[v][r].use /\ x.flushed = ids[v][r].flushed
      BY <3>2, <3>3, <3>4
    <3>6. ids' = [ids EXCEPT ![v][r] = x]
      BY <1>3, <2>2, <3>1, <3>3 DEF IdShape
    <3>7. /\ ids' \in [Vm -> [Ring -> [id : Nat, use : Nat, pd : Nat, flushed : Nat]]]
          /\ ids'[v][r] = x
          /\ \A w \in Vm, s \in Ring : w # v \/ s # r => ids'[w][s] = ids[w][s]
      BY <1>3, <3>1, <3>5, <3>6 DEF IdShape
    <3>8. IdShape'
      BY <1>2, <3>1, <3>7 DEF IdShape, gpu
    <3>9. emitted' = emitted /\ active' = active
      BY <1>2 DEF rings
    <3>10. ASSUME NEW w \in Vm, NEW s \in Ring
           PROVE  ids'[w][s].id \in 0 .. Nvm /\ ids'[w][s].use \in 0 .. emitted'[s]
                    /\ ids'[w][s].pd \in 0 .. pd'[w] /\ ids'[w][s].flushed \in 0 .. emitted'[Dma]
      <4>1. /\ ids[w][s].id \in 0 .. Nvm /\ ids[w][s].use \in 0 .. emitted[s]
            /\ ids[w][s].pd \in 0 .. pd[w] /\ ids[w][s].flushed \in 0 .. emitted[Dma]
        BY <3>1 DEF IdsCount
      <4>2. 0 \in 0 .. pd[w]
        BY <3>1
      <4>. QED
        BY <3>1, <3>2, <3>5, <3>7, <3>9, <4>1, <4>2
    <3>. QED
      BY <3>1, <3>8, <3>9, <3>10 DEF IdTypes, IdsCount
  <2>. QED
    BY <1>2, <2>1, <2>2
<1>. QED
  BY <1>4, <1>5, <1>6, <1>7, TypePartsNext

\* The second, which leaves what the first did not.
LEMMA ScheduleUnfencedTypes ==
  ASSUME Typed, ScheduleUnfenced
  PROVE  Typed' /\ fails' # 0
<1>1. PICK v, r, use : v = cs.vm /\ r = cs.ring /\ use = ids[v][r].use
  OBVIOUS
<1>2. /\ cs.step = "schedule" /\ fails < MaxFail /\ fails' = fails + 1 /\ cs' = Idle
      /\ ids' = Flushed(v, r, use) /\ Note(r, Want(r))
      /\ UNCHANGED <<gpu, queue, emitted, active, maps, addr, pdfence, places, jobs, changes>>
  BY <1>1 DEF ScheduleUnfenced
<1>3. v \in Vm /\ r \in Ring /\ GrabId(v, r) \in Id
  <2>1. v \in Vm /\ r \in Ring
    BY <1>1, <1>2, Going DEF Typed, Shapes, StepShape
  <2>. QED
    BY <2>1, GrabIdTypes
<1>4. StepTypes' /\ fails' # 0
  BY <1>2, GiveUp
<1>5. Grows /\ Dma \in Ring
  BY <1>2, Growing DEF Ring
<1>6. RingTypes' /\ WritesAreBounded'
  <2>1. /\ known' = [known EXCEPT ![r] = Larger(known[r], Await(r, Want(r)))]
        /\ UNCHANGED <<queue, running, emitted, done, pt, place>>
    BY <1>2 DEF Note, gpu, places
  <2>2. Await(r, Want(r)) \in 0 .. emitted[Other(r)] /\ emitted[Other(r)] \in Nat
    BY <1>3, AwaitTypes, QueueTypes, Others
  <2>3. RingsCount /\ QueueShape /\ WritesAreBounded
    BY TypeParts DEF RingTypes
  <2>4. known[r] \in 0 .. emitted[Other(r)]
    BY <1>3, <2>3 DEF RingsCount
  <2>5. Larger(known[r], Await(r, Want(r))) \in 0 .. emitted[Other(r)]
    BY <2>2, <2>4 DEF Larger
  <2>6. /\ known' \in [Ring -> Nat]
        /\ \A s \in Ring : known'[s] \in 0 .. emitted[Other(s)]
    <3>1. known \in [Ring -> Nat] /\ Larger(known[r], Await(r, Want(r))) \in Nat
      BY <2>2, <2>3, <2>5 DEF QueueShape
    <3>. QED
      BY <1>3, <2>1, <2>3, <2>5, <3>1 DEF RingsCount
  <2>7. QueueShape'
    BY <2>1, <2>3, <2>6 DEF QueueShape
  <2>8. RingsCount'
    BY <2>1, <2>3, <2>6 DEF RingsCount
  <2>9. WritesAreBounded'
    BY <2>1, <2>3 DEF WritesAreBounded
  <2>. QED
    BY <2>7, <2>8, <2>9 DEF RingTypes
<1>7. MapTypes' /\ \A w \in Vm : pd'[w] \in Nat /\ pd[w] <= pd'[w]
  BY <1>2, <1>5, MapTypesStay DEF maps, gpu, places
<1>8. IdTypes'
  <2>1. IdShape /\ IdsCount /\ pd' = pd /\ \A w \in Vm : pd[w] \in Nat
    BY <1>2, TypeParts DEF IdTypes, MapTypes, MapShape, places
  <2>2. use \in 0 .. emitted[r] /\ use \in Nat
    BY <1>1, <1>3, <2>1 DEF IdsCount, IdShape
  <2>3. cs.step = "schedule" /\ use \in Nat
    BY <1>2, <2>2
  <2>4. Flushed(v, r, use) \in [Vm -> [Ring -> [id : Nat, use : Nat, pd : Nat, flushed : Nat]]]
    BY <1>3, <2>3, FlushedTypes
  <2>5. \A w \in Vm, s \in Ring : w # v \/ s # r => Flushed(v, r, use)[w][s] = ids[w][s]
    BY <1>3, <2>3, FlushedTypes
  <2>6. Flushed(v, r, use)[v][r].id = GrabId(v, r) /\ Flushed(v, r, use)[v][r].use = use
    BY <1>3, <2>3, FlushedTypes
  <2>7. Flushed(v, r, use)[v][r].pd = pd[v]
    BY <1>3, <2>3, FlushedTypes
  <2>8. Flushed(v, r, use)[v][r].flushed \in 0 .. emitted[Dma]
    BY <1>3, <2>3, FlushedTypes
  <2>9. /\ ids' \in [Vm -> [Ring -> [id : Nat, use : Nat, pd : Nat, flushed : Nat]]]
        /\ \A w \in Vm, s \in Ring : w # v \/ s # r => ids'[w][s] = ids[w][s]
        /\ ids'[v][r].id \in 0 .. Nvm /\ ids'[v][r].use = use
        /\ ids'[v][r].pd = pd[v] /\ ids'[v][r].flushed \in 0 .. emitted[Dma]
    <3>1. GrabId(v, r) \in 0 .. Nvm
      BY <1>3 DEF Id
    <3>. QED
      BY <1>2, <2>4, <2>5, <2>6, <2>7, <2>8, <3>1
  <2>10. IdShape'
    BY <1>2, <2>1, <2>9 DEF IdShape, gpu
  <2>11. ASSUME NEW w \in Vm, NEW s \in Ring
        PROVE  ids'[w][s].id \in 0 .. Nvm /\ ids'[w][s].use \in 0 .. emitted'[s]
                 /\ ids'[w][s].pd \in 0 .. pd'[w] /\ ids'[w][s].flushed \in 0 .. emitted'[Dma]
    <3>1. pd[w] \in 0 .. pd[w]
      BY <2>1
    <3>. QED
      BY <1>2, <2>1, <2>2, <2>9, <3>1 DEF IdsCount
  <2>. QED
    BY <1>2, <2>1, <2>10, <2>11 DEF IdTypes, IdsCount
<1>. QED
  BY <1>4, <1>6, <1>7, <1>8, TypePartsNext

\* A change is counted.
LEMMA ChangeTypes ==
  ASSUME Typed, Change
  PROVE  changes' \in 0 .. MaxChange
BY VmAssumption DEF Typed, TypeOK, Change

\* A mapping is added or removed.
LEMMA RemapTypes ==
  ASSUME Typed, cs = Idle, Change, NEW v \in Vm, NEW todo \in SUBSET Bo,
         cs' \in {Idle, UpdateOf(v, todo)},
         mapped' \in [Vm -> [Bo -> BOOLEAN]],
         status' \in [Vm -> [Bo -> {"cleared", "done", "invalid"}]],
         freed' \in [Vm -> SUBSET Bo],
         UNCHANGED <<gpu, rings, ids, active, last_pt_update, addr, pdfence, places, jobs, fails>>
  PROVE  Typed'
<1>1. RingTypes' /\ WritesAreBounded' /\ Grows
  BY RingTypesStay DEF gpu, rings, places
<1>2. MapShape /\ TablesCount /\ StepShape /\ StepsCount
  BY TypeParts DEF MapTypes, StepTypes
<1>3. MapTypes'
  <2>1. MapShape'
    BY <1>2 DEF MapShape, gpu, places
  <2>. QED
    BY <1>1, <2>1, TablesStay DEF MapTypes, gpu, places
<1>4. IdTypes'
  BY <1>1, <1>2, IdTypesStay DEF gpu, places, MapShape
<1>5. StepTypes'
  <2>1. UpdateOf(v, todo) \in Submission /\ UpdateOf(v, todo).step = "freed"
        /\ UpdateOf(v, todo).ring = "none"
    BY DEF UpdateOf, Submission
  <2>2. StepShape'
    <3>1. CASE cs' = Idle
      BY <3>1 DEF StepShape, Idle
    <3>2. CASE cs' = UpdateOf(v, todo)
      BY <2>1, <3>2 DEF StepShape
    <3>. QED
      BY <3>1, <3>2
  <2>. QED
    BY <1>2, <2>2, ChangeTypes DEF StepTypes, StepsCount
<1>. QED
  BY <1>1, <1>3, <1>4, <1>5, TypePartsNext

\* A mapping is added or removed, and leaves an update or nothing.
LEMMA MapUnmapTypes ==
  ASSUME Typed, NEW v \in Vm, NEW o \in Bo, Map(v, o) \/ Unmap(v, o)
  PROVE  Typed'
<1>1. MapShape
  BY TypeParts DEF MapTypes
<1>2. CASE Map(v, o)
  <2>1. /\ mapped' \in [Vm -> [Bo -> BOOLEAN]] /\ freed' \in [Vm -> SUBSET Bo]
        /\ status' \in [Vm -> [Bo -> {"cleared", "done", "invalid"}]]
    BY <1>1, <1>2 DEF Map, MapShape
  <2>2. {o} \in SUBSET Bo
    OBVIOUS
  <2>. QED
    BY <1>2, <2>1, <2>2, RemapTypes DEF Map
<1>3. CASE Unmap(v, o)
  <2>1. /\ mapped' \in [Vm -> [Bo -> BOOLEAN]] /\ freed' \in [Vm -> SUBSET Bo]
        /\ status' \in [Vm -> [Bo -> {"cleared", "done", "invalid"}]]
    BY <1>1, <1>3 DEF Unmap, MapShape
  <2>2. {} \in SUBSET Bo
    OBVIOUS
  <2>. QED
    BY <1>3, <2>1, <2>2, RemapTypes DEF Unmap
<1>. QED
  BY <1>2, <1>3

\* What is moved is where it has not been.
LEMMA PlaceTypes ==
  ASSUME Typed, UNCHANGED <<gpu, rings, ids, active, mapped, freed, last_pt_update, addr, pdfence,
                            cs, jobs, fails>>,
         Change,
         status' \in [Vm -> [Bo -> {"cleared", "done", "invalid"}]],
         place' \in [Bo -> Nat \ {0}], pt' \in [Vm -> Nat \ {0}], pd' \in [Vm -> Nat \ {0}],
         \A o \in Bo : place[o] <= place'[o],
         \A v \in Vm : pt[v] <= pt'[v] /\ pd[v] <= pd'[v]
  PROVE  Typed'
<1>1. MapShape /\ TablesCount /\ StepShape /\ StepsCount
  BY TypeParts DEF MapTypes, StepTypes
<1>2. /\ UNCHANGED <<queue, running, emitted, done, known, base, tlb, pde, pte>>
      /\ \A v \in Vm : pd[v] \in Nat /\ pt[v] \in Nat /\ pd'[v] \in Nat /\ pt'[v] \in Nat
      /\ \A o \in Bo : place[o] \in Nat /\ place'[o] \in Nat
  BY <1>1 DEF gpu, rings, MapShape
<1>3. RingTypes'
  BY <1>2, TypeParts DEF RingTypes, QueueShape, RingsCount
<1>4. WritesAreBounded'
  <2>1. WritesAreBounded /\ Dma \in Ring
    BY TypeParts DEF Ring
  <2>2. ASSUME NEW i \in 1 .. Len(queue[Dma])
        PROVE  LET c == queue[Dma][i].cmd
               IN /\ c.op = "pde" => c.to <= pt'[c.vm]
                  /\ c.op = "pte" => c.to <= place'[c.bo]
    <3>1. PICK c : c = queue[Dma][i].cmd
      OBVIOUS
    <3>2. queue[Dma] \in Seq(Queued)
      BY <2>1, QueueTypes
    <3>3. c \in Cmd
      <4>1. queue[Dma][i] \in Queued
        BY <2>2, <3>2
      <4>. QED
        BY <3>1, <4>1 DEF Queued
    <3>4. (c.op = "pde" => c.to <= pt[c.vm]) /\ (c.op = "pte" => c.to <= place[c.bo])
      BY <2>1, <2>2, <3>1 DEF WritesAreBounded
    <3>5. c.op = "pde" => c.vm \in Vm /\ c.to \in Nat
      BY <3>3 DEF Cmd, WritesDirectory, WritesEntry, RunsJob
    <3>6. c.op = "pte" => c.bo \in Bo /\ c.to \in Nat
      BY <3>3 DEF Cmd, WritesDirectory, WritesEntry, RunsJob
    <3>. QED
      BY <1>2, <3>1, <3>4, <3>5, <3>6
  <2>. QED
    BY <1>2, <2>2 DEF WritesAreBounded
<1>5. Grows
  BY <1>2, Growing
<1>6. MapTypes'
  <2>1. MapShape'
    BY <1>1, <1>2 DEF MapShape
  <2>2. ASSUME NEW v \in Vm
        PROVE  /\ addr'[v] \in 0 .. pt'[v] /\ pde'[v] \in 0 .. pt'[v]
               /\ pdfence'[v] \in 0 .. emitted'[Dma]
    <3>1. addr[v] \in 0 .. pt[v] /\ pde[v] \in 0 .. pt[v] /\ pdfence[v] \in 0 .. emitted[Dma]
      BY <1>1 DEF TablesCount
    <3>. QED
      BY <1>2, <3>1
  <2>3. ASSUME NEW v \in Vm, NEW o \in Bo
        PROVE  pte'[v][o] \in 0 .. place'[o] /\ last_pt_update'[v][o] \in 0 .. emitted'[Dma]
    <3>1. pte[v][o] \in 0 .. place[o] /\ last_pt_update[v][o] \in 0 .. emitted[Dma]
      BY <1>1 DEF TablesCount
    <3>. QED
      BY <1>2, <3>1
  <2>. QED
    BY <2>1, <2>2, <2>3 DEF MapTypes, TablesCount
<1>7. IdTypes'
  BY <1>2, <1>5, IdTypesStay
<1>8. StepTypes'
  BY <1>1, ChangeTypes DEF StepTypes, StepShape, StepsCount
<1>. QED
  BY <1>3, <1>4, <1>6, <1>7, <1>8, TypePartsNext

\* A buffer moves to a place nothing has had,
LEMMA MoveTypes ==
  ASSUME Typed, NEW o \in Bo, Move(o)
  PROVE  Typed'
<1>1. MapShape
  BY TypeParts DEF MapTypes
<1>2. place' \in [Bo -> Nat \ {0}] /\ \A x \in Bo : place[x] <= place'[x]
  <2>1. place[o] + 1 \in Nat \ {0} /\ place[o] <= place[o] + 1 /\ \A x \in Bo : place[x] <= place[x]
    BY <1>1 DEF MapShape
  <2>2. place' = [place EXCEPT ![o] = place[o] + 1] /\ place \in [Bo -> Nat \ {0}]
    BY <1>1 DEF Move, MapShape
  <2>. QED
    BY <2>1, <2>2
<1>3. status' \in [Vm -> [Bo -> {"cleared", "done", "invalid"}]]
  BY <1>1 DEF Move, MapShape
<1>4. /\ pt' \in [Vm -> Nat \ {0}] /\ pd' \in [Vm -> Nat \ {0}]
      /\ \A v \in Vm : pt[v] <= pt'[v] /\ pd[v] <= pd'[v]
  BY <1>1 DEF Move, MapShape
<1>. QED
  BY <1>2, <1>3, <1>4, PlaceTypes DEF Move

\* and so do the table and the directory of an address space.
LEMMA MoveTablesTypes ==
  ASSUME Typed, NEW v \in Vm, MoveTables(v)
  PROVE  Typed'
<1>1. MapShape
  BY TypeParts DEF MapTypes
<1>2. /\ pt' \in [Vm -> Nat \ {0}] /\ pd' \in [Vm -> Nat \ {0}]
      /\ \A w \in Vm : pt[w] <= pt'[w] /\ pd[w] <= pd'[w]
  <2>1. /\ pt[v] + 1 \in Nat \ {0} /\ pt[v] <= pt[v] + 1 /\ pd[v] + 1 \in Nat \ {0}
        /\ pd[v] <= pd[v] + 1
        /\ pt \in [Vm -> Nat \ {0}] /\ pd \in [Vm -> Nat \ {0}]
        /\ \A w \in Vm : pt[w] <= pt[w] /\ pd[w] <= pd[w]
    BY <1>1 DEF MapShape
  <2>2. \/ pt' = [pt EXCEPT ![v] = pt[v] + 1] /\ UNCHANGED pd
        \/ pd' = [pd EXCEPT ![v] = pd[v] + 1] /\ UNCHANGED pt
    BY DEF MoveTables
  <2>. QED
    BY <2>1, <2>2
<1>3. /\ status' \in [Vm -> [Bo -> {"cleared", "done", "invalid"}]]
      /\ place' \in [Bo -> Nat \ {0}] /\ \A o \in Bo : place[o] <= place'[o]
  BY <1>1 DEF MoveTables, MapShape, maps
<1>. QED
  BY <1>2, <1>3, PlaceTypes DEF MoveTables, maps

\* The first state has the types,
LEMMA InitTypes == Init => Typed
<1>. SUFFICES ASSUME Init PROVE Typed
  OBVIOUS
<1>1. /\ queue = [r \in Ring |-> <<>>] /\ running = [r \in Ring |-> FALSE]
      /\ emitted = [r \in Ring |-> 0] /\ done = emitted /\ known = emitted
  BY DEF Init
<1>2. QueueShape /\ RingsCount /\ WritesAreBounded
  <2>1. \A r \in Ring : queue[r] = <<>> /\ Len(queue[r]) = 0 /\ emitted[r] = 0
    BY <1>1
  <2>2. queue \in [Ring -> Seq(Queued)]
    BY <1>1
  <2>3. QueueShape
    BY <1>1, <2>1, <2>2 DEF QueueShape, Ring
  <2>4. RingsCount
    BY <1>1, <2>1, Others DEF RingsCount
  <2>5. WritesAreBounded
    BY <2>1 DEF WritesAreBounded, Ring
  <2>. QED
    BY <2>3, <2>4, <2>5
<1>3. IdShape /\ IdsCount
  <2>1. /\ ids = [v \in Vm |-> [r \in Ring |-> [id |-> 0, use |-> 0, pd |-> 0, flushed |-> 0]]]
        /\ active = [i \in Id |-> NoFence] /\ pd = [v \in Vm |-> 1]
        /\ tlb = [i \in Id |-> Empty] /\ Dma \in Ring
        /\ base = [i \in Id |-> [vm |-> CHOOSE v \in Vm : TRUE, pd |-> 0]]
    BY DEF Init, Ring
  <2>2. (CHOOSE v \in Vm : TRUE) \in Vm
    BY VmAssumption
  <2>3. base \in [Id -> [vm : Vm, pd : Nat]]
    BY <2>1, <2>2
  <2>4. tlb \in [Id -> [table : Nat, page : [Bo -> Nat]]]
    BY <2>1 DEF Empty
  <2>5. active \in [Id -> [ring : Ring, seq : Nat]]
    BY <2>1 DEF NoFence
  <2>6. ids \in [Vm -> [Ring -> [id : Nat, use : Nat, pd : Nat, flushed : Nat]]]
    BY <2>1
  <2>7. IdShape
    BY <2>3, <2>4, <2>5, <2>6 DEF IdShape
  <2>8. IdsCount
    <3>1. Nvm \in Nat
      BY VmAssumption
    <3>2. \A i \in Id : active[i].seq = 0 /\ active[i].ring = Dma
      BY <2>1 DEF NoFence
    <3>3. emitted[Dma] = 0 /\ \A r \in Ring : emitted[r] = 0
      BY <1>1, <2>1
    <3>4. \A v \in Vm, r \in Ring :
            ids[v][r].id = 0 /\ ids[v][r].use = 0 /\ ids[v][r].pd = 0 /\ ids[v][r].flushed = 0
      BY <2>1
    <3>. QED
      BY <2>1, <3>1, <3>2, <3>3, <3>4 DEF IdsCount
  <2>. QED
    BY <2>7, <2>8
<1>4. MapShape /\ TablesCount
  <2>1. /\ mapped \in [Vm -> [Bo -> BOOLEAN]]
        /\ status = [v \in Vm |-> [o \in Bo |-> IF mapped[v][o] THEN "cleared" ELSE "done"]]
        /\ freed = [v \in Vm |-> {}] /\ last_pt_update = [v \in Vm |-> [o \in Bo |-> 0]]
        /\ addr = [v \in Vm |-> 0] /\ pdfence = [v \in Vm |-> 0]
        /\ place = [o \in Bo |-> 1] /\ pt = [v \in Vm |-> 1] /\ pd = [v \in Vm |-> 1]
        /\ pde = [v \in Vm |-> 0] /\ pte = [v \in Vm |-> [o \in Bo |-> 0]]
        /\ emitted[Dma] = 0
    BY DEF Init, Ring
  <2>2. status \in [Vm -> [Bo -> {"cleared", "done", "invalid"}]]
    BY <2>1
  <2>3. MapShape
    BY <2>1, <2>2 DEF MapShape
  <2>4. TablesCount
    BY <2>1 DEF TablesCount
  <2>. QED
    BY <2>3, <2>4
<1>5. StepShape /\ StepsCount
  BY VmAssumption DEF Init, StepShape, StepsCount, Idle
<1>. QED
  BY <1>2, <1>3, <1>4, <1>5, TypeParts DEF RingTypes, IdTypes, MapTypes, StepTypes

\* and every step keeps them.
LEMMA NextTypes == Typed /\ [Next]_vars => Typed'
<1>. SUFFICES ASSUME Typed, [Next]_vars PROVE Typed'
  OBVIOUS
<1>1. ASSUME NEW r \in Ring, Execute(r) PROVE Typed'
  BY <1>1, WriteTypes, StartTypes, FinishTypes DEF Execute
<1>2. ASSUME NEW v \in Vm, NEW r \in Ring, NEW use \in SUBSET Bo, Submit(v, r, use) PROVE Typed'
  BY <1>2, SubmitTypes
<1>3. CASE Step
  BY <1>3, UpdateDirectoryTypes, PassTypes, ScheduleTypes, ClearFreedTypes, BoUpdateTypes,
     ClearInvalidTypes DEF Step
<1>4. CASE ScheduleUnsynced \/ ScheduleUnfenced
  BY <1>4, ScheduleUnsyncedTypes, ScheduleUnfencedTypes
<1>5. ASSUME NEW v \in Vm, NEW o \in Bo, Map(v, o) \/ Unmap(v, o) PROVE Typed'
  BY <1>5, MapUnmapTypes
<1>6. ASSUME NEW o \in Bo, Move(o) PROVE Typed'
  BY <1>6, MoveTypes
<1>7. ASSUME NEW v \in Vm, MoveTables(v) PROVE Typed'
  BY <1>7, MoveTablesTypes
<1>8. CASE UNCHANGED vars
  <2>1. /\ UNCHANGED <<gpu, rings, ids, active, maps, addr, pdfence, places>>
        /\ UNCHANGED <<cs, bounds>>
    BY <1>8 DEF vars
  <2>. QED
    BY <2>1, StepTypesStay, PassingTypes
<1>. QED
  BY <1>1, <1>2, <1>3, <1>4, <1>5, <1>6, <1>7, <1>8 DEF Next

\* The module's types, with the shapes they rest on, hold in every reachable state.
THEOREM VmTypes == Spec => []Typed
BY InitTypes, NextTypes, PTL DEF Spec

-----------------------------------------------------------------------------
(* What orders the commands *)

\* Command n of a ring begins after fence s of the other ring.
Behind(r, n, s) ==
  s <= done[Other(r)] \/ \E j \in Pending(r) : j <= n /\ s <= Waits(r, j)

\* Command n of a ring begins after fence u of the DMA ring; u begins after it.
After(r, n, u) == IF r = Dma THEN u < n ELSE Behind(r, n, u)
Before(r, n, u) == IF r = Dma THEN n < u ELSE Behind(Dma, u, n)

\* No command is lost, none overtakes another, and none retires before what it waits for.
Goes ==
  \A r \in Ring :
    /\ done'[r] \in Nat /\ emitted'[r] \in Nat /\ done'[r] <= emitted'[r]
    /\ done[r] <= done'[r] /\ emitted[r] <= emitted'[r]
    /\ \A n \in Pending(r) : n > done'[r] => Command(r, n)' = Command(r, n)
                                             /\ Waits(r, n)' = Waits(r, n)
    /\ \A n \in Pending(r) : n <= done'[r] => Waits(r, n) <= done[Other(r)]

\* A step that leaves the rings alone,
LEMMA GoesSame ==
  ASSUME Typed, \A r \in Ring : Same(r)
  PROVE  Goes
<1>1. ASSUME NEW r \in Ring, NEW n \in Pending(r)
      PROVE  ~(n <= done[r])
  BY QueueTypes DEF Pending
<1>2. \A r \in Ring : done[r] \in Nat /\ emitted[r] \in Nat /\ done[r] <= emitted[r]
  BY QueueTypes
<1>. QED
  BY <1>1, <1>2 DEF Goes, Same

\* one that retires a command,
LEMMA GoesRetired ==
  ASSUME Typed, NEW r \in Ring, Retired(r)
  PROVE  Goes
<1>1. \A s \in Ring : /\ done[s] \in Nat /\ emitted[s] \in Nat /\ done[s] <= emitted[s]
                      /\ \A n \in Pending(s) : n \in Nat /\ n > done[s]
  BY QueueTypes DEF Pending
<1>2. ASSUME NEW s \in Ring
      PROVE  /\ done'[s] \in Nat /\ emitted'[s] \in Nat /\ done'[s] <= emitted'[s]
             /\ done[s] <= done'[s] /\ emitted[s] <= emitted'[s]
             /\ \A n \in Pending(s) : n > done'[s] => Command(s, n)' = Command(s, n)
                                                      /\ Waits(s, n)' = Waits(s, n)
             /\ \A n \in Pending(s) : n <= done'[s] => Waits(s, n) <= done[Other(s)]
  <2>1. CASE s = r
    <3>1. \A n \in Pending(r) : n <= done[r] + 1 => n = done[r] + 1
      BY <1>1
    <3>2. done[r] + 1 <= emitted[r]
      BY <1>1 DEF Retired, Pending
    <3>. QED
      BY <1>1, <2>1, <3>1, <3>2 DEF Retired
  <2>2. CASE s # r
    <3>1. s = Other(r)
      BY <2>2, Others
    <3>2. Same(s)
      BY <3>1 DEF Retired
    <3>3. \A n \in Pending(s) : ~(n <= done[s])
      BY <1>1
    <3>. QED
      BY <1>1, <3>2, <3>3 DEF Same
  <2>. QED
    BY <2>1, <2>2
<1>. QED
  BY <1>2 DEF Goes

\* and one that emits a command do just that.
LEMMA GoesEmitted ==
  ASSUME Typed, NEW r \in Ring, NEW want, NEW c, Emitted(r, want, c)
  PROVE  Goes
<1>1. \A s \in Ring : /\ done[s] \in Nat /\ emitted[s] \in Nat /\ done[s] <= emitted[s]
                      /\ \A n \in Pending(s) : n \in Nat /\ n > done[s] /\ ~(n <= done[s])
  BY QueueTypes DEF Pending
<1>2. ASSUME NEW s \in Ring
      PROVE  /\ done'[s] = done[s] /\ emitted'[s] \in Nat /\ emitted[s] <= emitted'[s]
             /\ \A n \in Pending(s) : Command(s, n)' = Command(s, n) /\ Waits(s, n)' = Waits(s, n)
  <2>1. CASE s = r
    BY <1>1, <2>1 DEF Emitted
  <2>2. CASE s # r
    <3>1. s = Other(r)
      BY <2>2, Others
    <3>2. Same(s)
      BY <3>1 DEF Emitted
    <3>. QED
      BY <1>1, <3>2 DEF Same
  <2>. QED
    BY <2>1, <2>2
<1>. QED
  BY <1>1, <1>2 DEF Goes

\* A command that has been there and has not retired.
LEMMA OldCommand ==
  ASSUME Typed, Goes, NEW r \in Ring, NEW n \in Pending(r)', n <= emitted[r]
  PROVE  /\ n \in Pending(r) /\ n \in Nat /\ n > done'[r] /\ n > done[r]
         /\ Command(r, n)' = Command(r, n) /\ Waits(r, n)' = Waits(r, n)
<1>1. /\ done[r] \in Nat /\ emitted[r] \in Nat /\ done'[r] \in Nat /\ emitted'[r] \in Nat
      /\ done[r] <= done'[r]
  BY QueueTypes DEF Goes
<1>2. n \in (done'[r] + 1) .. emitted'[r]
  BY DEF Pending
<1>3. n \in Pending(r) /\ n \in Nat /\ n > done'[r] /\ n > done[r]
  BY <1>1, <1>2 DEF Pending
<1>. QED
  BY <1>3 DEF Goes

\* What is behind a fence stays behind it,
LEMMA BehindStays ==
  ASSUME Typed, Goes, NEW r \in Ring, NEW n \in Nat, NEW s \in Nat, Behind(r, n, s)
  PROVE  Behind(r, n, s)'
<1>1. /\ Other(r) \in Ring /\ done[Other(r)] \in Nat /\ done'[Other(r)] \in Nat
      /\ done[Other(r)] <= done'[Other(r)]
  BY QueueTypes, Others DEF Goes
<1>2. CASE s <= done[Other(r)]
  BY <1>1, <1>2 DEF Behind
<1>3. ASSUME NEW j \in Pending(r), j <= n, s <= Waits(r, j)
      PROVE  Behind(r, n, s)'
  <2>1. j \in Nat /\ Waits(r, j) \in Nat
    BY QueueTypes
  <2>2. CASE j <= done'[r]
    <3>1. Waits(r, j) <= done[Other(r)]
      BY <2>2 DEF Goes
    <3>. QED
      BY <1>1, <1>3, <2>1, <3>1 DEF Behind
  <2>3. CASE ~(j <= done'[r])
    <3>1. done'[r] \in Nat /\ emitted[r] \in Nat /\ emitted'[r] \in Nat /\ emitted[r] <= emitted'[r]
          /\ done[r] \in Nat
      BY QueueTypes DEF Goes
    <3>2. j > done'[r] /\ j \in Pending(r)'
      BY <2>1, <2>3, <3>1 DEF Pending
    <3>3. Waits(r, j)' = Waits(r, j)
      BY <3>2 DEF Goes
    <3>. QED
      BY <1>3, <3>2, <3>3 DEF Behind
  <2>. QED
    BY <2>2, <2>3
<1>. QED
  BY <1>2, <1>3 DEF Behind

\* and so is what comes later, and behind what came earlier.
LEMMA BehindGrows ==
  ASSUME Typed, NEW r \in Ring, NEW n \in Nat, NEW m \in Nat, n <= m,
         NEW s \in Nat, NEW t \in Nat, t <= s, Behind(r, n, s)
  PROVE  Behind(r, m, t)
<1>1. done[Other(r)] \in Nat
  BY QueueTypes, Others
<1>2. \A j \in Pending(r) : j \in Nat /\ Waits(r, j) \in Nat
  BY QueueTypes
<1>3. CASE s <= done[Other(r)]
  BY <1>1, <1>3 DEF Behind
<1>4. ASSUME NEW j \in Pending(r), j <= n, s <= Waits(r, j)
      PROVE  Behind(r, m, t)
  <2>1. j <= m /\ t <= Waits(r, j)
    BY <1>2, <1>4
  <2>. QED
    BY <2>1 DEF Behind
<1>. QED
  BY <1>3, <1>4 DEF Behind

\* What the first command of a ring is behind has happened when it may begin.
LEMMA HeadBehind ==
  ASSUME Typed, NEW r \in Ring, Waits(r, done[r] + 1) <= done[Other(r)],
         NEW s \in Nat, Behind(r, done[r] + 1, s)
  PROVE  s <= done[Other(r)]
<1>1. done[Other(r)] \in Nat /\ done[r] \in Nat /\ emitted[r] \in Nat
  BY QueueTypes, Others
<1>2. ASSUME NEW j \in Pending(r), j <= done[r] + 1, s <= Waits(r, j)
      PROVE  s <= done[Other(r)]
  <2>1. j = done[r] + 1
    BY <1>1, <1>2 DEF Pending
  <2>2. Waits(r, j) \in Nat /\ Waits(r, j) <= done[Other(r)]
    BY <2>1, QueueTypes
  <2>. QED
    BY <1>1, <1>2, <2>2
<1>. QED
  BY <1>2 DEF Behind

\* What the head of a ring is after has been executed, if it waits no longer.
LEMMA AfterHead ==
  ASSUME Typed, NEW r \in Ring, Waits(r, done[r] + 1) <= done[Other(r)],
         NEW u \in Nat, After(r, done[r] + 1, u)
  PROVE  u <= done[Dma]
<1>1. CASE r = Dma
  <2>1. done[Dma] \in Nat /\ u < done[Dma] + 1
    BY <1>1, QueueTypes DEF After
  <2>. QED
    BY <2>1
<1>2. CASE r # Dma
  <2>1. Other(r) = Dma
    BY <1>2, Others
  <2>. QED
    BY <1>2, <2>1, HeadBehind DEF After
<1>. QED
  BY <1>1, <1>2

\* After stays what it is, as commands come and go,
LEMMA AfterStays ==
  ASSUME Typed, Goes, NEW r \in Ring, NEW n \in Nat, NEW u \in Nat, After(r, n, u)
  PROVE  After(r, n, u)'
BY BehindStays DEF After

\* and so does before.
LEMMA BeforeStays ==
  ASSUME Typed, Goes, NEW r \in Ring, NEW n \in Nat, NEW u \in Nat, Before(r, n, u)
  PROVE  Before(r, n, u)'
BY BehindStays DEF Before, Ring

\* The first command of the DMA ring may begin: nothing it is behind is pending.
LEMMA BeforeHead ==
  ASSUME Typed, Waits(Dma, done[Dma] + 1) <= done[Other(Dma)],
         NEW r \in Ring, NEW n \in Nat, Before(r, n, done[Dma] + 1)
  PROVE  n <= done[r]
<1>1. Dma \in Ring /\ done[Dma] \in Nat
  BY QueueTypes DEF Ring
<1>2. CASE r = Dma
  BY <1>1, <1>2 DEF Before
<1>3. CASE r # Dma
  <2>1. Other(Dma) = r
    BY <1>3, Others
  <2>2. Behind(Dma, done[Dma] + 1, n)
    BY <1>3 DEF Before
  <2>. QED
    BY <1>1, <2>1, <2>2, HeadBehind
<1>. QED
  BY <1>2, <1>3

-----------------------------------------------------------------------------
(* What a ring has waited for *)

\* A ring has waited for what it knows of the other before its last command.
KnownIsKept == \A r \in Ring : Behind(r, emitted[r], known[r])

\* A job that runs had nothing to wait for.
WaitsMet == \A r \in Ring : running[r] => Waits(r, done[r] + 1) <= done[Other(r)]

\* What a ring knows stays true while nothing is emitted.
LEMMA KnownStays ==
  ASSUME Typed, KnownIsKept, Goes, UNCHANGED <<emitted, known>>
  PROVE  KnownIsKept'
<1>1. ASSUME NEW r \in Ring
      PROVE  Behind(r, emitted[r], known[r])'
  <2>1. PICK n \in Nat, s \in Nat : n = emitted[r] /\ s = known[r]
    BY QueueTypes
  <2>2. Behind(r, n, s)
    BY <2>1 DEF KnownIsKept
  <2>3. Behind(r, n, s)'
    BY <2>2, BehindStays
  <2>4. emitted'[r] = n /\ known'[r] = s
    BY <2>1
  <2>. QED
    BY <2>3, <2>4 DEF Behind
<1>. QED
  BY <1>1 DEF KnownIsKept

\* A command that is emitted is behind what it wants.
LEMMA EmitBehind ==
  ASSUME Typed, KnownIsKept, NEW r \in Ring, NEW want \in Nat, want <= emitted[Other(r)], NEW c,
         Emitted(r, want, c), known' = [known EXCEPT ![r] = Larger(known[r], Await(r, want))]
  PROVE  /\ \A n \in Nat, s \in Nat : n = emitted[r] + 1 /\ s <= want => Behind(r, n, s)'
         /\ KnownIsKept'
<1>1. PICK n \in Nat : n = emitted[r] + 1
  BY QueueTypes
<1>2. PICK k \in Nat : k = known[r]
  BY QueueTypes
<1>3. PICK a \in Nat : a = Await(r, want)
  BY AwaitTypes
<1>4. /\ emitted[r] \in Nat /\ emitted[Other(r)] \in Nat /\ done[r] \in Nat /\ done[r] <= emitted[r]
      /\ Other(r) \in Ring
  BY QueueTypes, Others
<1>5. /\ done'[r] = done[r] /\ emitted'[r] = n /\ Waits(r, n)' = a
      /\ emitted'[Other(r)] = emitted[Other(r)] /\ Same(Other(r))
  BY <1>1, <1>3 DEF Emitted, Same
<1>6. Goes
  BY GoesEmitted
<1>7. n \in Pending(r)'
  BY <1>1, <1>4, <1>5 DEF Pending
<1>8. Behind(r, n, k)'
  <2>1. Behind(r, emitted[r], k)
    BY <1>2 DEF KnownIsKept
  <2>2. emitted[r] <= n /\ k <= k
    BY <1>1, <1>4
  <2>3. Behind(r, n, k)
    BY <1>4, <2>1, <2>2, BehindGrows
  <2>. QED
    BY <1>6, <2>3, BehindStays
<1>9. \A s \in Nat : s <= a => Behind(r, n, s)'
  BY <1>5, <1>7 DEF Behind
<1>10. ASSUME NEW s \in Nat, s <= want
       PROVE  Behind(r, n, s)'
  <2>1. CASE want > known[r]
    <3>1. a = emitted[Other(r)]
      BY <1>3, <2>1 DEF Await
    <3>. QED
      BY <1>4, <1>9, <1>10, <3>1
  <2>2. CASE ~(want > known[r])
    <3>1. s <= k
      BY <1>2, <1>10, <2>2
    <3>2. \/ k <= done'[Other(r)]
          \/ \E j \in Pending(r)' : j <= n /\ k <= Waits(r, j)'
      BY <1>8 DEF Behind
    <3>3. done'[Other(r)] \in Nat
      BY <1>4, <1>6 DEF Goes
    <3>4. CASE k <= done'[Other(r)]
      <4>1. s <= done'[Other(r)]
        BY <3>1, <3>3, <3>4
      <4>. QED
        BY <4>1 DEF Behind
    <3>5. ASSUME NEW j \in Pending(r)', j <= n, k <= Waits(r, j)'
          PROVE  Behind(r, n, s)'
      <4>1. Waits(r, j)' \in Nat
        <5>1. CASE j = n
          BY <1>5, <5>1
        <5>2. CASE j # n
          <6>1. j <= emitted[r]
            BY <1>1, <1>4, <1>5, <5>2 DEF Pending
          <6>2. j \in Pending(r) /\ Waits(r, j)' = Waits(r, j)
            BY <1>6, <6>1, OldCommand
          <6>. QED
            BY <6>2, QueueTypes
        <5>. QED
          BY <5>1, <5>2
      <4>2. s <= Waits(r, j)'
        BY <3>1, <3>5, <4>1
      <4>. QED
        BY <3>5, <4>2 DEF Behind
    <3>. QED
      BY <3>2, <3>4, <3>5
  <2>. QED
    BY <2>1, <2>2
<1>11. KnownIsKept'
  <2>1. ASSUME NEW q \in Ring
        PROVE  Behind(q, emitted[q], known[q])'
    <3>1. CASE q = r
      <4>1. known \in [Ring -> Nat]
        BY DEF Typed, Shapes, QueueShape
      <4>2. known'[r] = Larger(k, a)
        BY <1>2, <1>3, <4>1
      <4>3. known'[r] = k \/ (known'[r] = a /\ a \in Nat)
        BY <4>2 DEF Larger
      <4>4. Behind(r, n, k)' /\ Behind(r, n, a)'
        BY <1>8, <1>9
      <4>. QED
        BY <1>5, <3>1, <4>3, <4>4 DEF Behind
    <3>2. CASE q # r
      <4>1. q = Other(r)
        BY <3>2, Others
      <4>2. PICK m \in Nat, s \in Nat : m = emitted[q] /\ s = known[q]
        BY QueueTypes
      <4>3. emitted'[q] = m /\ known'[q] = s
        BY <1>5, <3>2, <4>1, <4>2 DEF Typed, Shapes, QueueShape
      <4>4. Behind(q, m, s)
        BY <4>2 DEF KnownIsKept
      <4>5. Behind(q, m, s)'
        BY <1>6, <4>4, BehindStays
      <4>. QED
        BY <4>3, <4>5 DEF Behind
    <3>. QED
      BY <3>1, <3>2
  <2>. QED
    BY <2>1 DEF KnownIsKept
<1>. QED
  BY <1>1, <1>10, <1>11

-----------------------------------------------------------------------------
(* What the GPU's steps do *)

LEMMA WriteIs ==
  ASSUME Typed, NEW r \in Ring, Write(r)
  PROVE  /\ r = Dma /\ Retired(Dma) /\ ~running[Dma] /\ Goes
         /\ UNCHANGED <<running, emitted, known, ids, active, maps, addr, pdfence, places, base,
                        tlb, cs, bounds>>
         /\ \E c \in Cmd :
              /\ c = Command(Dma, done[Dma] + 1)
              /\ \/ /\ c.op = "pde" /\ c.vm \in Vm /\ c.to \in Nat
                    /\ pde' = [pde EXCEPT ![c.vm] = c.to] /\ UNCHANGED pte
                 \/ /\ c.op = "pte" /\ c.vm \in Vm /\ c.bo \in Bo /\ c.to \in Nat
                    /\ pte' = [pte EXCEPT ![c.vm][c.bo] = c.to] /\ UNCHANGED pde
<1>1. r = Dma
  BY WriteTypes
<1>2. /\ queue[r] # <<>> /\ ~running[r] /\ Retire(r) /\ Head(queue[r]).wait <= done[Other(r)]
      /\ UNCHANGED <<running, emitted, known, ids, active, maps, addr, pdfence, places, base, tlb,
                     cs, bounds>>
  <2>1. done[Other(r)] >= Head(queue[r]).wait /\ Head(queue[r]).wait \in Nat
    <3>1. queue[r] # <<>> /\ done[Other(r)] >= Head(queue[r]).wait
      BY DEF Write, Ready
    <3>2. queue[r] \in Seq(Queued) /\ Len(queue[r]) >= 1 /\ Head(queue[r]) = queue[r][1]
      BY <3>1, QueueTypes
    <3>3. queue[r][1] \in Queued
      BY <3>2
    <3>. QED
      BY <3>1, <3>2, <3>3 DEF Queued
  <2>2. done[Other(r)] \in Nat
    BY QueueTypes, Others
  <2>. QED
    BY <2>1, <2>2 DEF Write, Ready
<1>3. Retired(r) /\ Command(r, done[r] + 1) = Head(queue[r]).cmd
  BY <1>2, Retires
<1>4. PICK c : c = Head(queue[r]).cmd
  OBVIOUS
<1>5. c \in Cmd
  <2>1. done[r] + 1 \in Pending(r)
    BY <1>3 DEF Retired
  <2>. QED
    BY <1>3, <1>4, <2>1, QueueTypes
<1>6. \/ c.op = "pde" /\ pde' = [pde EXCEPT ![c.vm] = c.to] /\ UNCHANGED pte
      \/ c.op = "pte" /\ pte' = [pte EXCEPT ![c.vm][c.bo] = c.to] /\ UNCHANGED pde
  BY <1>4 DEF Write
<1>7. /\ c.op = "pde" => c.vm \in Vm /\ c.to \in Nat
      /\ c.op = "pte" => c.vm \in Vm /\ c.bo \in Bo /\ c.to \in Nat
  BY <1>5 DEF Cmd, WritesDirectory, WritesEntry, RunsJob
<1>8. Goes
  BY <1>3, GoesRetired
<1>. QED
  BY <1>1, <1>2, <1>3, <1>4, <1>5, <1>6, <1>7, <1>8

\* A job starts, and changes what its id uses if it flushes.
LEMMA StartIs ==
  ASSUME Typed, NEW r \in Ring, Start(r)
  PROVE  /\ done[r] + 1 \in Pending(r) /\ ~running[r] /\ Goes
         /\ \A s \in Ring : Same(s)
         /\ Waits(r, done[r] + 1) <= done[Other(r)]
         /\ UNCHANGED <<done, pde, pte, rings, ids, active, maps, addr, pdfence, places, cs,
                        bounds>>
         /\ \A s \in Ring : running'[s] <=> s = r \/ running[s]
         /\ \E c \in RunsJob :
              /\ c = Command(r, done[r] + 1)
              /\ IF c.flush THEN /\ base' = [base EXCEPT ![c.id] = [vm |-> c.vm, pd |-> c.pd]]
                                 /\ tlb' = [tlb EXCEPT ![c.id] = Empty]
                 ELSE UNCHANGED <<base, tlb>>
<1>1. /\ queue[r] # <<>> /\ ~running[r] /\ done[Other(r)] >= Head(queue[r]).wait
      /\ running' = [running EXCEPT ![r] = TRUE]
      /\ UNCHANGED <<done, pde, pte, rings, ids, active, maps, addr, pdfence, places, cs, bounds>>
  BY DEF Start, Ready
<1>2. /\ Head(queue[r]).cmd \in RunsJob /\ Head(queue[r]).cmd = Command(r, done[r] + 1)
      /\ done[r] + 1 \in Pending(r)
  BY StartTypes
<1>3. \A s \in Ring : Same(s)
  BY <1>1, Stays DEF rings
<1>4. Goes
  BY <1>3, GoesSame
<1>5. Waits(r, done[r] + 1) <= done[Other(r)]
  <2>1. queue[r] \in Seq(Queued) /\ Len(queue[r]) >= 1 /\ Head(queue[r]) = queue[r][1]
    BY <1>1, QueueTypes
  <2>2. (done[r] + 1) - done[r] = 1
    BY QueueTypes
  <2>3. Waits(r, done[r] + 1) = Head(queue[r]).wait
    BY <2>1, <2>2 DEF Waits
  <2>4. Waits(r, done[r] + 1) \in Nat /\ done[Other(r)] \in Nat
    BY <1>2, QueueTypes, Others
  <2>. QED
    BY <1>1, <2>3, <2>4
<1>6. \A s \in Ring : running'[s] <=> s = r \/ running[s]
  BY <1>1 DEF Typed, Shapes, QueueShape
<1>7. LET c == Head(queue[r]).cmd IN
        IF c.flush THEN /\ base' = [base EXCEPT ![c.id] = [vm |-> c.vm, pd |-> c.pd]]
                        /\ tlb' = [tlb EXCEPT ![c.id] = Empty]
        ELSE UNCHANGED <<base, tlb>>
  BY DEF Start
<1>. QED
  BY <1>1, <1>2, <1>3, <1>4, <1>5, <1>6, <1>7

\* A job ends, and its id has cached what it walked.
LEMMA FinishIs ==
  ASSUME Typed, WaitsMet, NEW r \in Ring, Finish(r)
  PROVE  /\ Retired(r) /\ running[r] /\ Goes
         /\ UNCHANGED <<emitted, known, pde, pte, base, ids, active, maps, addr, pdfence, places,
                        cs, bounds>>
         /\ \A s \in Ring : running'[s] <=> s # r /\ running[s]
         /\ \E c \in RunsJob :
              /\ c = Command(r, done[r] + 1)
              /\ tlb' = [tlb EXCEPT ![c.id] =
                   [table |-> Table(c.id),
                    page |-> [o \in Bo |-> IF c.at[o] # 0 THEN Found(c.id, o)
                                           ELSE tlb[c.id].page[o]]]]
<1>1. /\ running[r] /\ running' = [running EXCEPT ![r] = FALSE] /\ Retire(r)
      /\ UNCHANGED <<emitted, known, pde, pte, base, ids, active, maps, addr, pdfence, places, cs,
                     bounds>>
  BY DEF Finish
<1>2. /\ queue[r] # <<>> /\ Head(queue[r]).cmd \in RunsJob
      /\ Head(queue[r]).cmd = Command(r, done[r] + 1)
  BY FinishTypes
<1>3. Head(queue[r]).wait <= done[Other(r)]
  <2>1. queue[r] \in Seq(Queued) /\ Len(queue[r]) >= 1 /\ Head(queue[r]) = queue[r][1]
    BY <1>2, QueueTypes
  <2>2. (done[r] + 1) - done[r] = 1
    BY QueueTypes
  <2>3. Waits(r, done[r] + 1) = Head(queue[r]).wait
    BY <2>1, <2>2 DEF Waits
  <2>. QED
    BY <1>1, <2>3 DEF WaitsMet
<1>4. Retired(r)
  BY <1>1, <1>2, <1>3, Retires
<1>5. Goes
  BY <1>4, GoesRetired
<1>6. \A s \in Ring : running'[s] <=> s # r /\ running[s]
  BY <1>1 DEF Typed, Shapes, QueueShape
<1>7. LET c == Head(queue[r]).cmd IN
        tlb' = [tlb EXCEPT ![c.id] =
                 [table |-> Table(c.id),
                  page |-> [o \in Bo |-> IF c.at[o] # 0 THEN Found(c.id, o) ELSE @.page[o]]]]
  BY DEF Finish
<1>. QED
  BY <1>1, <1>2, <1>4, <1>5, <1>6, <1>7

\* WaitsMet is kept by every step that retires or emits a command, or none.
LEMMA WaitsStay ==
  ASSUME Typed, WaitsMet, Goes,
         \A r \in Ring : running'[r] => running[r] /\ done'[r] = done[r]
  PROVE  WaitsMet'
<1>1. ASSUME NEW r \in Ring, running'[r]
      PROVE  Waits(r, done[r] + 1)' <= done'[Other(r)]
  <2>1. running[r] /\ done'[r] = done[r]
    BY <1>1
  <2>2. /\ done[r] + 1 \in Pending(r) /\ Waits(r, done[r] + 1) \in Nat
        /\ Waits(r, done[r] + 1) <= done[Other(r)]
    BY <2>1, QueueTypes DEF WaitsMet
  <2>3. PICK n \in Nat : n = done[r] + 1
    BY QueueTypes
  <2>4. done[r] \in Nat /\ n > done'[r]
    BY <2>1, <2>3, QueueTypes
  <2>5. Waits(r, n)' = Waits(r, n)
    BY <2>2, <2>3, <2>4 DEF Goes
  <2>6. Waits(r, done[r] + 1)' = Waits(r, n)'
    BY <2>1, <2>3
  <2>7. done[Other(r)] \in Nat /\ done'[Other(r)] \in Nat /\ done[Other(r)] <= done'[Other(r)]
    BY QueueTypes, Others DEF Goes
  <2>. QED
    BY <2>2, <2>3, <2>5, <2>6, <2>7
<1>. QED
  BY <1>1 DEF WaitsMet

\* A job starts only when its wait is met.
LEMMA WaitsStart ==
  ASSUME Typed, WaitsMet, NEW r \in Ring, Start(r)
  PROVE  WaitsMet'
<1>1. /\ Waits(r, done[r] + 1) <= done[Other(r)]
      /\ \A s \in Ring : running'[s] <=> s = r \/ running[s]
      /\ UNCHANGED <<done, rings>>
  BY StartIs
<1>2. ASSUME NEW s \in Ring, running'[s]
      PROVE  Waits(s, done[s] + 1) <= done[Other(s)]
  BY <1>1, <1>2 DEF WaitsMet
<1>3. ASSUME NEW s \in Ring
      PROVE  Waits(s, done[s] + 1)' = Waits(s, done[s] + 1)
  BY <1>1 DEF Waits, rings
<1>. QED
  BY <1>1, <1>2, <1>3 DEF WaitsMet

-----------------------------------------------------------------------------
(* Who holds an id *)

IsJob(r, n, i) == Command(r, n).op = "job" /\ Command(r, n).id = i

\* Command n of a ring is running or has retired.
Begun(r, n) == n <= done[r] \/ (n = done[r] + 1 /\ running[r])

\* What a job needs of its id: the address space, the directory, and what of the tables and
\* pages may be cached.
Session == [id : Id, vm : Vm, pd : Nat, tables : SUBSET Nat, pages : [Bo -> SUBSET Nat]]

\* Up to command n of a ring, an id is what command f has made of it: f flushes for it, none
\* behind f does, and the other ring's jobs under the id are over before f or behind n.
Held(r, n, f, w) ==
  /\ ~Begun(r, f) => /\ IsJob(r, f, w.id) /\ Command(r, f).flush
                     /\ Command(r, f).vm = w.vm /\ Command(r, f).pd = w.pd
  /\ \A m \in Pending(r) : f < m /\ m <= n /\ IsJob(r, m, w.id) => ~Command(r, m).flush
  /\ \A m \in Pending(Other(r)) : IsJob(Other(r), m, w.id) =>
       (~Begun(r, f) /\ Behind(r, f, m)) \/ Behind(Other(r), m, n)
  /\ Begun(r, f) => /\ base[w.id] = [vm |-> w.vm, pd |-> w.pd]
                    /\ tlb[w.id].table \in w.tables
                    /\ \A o \in Bo : tlb[w.id].page[o] \in w.pages[o]

\* An id stays held unless command f begins, or a command is added that flushes before n or
\* runs before n on the other ring.
LEMMA HeldStays ==
  ASSUME Typed, Goes, NEW r \in Ring, NEW n \in Nat, NEW f \in Nat, f > 0, f <= emitted[r],
         NEW w \in Session, Held(r, n, f, w), Begun(r, f)' <=> Begun(r, f),
         \A m \in Pending(r)' : m > emitted[r] /\ m <= n /\ IsJob(r, m, w.id)'
                                  => ~Command(r, m)'.flush,
         \A m \in Pending(Other(r))' : m > emitted[Other(r)] /\ IsJob(Other(r), m, w.id)'
                                         => Behind(Other(r), m, n)',
         Begun(r, f) => /\ base'[w.id] = [vm |-> w.vm, pd |-> w.pd]
                        /\ tlb'[w.id].table \in w.tables
                        /\ \A o \in Bo : tlb'[w.id].page[o] \in w.pages[o]
  PROVE  Held(r, n, f, w)'
<1>1. /\ done[r] \in Nat /\ emitted[r] \in Nat /\ Other(r) \in Ring
      /\ done'[r] \in Nat /\ emitted'[r] \in Nat /\ emitted[r] <= emitted'[r]
      /\ emitted[Other(r)] \in Nat /\ emitted'[Other(r)] \in Nat /\ done'[Other(r)] \in Nat
  BY QueueTypes, Others DEF Goes
<1>2. ~Begun(r, f)' => /\ IsJob(r, f, w.id)' /\ Command(r, f)'.flush
                       /\ Command(r, f)'.vm = w.vm /\ Command(r, f)'.pd = w.pd
  <2>1. ASSUME ~Begun(r, f)'
        PROVE  Command(r, f)' = Command(r, f) /\ ~Begun(r, f)
    <3>1. ~(f <= done'[r]) /\ ~Begun(r, f)
      BY <2>1 DEF Begun
    <3>2. f \in Pending(r)'
      BY <1>1, <3>1 DEF Pending
    <3>. QED
      BY <3>1, <3>2, OldCommand
  <2>. QED
    BY <2>1 DEF Held, IsJob
<1>3. ASSUME NEW m \in Pending(r)', f < m, m <= n, IsJob(r, m, w.id)'
      PROVE  ~Command(r, m)'.flush
  <2>1. m \in Nat
    BY <1>1 DEF Pending
  <2>2. CASE m <= emitted[r]
    <3>1. m \in Pending(r) /\ Command(r, m)' = Command(r, m)
      BY <2>2, OldCommand
    <3>. QED
      BY <1>3, <3>1 DEF Held, IsJob
  <2>. QED
    BY <1>1, <1>3, <2>1, <2>2
<1>4. ASSUME NEW m \in Pending(Other(r))', IsJob(Other(r), m, w.id)'
      PROVE  (~Begun(r, f)' /\ Behind(r, f, m)') \/ Behind(Other(r), m, n)'
  <2>1. m \in Nat
    BY <1>1 DEF Pending
  <2>2. CASE m <= emitted[Other(r)]
    <3>1. m \in Pending(Other(r)) /\ Command(Other(r), m)' = Command(Other(r), m)
      BY <1>1, <2>2, OldCommand
    <3>2. (~Begun(r, f) /\ Behind(r, f, m)) \/ Behind(Other(r), m, n)
      BY <1>4, <3>1 DEF Held, IsJob
    <3>3. Behind(r, f, m) => Behind(r, f, m)'
      BY <2>1, BehindStays
    <3>4. Behind(Other(r), m, n) => Behind(Other(r), m, n)'
      BY <1>1, <2>1, BehindStays
    <3>. QED
      BY <3>2, <3>3, <3>4
  <2>. QED
    BY <1>1, <1>4, <2>1, <2>2
<1>. QED
  BY <1>2, <1>3, <1>4 DEF Held

\* The ring retires a command that is not a job.
LEMMA HeldWrite ==
  ASSUME Typed, Write(Dma), NEW r \in Ring, NEW n \in Nat,
         NEW f \in Nat, f > 0, f <= emitted[r], NEW w \in Session, Held(r, n, f, w)
  PROVE  Held(r, n, f, w)'
<1>1. /\ Retired(Dma) /\ ~running[Dma] /\ Goes
      /\ UNCHANGED <<running, emitted, base, tlb>>
      /\ Command(Dma, done[Dma] + 1).op # "job"
  BY WriteIs DEF Ring
<1>2. /\ \A s \in Ring : done[s] \in Nat /\ emitted[s] \in Nat /\ emitted'[s] = emitted[s]
      /\ Other(r) \in Ring
  BY <1>1, QueueTypes, Others
<1>3. done'[Dma] = done[Dma] + 1 /\ \A s \in Ring : s # Dma => done'[s] = done[s]
  BY <1>1, Others DEF Retired, Same
<1>4. Begun(r, f)' <=> Begun(r, f)
  <2>1. CASE r = Dma
    <3>1. f = done[Dma] + 1 => Begun(r, f)
      BY <1>1, <2>1 DEF Held, IsJob
    <3>2. ~(f = done[Dma] + 1)
      BY <1>1, <1>2, <2>1, <3>1 DEF Begun
    <3>. QED
      BY <1>1, <1>2, <1>3, <2>1, <3>2 DEF Begun
  <2>2. CASE r # Dma
    BY <1>1, <1>3, <2>2 DEF Begun
  <2>. QED
    BY <2>1, <2>2
<1>5. \A s \in Ring : \A m \in Pending(s)' : ~(m > emitted[s])
  BY <1>1, <1>2 DEF Pending, Goes
<1>. QED
  BY <1>1, <1>2, <1>4, <1>5, HeldStays DEF Held

\* A job begins, under the id or another.
LEMMA HeldStart ==
  ASSUME Typed, NEW q \in Ring, Start(q), NEW r \in Ring, NEW n \in Nat, n > done[r],
         NEW f \in Nat, f > 0, f <= n, f <= emitted[r],
         NEW w \in Session, 0 \in w.tables, \A o \in Bo : 0 \in w.pages[o], Held(r, n, f, w)
  PROVE  Held(r, n, f, w)'
<1>1. PICK c \in RunsJob :
        /\ c = Command(q, done[q] + 1)
        /\ IF c.flush THEN /\ base' = [base EXCEPT ![c.id] = [vm |-> c.vm, pd |-> c.pd]]
                           /\ tlb' = [tlb EXCEPT ![c.id] = Empty]
           ELSE UNCHANGED <<base, tlb>>
  BY StartIs
<1>2. /\ done[q] + 1 \in Pending(q) /\ ~running[q] /\ Goes
      /\ Waits(q, done[q] + 1) <= done[Other(q)]
      /\ UNCHANGED <<done, emitted>>
      /\ \A s \in Ring : running'[s] <=> s = q \/ running[s]
  BY StartIs DEF rings
<1>3. /\ \A s \in Ring : done[s] \in Nat /\ emitted[s] \in Nat /\ emitted'[s] = emitted[s]
      /\ Other(r) \in Ring /\ Other(q) \in Ring
  BY <1>2, QueueTypes, Others
<1>4. \A s \in Ring : \A m \in Pending(s)' : ~(m > emitted[s])
  BY <1>2, <1>3 DEF Pending
<1>5. /\ base \in [Id -> [vm : Vm, pd : Nat]] /\ tlb \in [Id -> [table : Nat, page : [Bo -> Nat]]]
      /\ c.id \in Id /\ c.op = "job" /\ w.id \in Id /\ c.flush \in BOOLEAN
  BY DEF Typed, Shapes, IdShape, RunsJob, Session
<1>6. PICK h \in Nat : h = done[q] + 1
  BY <1>3
<1>7. CASE r = q /\ f = h
  <2>1. ~Begun(r, f)
    BY <1>2, <1>3, <1>6, <1>7 DEF Begun
  <2>2. c.id = w.id /\ c.flush /\ c.vm = w.vm /\ c.pd = w.pd
    BY <1>1, <1>6, <1>7, <2>1 DEF Held, IsJob
  <2>3. base'[w.id] = [vm |-> w.vm, pd |-> w.pd] /\ tlb'[w.id] = Empty
    BY <1>1, <1>5, <2>2
  <2>4. /\ tlb'[w.id].table \in w.tables
        /\ \A o \in Bo : tlb'[w.id].page[o] \in w.pages[o]
    BY <2>3 DEF Empty
  <2>5. Begun(r, f)'
    BY <1>2, <1>6, <1>7 DEF Begun
  <2>6. ASSUME NEW m \in Pending(r)', f < m, m <= n, IsJob(r, m, w.id)'
        PROVE  ~Command(r, m)'.flush
    <3>1. m <= emitted[r]
      BY <1>2, <1>3 DEF Pending
    <3>2. m \in Pending(r) /\ Command(r, m)' = Command(r, m)
      BY <1>2, <3>1, OldCommand
    <3>. QED
      BY <2>6, <3>2 DEF Held, IsJob
  <2>7. ASSUME NEW m \in Pending(Other(r))', IsJob(Other(r), m, w.id)'
        PROVE  Behind(Other(r), m, n)'
    <3>1. m <= emitted[Other(r)] /\ m \in Nat
      BY <1>2, <1>3 DEF Pending
    <3>2. m \in Pending(Other(r)) /\ Command(Other(r), m)' = Command(Other(r), m)
          /\ m > done[Other(r)]
      BY <1>2, <1>3, <3>1, OldCommand
    <3>3. Behind(r, f, m) \/ Behind(Other(r), m, n)
      BY <2>7, <3>2 DEF Held, IsJob
    <3>4. ~Behind(r, f, m)
      <4>1. Behind(r, done[r] + 1, m) => m <= done[Other(r)]
        BY <1>2, <1>7, <3>1, HeadBehind
      <4>. QED
        BY <1>3, <1>6, <1>7, <3>1, <3>2, <4>1
    <3>. QED
      BY <1>2, <1>3, <3>1, <3>3, <3>4, BehindStays
  <2>. QED
    BY <2>3, <2>4, <2>5, <2>6, <2>7 DEF Held
<1>8. CASE ~(r = q /\ f = h)
  <2>1. Begun(r, f)' <=> Begun(r, f)
    BY <1>2, <1>6, <1>8 DEF Begun
  <2>2. ASSUME Begun(r, f)
        PROVE  c.flush => c.id # w.id
    <3>1. SUFFICES ASSUME c.flush, c.id = w.id PROVE FALSE
      OBVIOUS
    <3>2. CASE r = q
      <4>1. f < h /\ h <= n
        BY <1>2, <1>3, <1>6, <2>2, <3>2 DEF Begun
      <4>2. h \in Pending(r) /\ IsJob(r, h, w.id) /\ Command(r, h).flush
        BY <1>1, <1>2, <1>5, <1>6, <3>1, <3>2 DEF IsJob
      <4>. QED
        BY <4>1, <4>2 DEF Held
    <3>3. CASE r # q
      <4>1. q = Other(r) /\ r = Other(q)
        BY <3>3, Others
      <4>2. h \in Pending(Other(r)) /\ IsJob(Other(r), h, w.id)
        BY <1>1, <1>2, <1>5, <1>6, <3>1, <4>1 DEF IsJob
      <4>3. Behind(q, h, n)
        BY <2>2, <4>1, <4>2 DEF Held
      <4>4. n <= done[r]
        BY <1>2, <1>6, <4>1, <4>3, HeadBehind
      <4>. QED
        BY <1>3, <4>4
    <3>. QED
      BY <3>2, <3>3
  <2>3. Begun(r, f) => base'[w.id] = base[w.id] /\ tlb'[w.id] = tlb[w.id]
    BY <1>1, <1>5, <2>2
  <2>4. Begun(r, f) => /\ base'[w.id] = [vm |-> w.vm, pd |-> w.pd]
                       /\ tlb'[w.id].table \in w.tables
                       /\ \A o \in Bo : tlb'[w.id].page[o] \in w.pages[o]
    BY <2>3 DEF Held
  <2>. QED
    BY <1>2, <1>3, <1>4, <2>1, <2>4, HeldStays
<1>. QED
  BY <1>7, <1>8

\* A job ends that found its table and its pages where the holder of its id wants them.
LEMMA HeldFinish ==
  ASSUME Typed, WaitsMet, NEW q \in Ring, Finish(q), NEW r \in Ring, NEW n \in Nat,
         n > done'[r], NEW f \in Nat, f > 0, f <= n, f <= emitted[r],
         NEW w \in Session, Held(r, n, f, w),
         NEW c, c = Command(q, done[q] + 1),
         r = q /\ c.id = w.id /\ Begun(r, f) =>
           /\ Table(w.id) \in w.tables
           /\ \A o \in Bo : c.at[o] # 0 => Found(w.id, o) \in w.pages[o]
  PROVE  Held(r, n, f, w)'
<1>1. /\ Retired(q) /\ running[q] /\ Goes
      /\ UNCHANGED <<emitted, base>>
      /\ \A s \in Ring : running'[s] <=> s # q /\ running[s]
      /\ c \in RunsJob
      /\ tlb' = [tlb EXCEPT ![c.id] =
                   [table |-> Table(c.id),
                    page |-> [o \in Bo |-> IF c.at[o] # 0 THEN Found(c.id, o)
                                           ELSE tlb[c.id].page[o]]]]
  <2>1. PICK d \in RunsJob :
          /\ d = Command(q, done[q] + 1)
          /\ tlb' = [tlb EXCEPT ![d.id] =
                       [table |-> Table(d.id),
                        page |-> [o \in Bo |-> IF d.at[o] # 0 THEN Found(d.id, o)
                                               ELSE tlb[d.id].page[o]]]]
    BY FinishIs
  <2>2. d = c
    BY <2>1
  <2>3. /\ Retired(q) /\ running[q] /\ Goes
        /\ UNCHANGED <<emitted, base>>
        /\ \A s \in Ring : running'[s] <=> s # q /\ running[s]
    BY FinishIs
  <2>. QED
    BY <2>1, <2>2, <2>3
<1>2. /\ \A s \in Ring : done[s] \in Nat /\ emitted[s] \in Nat /\ emitted'[s] = emitted[s]
      /\ Other(r) \in Ring /\ Other(q) \in Ring
  BY <1>1, QueueTypes, Others
<1>3. done'[q] = done[q] + 1 /\ \A s \in Ring : s # q => done'[s] = done[s]
  BY <1>1, Others DEF Retired, Same
<1>4. /\ tlb \in [Id -> [table : Nat, page : [Bo -> Nat]]]
      /\ c.id \in Id /\ c.op = "job" /\ w.id \in Id
  BY <1>1 DEF Typed, Shapes, IdShape, RunsJob, Session
<1>5. Begun(r, f)' <=> Begun(r, f)
  <2>1. CASE r = q
    BY <1>1, <1>2, <1>3, <2>1 DEF Begun
  <2>2. CASE r # q
    BY <1>1, <1>3, <2>2 DEF Begun
  <2>. QED
    BY <2>1, <2>2
<1>6. \A s \in Ring : \A m \in Pending(s)' : ~(m > emitted[s])
  BY <1>1, <1>2 DEF Pending, Goes
<1>7. ASSUME Begun(r, f)
      PROVE  /\ base'[w.id] = [vm |-> w.vm, pd |-> w.pd]
             /\ tlb'[w.id].table \in w.tables
             /\ \A o \in Bo : tlb'[w.id].page[o] \in w.pages[o]
  <2>1. /\ base[w.id] = [vm |-> w.vm, pd |-> w.pd] /\ tlb[w.id].table \in w.tables
        /\ \A o \in Bo : tlb[w.id].page[o] \in w.pages[o]
    BY <1>7 DEF Held
  <2>2. CASE c.id # w.id
    <3>1. tlb'[w.id] = tlb[w.id]
      BY <1>1, <1>4, <2>2
    <3>. QED
      BY <1>1, <2>1, <3>1
  <2>3. CASE c.id = w.id /\ r = q
    <3>1. tlb'[w.id] = [table |-> Table(w.id),
                        page |-> [o \in Bo |-> IF c.at[o] # 0 THEN Found(w.id, o)
                                               ELSE tlb[w.id].page[o]]]
      BY <1>1, <1>4, <2>3
    <3>2. tlb'[w.id].table \in w.tables
      BY <1>7, <2>3, <3>1
    <3>3. ASSUME NEW o \in Bo PROVE tlb'[w.id].page[o] \in w.pages[o]
      BY <1>7, <2>1, <2>3, <3>1
    <3>. QED
      BY <1>1, <2>1, <3>2, <3>3
  <2>4. CASE c.id = w.id /\ r # q
    <3>1. q = Other(r) /\ r = Other(q)
      BY <2>4, Others
    <3>2. PICK h \in Nat : h = done[q] + 1
      BY <1>2
    <3>3. h \in Pending(Other(r)) /\ IsJob(Other(r), h, w.id)
      BY <1>1, <1>4, <2>4, <3>1, <3>2 DEF IsJob, Retired
    <3>4. Behind(q, h, n)
      BY <1>7, <3>1, <3>3 DEF Held
    <3>5. Waits(q, done[q] + 1) <= done[Other(q)]
      BY <1>1 DEF WaitsMet
    <3>6. n <= done[r]
      BY <3>1, <3>2, <3>4, <3>5, HeadBehind
    <3>. QED
      BY <1>2, <1>3, <2>4, <3>6
  <2>. QED
    BY <2>2, <2>3, <2>4
<1>. QED
  BY <1>1, <1>2, <1>5, <1>6, <1>7, HeldStays

\* A command is emitted.
LEMMA HeldEmit ==
  ASSUME Typed, NEW q \in Ring, NEW want, NEW c, Emitted(q, want, c), UNCHANGED <<base, tlb>>,
         NEW r \in Ring, NEW n \in Nat, NEW f \in Nat, f > 0, f <= emitted[r],
         NEW w \in Session, Held(r, n, f, w),
         c.op = "job" /\ c.id = w.id /\ r = q => n <= emitted[r] \/ ~c.flush,
         c.op = "job" /\ c.id = w.id /\ r # q =>
           \A m \in Nat : m = emitted[q] + 1 => Behind(q, m, n)'
  PROVE  Held(r, n, f, w)'
<1>1. /\ \A s \in Ring : done[s] \in Nat /\ emitted[s] \in Nat
      /\ Other(r) \in Ring /\ Other(q) \in Ring
  BY QueueTypes, Others
<1>2. /\ emitted'[q] = emitted[q] + 1 /\ UNCHANGED running
      /\ \A s \in Ring : done'[s] = done[s] /\ (s # q => emitted'[s] = emitted[s])
  BY Others DEF Emitted, Same
<1>3. Goes
  BY GoesEmitted
<1>4. Begun(r, f)' <=> Begun(r, f)
  BY <1>2 DEF Begun
<1>5. ASSUME NEW s \in Ring, NEW m \in Pending(s)', m > emitted[s]
      PROVE  s = q /\ m \in Nat /\ m = emitted[q] + 1 /\ Command(s, m)' = c
  <2>1. s = q /\ m \in Nat /\ m = emitted[q] + 1
    BY <1>1, <1>2, <1>5 DEF Pending
  <2>. QED
    BY <2>1 DEF Emitted
<1>6. ASSUME NEW m \in Pending(r)', m > emitted[r], m <= n, IsJob(r, m, w.id)'
      PROVE  ~Command(r, m)'.flush
  <2>1. r = q /\ m \in Nat /\ m = emitted[q] + 1 /\ Command(r, m)' = c
    BY <1>5, <1>6
  <2>2. c.op = "job" /\ c.id = w.id
    BY <1>6, <2>1 DEF IsJob
  <2>3. ~(n <= emitted[r])
    BY <1>1, <1>6, <2>1
  <2>. QED
    BY <2>1, <2>2, <2>3
<1>7. ASSUME NEW m \in Pending(Other(r))', m > emitted[Other(r)], IsJob(Other(r), m, w.id)'
      PROVE  Behind(Other(r), m, n)'
  <2>1. Other(r) = q /\ m \in Nat /\ m = emitted[q] + 1 /\ Command(Other(r), m)' = c
    BY <1>1, <1>5, <1>7
  <2>2. c.op = "job" /\ c.id = w.id /\ r # q
    BY <1>7, <2>1, Others DEF IsJob
  <2>. QED
    BY <2>1, <2>2
<1>. QED
  BY <1>3, <1>4, <1>6, <1>7, HeldStays DEF Held

-----------------------------------------------------------------------------
(* The invariant: what holds of the jobs, the ids, the tables and the submission while *)
(* nothing has failed                                                                  *)

\* Command n of the DMA ring writes the entry of a buffer.
Sets(n, v, o) == Command(Dma, n).op = "pte" /\ Command(Dma, n).vm = v /\ Command(Dma, n).bo = o

\* Fence u stands for the write of where the buffer is.
Puts(u, v, o) ==
  IF u <= done[Dma] THEN pte[v][o] = place[o]
  ELSE u \in Pending(Dma) /\ Sets(u, v, o) /\ Command(Dma, u).to = place[o]

\* The reservation of the directory has dropped the update after the last move of a table.
Dropped(v) == pt[v] # 1 /\ pdfence[v] = 0

\* A table has moved since the address space noted a flush.
TableMoved(v, flushed) ==
  pt[v] # 1 /\ (addr[v] # pt[v] \/ pdfence[v] = 0 \/ pdfence[v] > flushed)

\* The last job under an id is the last of its ring, and behind those of the other.
IdOrder ==
  \A r \in Ring : \A n \in Pending(r) : \A i \in Id, q \in Ring, m \in Nat :
    IsJob(r, n, i) /\ active[i].ring = q /\ active[i].seq = m
      => IF q = r THEN n <= m ELSE Behind(q, m, n)

\* A job has been given the directory, the table and the places that are still right, and is
\* behind the write of the directory.
Current(r, n) ==
  LET c == Command(r, n)
  IN /\ c.pd = pd[c.vm] /\ addr[c.vm] = pt[c.vm] /\ n <= ids[c.vm][r].use
     /\ \A u \in Nat : u = pdfence[c.vm] => After(r, n, u)
     /\ \A o \in Bo : c.at[o] \in {0, place[o]}

\* Every job is current until it ends.
JobsAreCurrent ==
  \A r \in Ring : \A n \in Pending(r) : Command(r, n).op = "job" => Current(r, n)

\* What a job allows its id to have cached.
Wants(w, r, n) ==
  LET c == Command(r, n)
  IN /\ w.id = c.id /\ w.vm = c.vm /\ w.pd = c.pd
     /\ 0 \in w.tables /\ pt[c.vm] \in w.tables /\ (Dropped(c.vm) => w.tables = Nat)
     /\ \A o \in Bo : /\ 0 \in w.pages[o] /\ place[o] \in w.pages[o]
                      /\ c.at[o] = 0 => w.pages[o] = Nat

\* For each thing a job allows its id to have cached, its ring holds a session from an earlier
\* flush, or its own, to the job.
JobsOwnIds ==
  \A r \in Ring : \A n \in Pending(r) : \A w \in Session :
    Command(r, n).op = "job" /\ Wants(w, r, n) => \E f \in 1 .. n : Held(r, n, f, w)

\* What an address space that still has its id has cached under it, as far as it has noted.
Noted(v, r, o) ==
  mapped[v][o] /\ status[v][o] = "done" /\ last_pt_update[v][o] <= ids[v][r].flushed

\* What the address space allows the id it was last given to have cached.
Keeps(w, v, r) ==
  LET x == ids[v][r]
  IN /\ w.id = x.id /\ w.vm = v /\ w.pd = x.pd
     /\ 0 \in w.tables /\ pt[v] \in w.tables /\ (TableMoved(v, x.flushed) => w.tables = Nat)
     /\ \A o \in Bo : /\ 0 \in w.pages[o] /\ place[o] \in w.pages[o]
                      /\ ~Noted(v, r, o) => w.pages[o] = Nat

\* Nothing else has been given that id since: whatever job comes next, it finds the id as its
\* last job has left it.
IdsAreKept ==
  \A v \in Vm, r \in Ring, w \in Session :
    StillValid(v, r) /\ Keeps(w, v, r)
      => \E f \in 1 .. ids[v][r].use : \A n \in Nat : n > emitted[r] => Held(r, n, f, w)

\* The entry of a buffer is written before a job that uses it, and not again before it ends
\* but with the same.
Written(r, n, o) ==
  LET c == Command(r, n)
  IN \E u \in Nat :
       /\ After(r, n, u) /\ Puts(u, c.vm, o)
       /\ \A m \in Pending(Dma) :
            m > u /\ Sets(m, c.vm, o) => Command(Dma, m).to = place[o] \/ Before(r, n, m)

\* Every buffer of every job has its entry written.
EntriesAreWritten ==
  \A r \in Ring : \A n \in Pending(r) : \A o \in Bo :
    Command(r, n).op = "job" /\ Command(r, n).at[o] # 0 => Written(r, n, o)

\* A mapping that is up to date is written by its last update.
Linked(v, o) ==
  /\ o \notin freed[v]
  /\ \A u \in Nat : u = last_pt_update[v][o] =>
       Puts(u, v, o) /\ \A m \in Pending(Dma) : m > u => ~Sets(m, v, o)

\* Every mapping that is on no list is up to date.
MappingsAreLinked ==
  \A v \in Vm, o \in Bo : mapped[v][o] /\ status[v][o] = "done" => Linked(v, o)

\* A directory that should hold its table is written by its last update.
DirectoryLinked(v) ==
  \A u \in Nat : u = pdfence[v] =>
    IF u <= done[Dma] THEN pde[v] = pt[v]
    ELSE u \in Pending(Dma) /\ Command(Dma, u).op = "pde" /\ Command(Dma, u).vm = v

\* Every directory the driver believes written is, and only with where the table is.
DirectoriesAreLinked ==
  /\ \A v \in Vm : addr[v] = pt[v] => DirectoryLinked(v)
  /\ \A n \in Pending(Dma) :
       Command(Dma, n).op = "pde" => Command(Dma, n).to = pt[Command(Dma, n).vm]

\* What the steps of a submission have done.
SubmissionIsOrdered ==
  cs # Idle =>
    /\ \A o \in cs.use \cup cs.todo : mapped[cs.vm][o]
    /\ \A o \in cs.use \ cs.todo : status[cs.vm][o] = "done"
    /\ cs.step # "directory" /\ cs.ring # "none" => addr[cs.vm] = pt[cs.vm]
    /\ cs.step \in {"update", "invalids", "schedule"} => freed[cs.vm] = {}
    /\ cs.step \in {"invalids", "schedule"} => cs.todo = {}

\* The parts: what the rings order,
Ordered == WaitsMet /\ KnownIsKept /\ IdOrder

\* what the jobs rest on,
Jobs == JobsAreCurrent /\ JobsOwnIds /\ EntriesAreWritten

\* what the address spaces rest on,
Tables == MappingsAreLinked /\ DirectoriesAreLinked

\* and all of it.
Intact == Ordered /\ Jobs /\ IdsAreKept /\ Tables /\ SubmissionIsOrdered

\* The invariant: as long as no update and no submission has failed.
VmInv == fails = 0 => Intact

-----------------------------------------------------------------------------
(* What a step leaves alone *)

\* No job is added.
NoNewJob ==
  \A r \in Ring, m \in Nat : m \in Pending(r)' /\ m > emitted[r] => Command(r, m)'.op # "job"

\* An old job and what it is.
LEMMA OldJob ==
  ASSUME Typed, Goes, NoNewJob, NEW r \in Ring, NEW n \in Pending(r)', Command(r, n)'.op = "job"
  PROVE  /\ n \in Pending(r) /\ n \in Nat /\ n > done'[r] /\ n > done[r] /\ n <= emitted[r]
         /\ Command(r, n)' = Command(r, n) /\ Command(r, n) \in RunsJob
<1>1. n \in Nat /\ emitted[r] \in Nat
  BY QueueTypes DEF Pending, Goes
<1>2. n <= emitted[r]
  BY <1>1 DEF NoNewJob
<1>3. /\ n \in Pending(r) /\ n \in Nat /\ n > done'[r] /\ n > done[r]
      /\ Command(r, n)' = Command(r, n)
  BY <1>2, OldCommand
<1>4. Command(r, n) \in Cmd /\ Command(r, n).op = "job"
  BY <1>3, QueueTypes
<1>5. Command(r, n) \in RunsJob
  BY <1>4 DEF Cmd, WritesDirectory, WritesEntry
<1>. QED
  BY <1>2, <1>3, <1>5

\* A step that emits nothing emits no job,
LEMMA NoneEmitted ==
  ASSUME Typed, Goes, UNCHANGED emitted
  PROVE  NoNewJob
<1>1. ASSUME NEW r \in Ring, NEW m \in Nat, m \in Pending(r)', m > emitted[r]
      PROVE  FALSE
  <2>1. emitted'[r] = emitted[r] /\ emitted[r] \in Nat /\ done'[r] \in Nat
    BY QueueTypes DEF Goes
  <2>. QED
    BY <1>1, <2>1 DEF Pending
<1>. QED
  BY <1>1 DEF NoNewJob

\* and neither does one that emits an update.
LEMMA NoJobEmitted ==
  ASSUME Typed, NEW q \in Ring, NEW want, NEW c, c.op # "job", Emitted(q, want, c)
  PROVE  NoNewJob
<1>1. ASSUME NEW r \in Ring, NEW m \in Nat, m \in Pending(r)', m > emitted[r]
      PROVE  Command(r, m)'.op # "job"
  <2>1. /\ emitted'[q] = emitted[q] + 1 /\ done'[r] \in Nat /\ emitted[r] \in Nat
        /\ (r # q => emitted'[r] = emitted[r])
    <3>1. Goes
      BY GoesEmitted
    <3>. QED
      BY <3>1, Others, QueueTypes DEF Emitted, Same, Goes
  <2>2. r = q /\ m = emitted[q] + 1
    BY <1>1, <2>1 DEF Pending
  <2>. QED
    BY <2>2 DEF Emitted
<1>. QED
  BY <1>1 DEF NoNewJob

\* Ids stay in order while no job is emitted.
LEMMA IdOrderStays ==
  ASSUME Typed, IdOrder, Goes, NoNewJob, UNCHANGED active
  PROVE  IdOrder'
<1>1. ASSUME NEW r \in Ring, NEW n \in Pending(r)', NEW i \in Id, NEW q \in Ring, NEW m \in Nat,
             IsJob(r, n, i)', active[i].ring = q, active[i].seq = m
      PROVE  IF q = r THEN n <= m ELSE Behind(q, m, n)'
  <2>1. Command(r, n)'.op = "job"
    BY <1>1 DEF IsJob
  <2>2. n \in Pending(r) /\ n \in Nat /\ Command(r, n)' = Command(r, n)
    BY <2>1, OldJob
  <2>3. IF q = r THEN n <= m ELSE Behind(q, m, n)
    BY <1>1, <2>2 DEF IdOrder, IsJob
  <2>. QED
    BY <2>2, <2>3, BehindStays
<1>. QED
  BY <1>1 DEF IdOrder

\* A job stays current while what it was given stays.
LEMMA CurrentStays ==
  ASSUME Typed, Goes, NEW r \in Ring, NEW n \in Nat, Command(r, n)' = Command(r, n),
         NEW c \in RunsJob, c = Command(r, n), Current(r, n), n > done'[r],
         pd'[c.vm] = pd[c.vm], addr'[c.vm] = addr[c.vm], pt'[c.vm] = pt[c.vm],
         ids'[c.vm][r].use = ids[c.vm][r].use \/ n <= ids'[c.vm][r].use,
         pdfence'[c.vm] = pdfence[c.vm] \/ pdfence'[c.vm] = 0,
         \A o \in Bo : c.at[o] # 0 => place'[o] = place[o]
  PROVE  Current(r, n)'
<1>1. /\ c.vm \in Vm /\ c.at \in [Bo -> Nat] /\ pdfence[c.vm] \in Nat
  BY DEF RunsJob, Typed, Shapes, MapShape
<1>2. /\ c.pd = pd[c.vm] /\ addr[c.vm] = pt[c.vm] /\ n <= ids[c.vm][r].use
      /\ \A u \in Nat : u = pdfence[c.vm] => After(r, n, u)
      /\ \A o \in Bo : c.at[o] \in {0, place[o]}
  BY DEF Current
<1>3. ASSUME NEW u \in Nat, u = pdfence'[c.vm] PROVE After(r, n, u)'
  <2>1. CASE pdfence'[c.vm] = pdfence[c.vm]
    BY <1>2, <1>3, <2>1, AfterStays
  <2>2. CASE u = 0
    <3>1. done'[Other(r)] \in Nat /\ done'[r] \in Nat
      BY Others DEF Goes
    <3>2. 0 <= done'[Other(r)] /\ 0 < n
      BY <3>1
    <3>. QED
      BY <2>2, <3>2 DEF After, Behind
  <2>. QED
    BY <1>3, <2>1, <2>2
<1>. QED
  BY <1>2, <1>3 DEF Current

\* A job allows no more than it did,
LEMMA WantsStay ==
  ASSUME Typed, NEW r \in Ring, NEW n \in Nat, Command(r, n)' = Command(r, n),
         NEW c \in RunsJob, c = Command(r, n), NEW w \in Session, Wants(w, r, n)',
         pt'[c.vm] = pt[c.vm], Dropped(c.vm) => Dropped(c.vm)',
         \A o \in Bo : c.at[o] # 0 => place'[o] = place[o]
  PROVE  Wants(w, r, n)
<1>1. /\ w.id = c.id /\ w.vm = c.vm /\ w.pd = c.pd
      /\ 0 \in w.tables /\ pt[c.vm] \in w.tables /\ (Dropped(c.vm) => w.tables = Nat)
      /\ \A o \in Bo : /\ 0 \in w.pages[o] /\ place'[o] \in w.pages[o]
                       /\ c.at[o] = 0 => w.pages[o] = Nat
  <2>1. Dropped(c.vm)' => w.tables = Nat
    BY DEF Wants, Dropped
  <2>. QED
    BY <2>1 DEF Wants
<1>2. \A o \in Bo : place[o] \in Nat
  BY DEF Typed, Shapes, MapShape
<1>3. ASSUME NEW o \in Bo PROVE place[o] \in w.pages[o]
  BY <1>1, <1>2
<1>. QED
  BY <1>1, <1>3 DEF Wants

\* and neither does an address space that keeps its id.
LEMMA KeepsStay ==
  ASSUME Typed, NEW v \in Vm, NEW r \in Ring, NEW w \in Session, Keeps(w, v, r)',
         ids'[v][r] = ids[v][r],
         NEW k \in Nat, k = ids[v][r].flushed,
         \/ TableMoved(v, k)'
         \/ pt'[v] = pt[v] /\ (TableMoved(v, k) => TableMoved(v, k)'),
         \A o \in Bo : Noted(v, r, o)' => Noted(v, r, o) /\ place'[o] = place[o]
  PROVE  Keeps(w, v, r)
<1>1. pt[v] \in Nat /\ \A o \in Bo : place[o] \in Nat
  BY DEF Typed, Shapes, MapShape
<1>2. /\ w.id = ids[v][r].id /\ w.vm = v /\ w.pd = ids[v][r].pd
      /\ 0 \in w.tables /\ pt'[v] \in w.tables
      /\ \A o \in Bo : /\ 0 \in w.pages[o] /\ place'[o] \in w.pages[o]
                       /\ ~Noted(v, r, o)' => w.pages[o] = Nat
  BY DEF Keeps
<1>3. TableMoved(v, k)' => w.tables = Nat
  BY DEF Keeps, TableMoved
<1>4. pt[v] \in w.tables /\ (TableMoved(v, k) => w.tables = Nat)
  BY <1>1, <1>2, <1>3
<1>5. ASSUME NEW o \in Bo
      PROVE  place[o] \in w.pages[o] /\ (~Noted(v, r, o) => w.pages[o] = Nat)
  BY <1>1, <1>2
<1>. QED
  BY <1>2, <1>4, <1>5 DEF Keeps

-----------------------------------------------------------------------------
(* Entries and directories *)

\* No command of the DMA ring retires that writes.
NoWrite == \A n \in Pending(Dma) : n <= done'[Dma] => Command(Dma, n).op = "job"

\* A write of where the buffer is stays that while the buffer stays,
LEMMA PutsStays ==
  ASSUME Typed, Goes, NoWrite, NEW u \in Nat, NEW v \in Vm, NEW o \in Bo, Puts(u, v, o),
         pte'[v][o] = pte[v][o], place'[o] = place[o]
  PROVE  Puts(u, v, o)'
<1>1. /\ Dma \in Ring /\ done[Dma] \in Nat /\ done'[Dma] \in Nat /\ done[Dma] <= done'[Dma]
      /\ emitted[Dma] \in Nat /\ emitted'[Dma] \in Nat /\ emitted[Dma] <= emitted'[Dma]
  BY QueueTypes DEF Ring, Goes
<1>2. CASE u <= done[Dma]
  BY <1>1, <1>2 DEF Puts
<1>3. CASE ~(u <= done[Dma])
  <2>1. u \in Pending(Dma) /\ Sets(u, v, o) /\ Command(Dma, u).to = place[o]
    BY <1>3 DEF Puts
  <2>2. ~(u <= done'[Dma])
    BY <2>1 DEF NoWrite, Sets
  <2>3. u \in Pending(Dma)' /\ Command(Dma, u)' = Command(Dma, u)
    BY <1>1, <2>1, <2>2 DEF Pending, Goes
  <2>. QED
    BY <2>1, <2>2, <2>3 DEF Puts, Sets
<1>. QED
  BY <1>2, <1>3

\* so does the last update of a mapping while no other is emitted,
LEMMA LinkedStays ==
  ASSUME Typed, Goes, NoWrite, NEW v \in Vm, NEW o \in Bo, Linked(v, o),
         pte'[v][o] = pte[v][o], place'[o] = place[o], o \notin freed'[v],
         last_pt_update'[v][o] = last_pt_update[v][o],
         \A m \in Pending(Dma)' : m > emitted[Dma] => ~Sets(m, v, o)'
  PROVE  Linked(v, o)'
<1>1. Dma \in Ring /\ emitted[Dma] \in Nat /\ done'[Dma] \in Nat
  BY QueueTypes DEF Ring, Goes
<1>2. ASSUME NEW u \in Nat, u = last_pt_update[v][o]
      PROVE  Puts(u, v, o)' /\ \A m \in Pending(Dma)' : m > u => ~Sets(m, v, o)'
  <2>1. Puts(u, v, o) /\ \A m \in Pending(Dma) : m > u => ~Sets(m, v, o)
    BY <1>2 DEF Linked
  <2>2. Puts(u, v, o)'
    BY <2>1, PutsStays
  <2>3. ASSUME NEW m \in Pending(Dma)', m > u
        PROVE  ~Sets(m, v, o)'
    <3>1. m \in Nat
      BY <1>1 DEF Pending
    <3>2. CASE m <= emitted[Dma]
      <4>1. m \in Pending(Dma) /\ Command(Dma, m)' = Command(Dma, m)
        BY <1>1, <3>2, OldCommand
      <4>. QED
        BY <2>1, <2>3, <4>1 DEF Sets
    <3>. QED
      BY <1>1, <3>1, <3>2
  <2>. QED
    BY <2>2, <2>3
<1>. QED
  BY <1>2 DEF Linked

\* so does the entry of a job while only the same is written behind it,
LEMMA WrittenStays ==
  ASSUME Typed, Goes, NoWrite, NEW r \in Ring, NEW n \in Nat, Command(r, n)' = Command(r, n),
         NEW c \in RunsJob, c = Command(r, n), NEW o \in Bo, Written(r, n, o),
         pte'[c.vm][o] = pte[c.vm][o], place'[o] = place[o],
         \A m \in Pending(Dma)' : m > emitted[Dma] /\ Sets(m, c.vm, o)'
                                    => Command(Dma, m)'.to = place[o] \/ Before(r, n, m)'
  PROVE  Written(r, n, o)'
<1>1. Dma \in Ring /\ emitted[Dma] \in Nat /\ done'[Dma] \in Nat /\ c.vm \in Vm
  BY QueueTypes DEF Ring, Goes, RunsJob
<1>2. PICK u \in Nat :
        /\ After(r, n, u) /\ Puts(u, c.vm, o)
        /\ \A m \in Pending(Dma) :
             m > u /\ Sets(m, c.vm, o) => Command(Dma, m).to = place[o] \/ Before(r, n, m)
  BY DEF Written
<1>3. After(r, n, u)'
  BY <1>2, AfterStays
<1>4. Puts(u, c.vm, o)'
  BY <1>1, <1>2, PutsStays
<1>5. ASSUME NEW m \in Pending(Dma)', m > u, Sets(m, c.vm, o)'
      PROVE  Command(Dma, m)'.to = place'[o] \/ Before(r, n, m)'
  <2>1. m \in Nat
    BY <1>1 DEF Pending
  <2>2. CASE m <= emitted[Dma]
    <3>1. m \in Pending(Dma) /\ Command(Dma, m)' = Command(Dma, m)
      BY <1>1, <2>2, OldCommand
    <3>2. Command(Dma, m).to = place[o] \/ Before(r, n, m)
      BY <1>2, <1>5, <3>1 DEF Sets
    <3>. QED
      BY <2>1, <3>1, <3>2, BeforeStays
  <2>. QED
    BY <1>1, <1>5, <2>1, <2>2
<1>. QED
  BY <1>3, <1>4, <1>5 DEF Written

\* and so does the directory.
LEMMA DirectoryStays ==
  ASSUME Typed, Goes, NoWrite, NEW v \in Vm, DirectoryLinked(v),
         pde'[v] = pde[v], pt'[v] = pt[v],
         pdfence'[v] = pdfence[v] \/ (pdfence'[v] = 0 /\ pdfence[v] <= done[Dma])
  PROVE  DirectoryLinked(v)'
<1>1. /\ Dma \in Ring /\ done[Dma] \in Nat /\ done'[Dma] \in Nat /\ done[Dma] <= done'[Dma]
      /\ emitted[Dma] \in Nat /\ emitted'[Dma] \in Nat /\ emitted[Dma] <= emitted'[Dma]
  BY QueueTypes DEF Ring, Goes
<1>2. PICK u \in Nat : u = pdfence[v]
  BY DEF Typed, Shapes, MapShape
<1>3. CASE u <= done[Dma]
  <2>1. pde'[v] = pt'[v] /\ pdfence'[v] <= done'[Dma]
    BY <1>1, <1>2, <1>3 DEF DirectoryLinked
  <2>. QED
    BY <2>1 DEF DirectoryLinked
<1>4. CASE ~(u <= done[Dma])
  <2>1. u \in Pending(Dma) /\ Command(Dma, u).op = "pde" /\ Command(Dma, u).vm = v
    BY <1>2, <1>4 DEF DirectoryLinked
  <2>2. ~(u <= done'[Dma]) /\ pdfence'[v] = u
    BY <1>2, <1>4, <2>1 DEF NoWrite
  <2>3. u \in Pending(Dma)' /\ Command(Dma, u)' = Command(Dma, u)
    BY <1>1, <2>1, <2>2 DEF Pending, Goes
  <2>. QED
    BY <2>1, <2>2, <2>3 DEF DirectoryLinked
<1>. QED
  BY <1>3, <1>4

\* Directories are written with where their tables are.
LEMMA DirectoriesStay ==
  ASSUME Typed, Goes, NoWrite, DirectoriesAreLinked, UNCHANGED pde,
         \A v \in Vm : addr'[v] = pt'[v] =>
           \/ DirectoryLinked(v)'
           \/ /\ addr[v] = pt[v] /\ pt'[v] = pt[v]
              /\ pdfence'[v] = pdfence[v] \/ (pdfence'[v] = 0 /\ pdfence[v] <= done[Dma]),
         \A m \in Pending(Dma)' : Command(Dma, m)'.op = "pde" =>
           IF m > emitted[Dma] THEN Command(Dma, m)'.to = pt'[Command(Dma, m)'.vm]
           ELSE pt'[Command(Dma, m).vm] = pt[Command(Dma, m).vm]
  PROVE  DirectoriesAreLinked'
<1>1. ASSUME NEW v \in Vm, addr'[v] = pt'[v]
      PROVE  DirectoryLinked(v)'
  BY <1>1, DirectoryStays DEF DirectoriesAreLinked
<1>2. ASSUME NEW m \in Pending(Dma)', Command(Dma, m)'.op = "pde"
      PROVE  Command(Dma, m)'.to = pt'[Command(Dma, m)'.vm]
  <2>1. CASE m > emitted[Dma]
    BY <1>2, <2>1
  <2>2. CASE ~(m > emitted[Dma])
    <3>1. Dma \in Ring /\ m \in Nat /\ emitted[Dma] \in Nat
      BY QueueTypes DEF Ring, Goes, Pending
    <3>2. m \in Pending(Dma) /\ Command(Dma, m)' = Command(Dma, m)
      BY <2>2, <3>1, OldCommand
    <3>. QED
      BY <1>2, <2>2, <3>2 DEF DirectoriesAreLinked
  <2>. QED
    BY <2>1, <2>2
<1>. QED
  BY <1>1, <1>2 DEF DirectoriesAreLinked

\* The first command of the DMA ring writes an entry or a directory.
LEMMA PutsWrite ==
  ASSUME Typed, Write(Dma), NEW u \in Nat, NEW v \in Vm, NEW o \in Bo, Puts(u, v, o),
         done[Dma] + 1 > u /\ Sets(done[Dma] + 1, v, o)
           => Command(Dma, done[Dma] + 1).to = place[o]
  PROVE  Puts(u, v, o)'
<1>1. PICK c \in Cmd :
        /\ c = Command(Dma, done[Dma] + 1)
        /\ \/ /\ c.op = "pde" /\ c.vm \in Vm /\ c.to \in Nat
              /\ pde' = [pde EXCEPT ![c.vm] = c.to] /\ UNCHANGED pte
           \/ /\ c.op = "pte" /\ c.vm \in Vm /\ c.bo \in Bo /\ c.to \in Nat
              /\ pte' = [pte EXCEPT ![c.vm][c.bo] = c.to] /\ UNCHANGED pde
  BY WriteIs DEF Ring
<1>2. /\ Retired(Dma) /\ Goes /\ UNCHANGED <<emitted, places>> /\ Dma \in Ring
  BY WriteIs DEF Ring
<1>3. /\ done[Dma] \in Nat /\ emitted[Dma] \in Nat /\ done'[Dma] = done[Dma] + 1
      /\ emitted'[Dma] = emitted[Dma] /\ place' = place
      /\ pte \in [Vm -> [Bo -> Nat]]
  BY <1>2, QueueTypes DEF Retired, places, Typed, Shapes, MapShape
<1>4. pte'[v][o] = IF Sets(done[Dma] + 1, v, o) THEN c.to ELSE pte[v][o]
  <2>1. CASE c.op = "pde"
    <3>1. pte' = pte /\ ~Sets(done[Dma] + 1, v, o)
      BY <1>1, <2>1 DEF Sets
    <3>. QED
      BY <3>1
  <2>2. CASE c.op = "pte"
    <3>1. c.vm \in Vm /\ c.bo \in Bo /\ c.to \in Nat /\ pte' = [pte EXCEPT ![c.vm][c.bo] = c.to]
      BY <1>1, <2>2
    <3>2. pte'[v][o] = IF c.vm = v /\ c.bo = o THEN c.to ELSE pte[v][o]
      BY <1>3, <3>1
    <3>. QED
      BY <1>1, <2>2, <3>2 DEF Sets
  <2>. QED
    BY <1>1, <2>1, <2>2
<1>5. CASE u <= done[Dma]
  <2>1. pte[v][o] = place[o] /\ done[Dma] + 1 > u /\ u <= done'[Dma]
    BY <1>3, <1>5 DEF Puts
  <2>2. pte'[v][o] = place'[o]
    BY <1>1, <1>3, <1>4, <2>1
  <2>. QED
    BY <2>1, <2>2 DEF Puts
<1>6. CASE u = done[Dma] + 1
  <2>1. Sets(u, v, o) /\ Command(Dma, u).to = place[o]
    BY <1>3, <1>6 DEF Puts
  <2>2. pte'[v][o] = place'[o] /\ u <= done'[Dma]
    BY <1>1, <1>3, <1>4, <1>6, <2>1
  <2>. QED
    BY <2>2 DEF Puts
<1>7. CASE u > done[Dma] + 1
  <2>1. u \in Pending(Dma) /\ Sets(u, v, o) /\ Command(Dma, u).to = place[o]
    BY <1>3, <1>7 DEF Puts
  <2>2. u > done'[Dma] /\ u \in Pending(Dma)' /\ Command(Dma, u)' = Command(Dma, u)
    BY <1>2, <1>3, <1>7, <2>1 DEF Goes, Pending
  <2>. QED
    BY <1>3, <2>1, <2>2 DEF Puts, Sets
<1>. QED
  BY <1>3, <1>5, <1>6, <1>7

\* A write that retires leaves mappings and directories linked: it was the last update, or
\* another one comes.
LEMMA TablesWrite ==
  ASSUME Typed, Write(Dma), Tables
  PROVE  Tables'
<1>1. /\ Retired(Dma) /\ Goes /\ UNCHANGED <<emitted, places, maps, addr, pdfence>> /\ Dma \in Ring
  BY WriteIs DEF Ring
<1>2. /\ done[Dma] \in Nat /\ emitted[Dma] \in Nat /\ done'[Dma] = done[Dma] + 1
      /\ emitted'[Dma] = emitted[Dma] /\ done[Dma] + 1 \in Pending(Dma)
  BY <1>1, QueueTypes DEF Retired
<1>3. \A m \in Pending(Dma)' : m \in Pending(Dma) /\ m \in Nat /\ Command(Dma, m)' = Command(Dma, m)
  <2>1. ASSUME NEW m \in Pending(Dma)' PROVE m <= emitted[Dma]
    BY <1>2 DEF Pending
  <2>. QED
    BY <1>1, <2>1, OldCommand
<1>4. ASSUME NEW v \in Vm, NEW o \in Bo, mapped'[v][o], status'[v][o] = "done"
      PROVE  Linked(v, o)'
  <2>1. Linked(v, o)
    BY <1>1, <1>4 DEF Tables, MappingsAreLinked, maps
  <2>2. UNCHANGED <<freed, last_pt_update>>
    BY <1>1 DEF maps
  <2>3. ASSUME NEW u \in Nat, u = last_pt_update[v][o]
        PROVE  Puts(u, v, o)' /\ \A m \in Pending(Dma)' : m > u => ~Sets(m, v, o)'
    <3>1. Puts(u, v, o) /\ \A m \in Pending(Dma) : m > u => ~Sets(m, v, o)
      BY <2>1, <2>3 DEF Linked
    <3>2. Puts(u, v, o)'
      BY <1>2, <3>1, PutsWrite
    <3>. QED
      BY <1>3, <3>1, <3>2 DEF Sets
  <2>. QED
    BY <2>1, <2>2, <2>3 DEF Linked
<1>5. PICK c \in Cmd :
        /\ c = Command(Dma, done[Dma] + 1)
        /\ \/ /\ c.op = "pde" /\ c.vm \in Vm /\ c.to \in Nat
              /\ pde' = [pde EXCEPT ![c.vm] = c.to]
           \/ c.op = "pte" /\ UNCHANGED pde
  BY WriteIs DEF Ring
<1>6. ASSUME NEW v \in Vm, addr'[v] = pt'[v]
      PROVE  DirectoryLinked(v)'
  <2>1. DirectoryLinked(v) /\ pt' = pt /\ pdfence' = pdfence /\ pde \in [Vm -> Nat]
    BY <1>1, <1>6 DEF Tables, DirectoriesAreLinked, places, Typed, Shapes, MapShape
  <2>2. PICK u \in Nat : u = pdfence[v]
    BY DEF Typed, Shapes, MapShape
  <2>3. pde'[v] = IF c.op = "pde" /\ c.vm = v THEN pt[v] ELSE pde[v]
    <3>1. c.op = "pde" => c.to = pt[c.vm]
      BY <1>2, <1>5 DEF Tables, DirectoriesAreLinked
    <3>2. CASE c.op = "pde"
      <4>1. c.vm \in Vm /\ c.to \in Nat /\ pde' = [pde EXCEPT ![c.vm] = c.to]
        BY <1>5, <3>2
      <4>. QED
        BY <2>1, <3>1, <3>2, <4>1
    <3>3. CASE c.op # "pde"
      BY <1>5, <3>3
    <3>. QED
      BY <3>2, <3>3
  <2>4. CASE u <= done[Dma]
    <3>1. pde'[v] = pt'[v] /\ u <= done'[Dma]
      BY <1>2, <2>1, <2>2, <2>3, <2>4 DEF DirectoryLinked
    <3>. QED
      BY <2>1, <2>2, <3>1 DEF DirectoryLinked
  <2>5. CASE u = done[Dma] + 1
    <3>1. c.op = "pde" /\ c.vm = v /\ u <= done'[Dma]
      BY <1>2, <1>5, <2>1, <2>2, <2>5 DEF DirectoryLinked
    <3>2. pde'[v] = pt'[v]
      BY <2>1, <2>3, <3>1
    <3>. QED
      BY <2>1, <2>2, <3>1, <3>2 DEF DirectoryLinked
  <2>6. CASE u > done[Dma] + 1
    <3>1. u \in Pending(Dma) /\ Command(Dma, u).op = "pde" /\ Command(Dma, u).vm = v
      BY <1>2, <2>1, <2>2, <2>6 DEF DirectoryLinked
    <3>2. u > done'[Dma] /\ u \in Pending(Dma)' /\ Command(Dma, u)' = Command(Dma, u)
      BY <1>1, <1>2, <2>6, <3>1 DEF Goes, Pending
    <3>. QED
      BY <1>2, <2>1, <2>2, <3>1, <3>2 DEF DirectoryLinked
  <2>. QED
    BY <1>2, <2>4, <2>5, <2>6
<1>7. ASSUME NEW m \in Pending(Dma)', Command(Dma, m)'.op = "pde"
      PROVE  Command(Dma, m)'.to = pt'[Command(Dma, m)'.vm]
  BY <1>1, <1>3, <1>7 DEF Tables, DirectoriesAreLinked, places
<1>. QED
  BY <1>4, <1>6, <1>7 DEF Tables, MappingsAreLinked, DirectoriesAreLinked

-----------------------------------------------------------------------------
(* Jobs and ids *)

\* There is room in the session for what may be found now.
Roomy(w) ==
  /\ 0 \in w.tables /\ pt[w.vm] \in w.tables
  /\ \A o \in Bo : 0 \in w.pages[o] /\ place[o] \in w.pages[o]

\* What a job rests on stays.
LeftAlone(r, n) ==
  LET c == Command(r, n)
  IN /\ pd'[c.vm] = pd[c.vm] /\ addr'[c.vm] = addr[c.vm] /\ pt'[c.vm] = pt[c.vm]
     /\ ids'[c.vm][r].use = ids[c.vm][r].use \/ n <= ids'[c.vm][r].use
     /\ pdfence'[c.vm] = pdfence[c.vm] \/ pdfence'[c.vm] = 0
     /\ \A o \in Bo : c.at[o] # 0 => place'[o] = place[o]

\* A job that stays keeps its place, its table and its session,
LEMMA JobStays ==
  ASSUME Typed, Goes, JobsAreCurrent, JobsOwnIds, NEW r \in Ring, NEW n \in Pending(r)',
         n <= emitted[r], Command(r, n).op = "job", LeftAlone(r, n),
         \A f \in Nat, w \in Session :
           f > 0 /\ f <= n /\ Roomy(w) /\ w.id = Command(r, n).id /\ Held(r, n, f, w)
             => Held(r, n, f, w)'
  PROVE  /\ Current(r, n)'
         /\ \A w \in Session : Wants(w, r, n)' => \E f \in 1 .. n : Held(r, n, f, w)'
<1>1. /\ n \in Pending(r) /\ n \in Nat /\ n > done'[r]
      /\ Command(r, n)' = Command(r, n)
  BY OldCommand
<1>2. PICK c \in RunsJob : c = Command(r, n)
  <2>1. Command(r, n) \in Cmd /\ Command(r, n).op = "job"
    BY <1>1, QueueTypes
  <2>. QED
    BY <2>1 DEF Cmd, WritesDirectory, WritesEntry
<1>3. /\ pd'[c.vm] = pd[c.vm] /\ addr'[c.vm] = addr[c.vm] /\ pt'[c.vm] = pt[c.vm]
      /\ ids'[c.vm][r].use = ids[c.vm][r].use \/ n <= ids'[c.vm][r].use
      /\ pdfence'[c.vm] = pdfence[c.vm] \/ pdfence'[c.vm] = 0
      /\ \A o \in Bo : c.at[o] # 0 => place'[o] = place[o]
  BY <1>2 DEF LeftAlone
<1>4. Current(r, n)'
  BY <1>1, <1>2, <1>3, CurrentStays DEF JobsAreCurrent
<1>5. ASSUME NEW w \in Session, Wants(w, r, n)'
      PROVE  \E f \in 1 .. n : Held(r, n, f, w)'
  <2>1. Dropped(c.vm) => Dropped(c.vm)'
    BY <1>3 DEF Dropped
  <2>2. Wants(w, r, n)
    BY <1>1, <1>2, <1>3, <1>5, <2>1, WantsStay
  <2>3. PICK f \in 1 .. n : Held(r, n, f, w)
    BY <1>1, <2>2 DEF JobsOwnIds
  <2>4. Roomy(w) /\ w.id = Command(r, n).id
    BY <2>2 DEF Wants, Roomy
  <2>5. f \in Nat /\ f > 0 /\ f <= n
    BY <1>1
  <2>. QED
    BY <2>3, <2>4, <2>5
<1>. QED
  BY <1>4, <1>5

\* Every session that has been held still is.
HeldGoesOn ==
  \A r \in Ring, n \in Nat, f \in Nat, w \in Session :
    n > done'[r] /\ f > 0 /\ f <= n /\ f <= emitted[r] /\ Roomy(w) /\ Held(r, n, f, w)
      => Held(r, n, f, w)'

\* Every job that stays is left alone.
JobsLeftAlone ==
  \A r \in Ring : \A n \in Pending(r) :
    Command(r, n).op = "job" /\ n > done'[r] => LeftAlone(r, n)

\* and so do all jobs, when none is added.
LEMMA JobsStay ==
  ASSUME Typed, Goes, NoNewJob, JobsAreCurrent, JobsOwnIds, JobsLeftAlone, HeldGoesOn
  PROVE  JobsAreCurrent' /\ JobsOwnIds'
<1>1. ASSUME NEW r \in Ring, NEW n \in Pending(r)', Command(r, n)'.op = "job"
      PROVE  /\ Current(r, n)'
             /\ \A w \in Session : Wants(w, r, n)' => \E f \in 1 .. n : Held(r, n, f, w)'
  <2>1. /\ n \in Pending(r) /\ n \in Nat /\ n > done'[r] /\ n <= emitted[r]
        /\ Command(r, n)' = Command(r, n)
    BY <1>1, OldJob
  <2>2. LeftAlone(r, n) /\ Command(r, n).op = "job"
    BY <1>1, <2>1 DEF JobsLeftAlone
  <2>3. ASSUME NEW f \in Nat, NEW w \in Session,
               f > 0, f <= n, Roomy(w), Held(r, n, f, w)
        PROVE  Held(r, n, f, w)'
    <3>1. f <= emitted[r]
      BY <2>1, <2>3, QueueTypes
    <3>. QED
      BY <2>1, <2>3, <3>1 DEF HeldGoesOn
  <2>. QED
    BY <1>1, <2>1, <2>2, <2>3, JobStays
<1>. QED
  BY <1>1 DEF JobsAreCurrent, JobsOwnIds

\* An entry of a job is written anew with the same, or after the job.
NewEntriesFit ==
  \A r \in Ring : \A n \in Pending(r) : \A v \in Vm, o \in Bo : \A m \in Pending(Dma)' :
    Command(r, n).op = "job" /\ n > done'[r] /\ Command(r, n).vm = v /\ Command(r, n).at[o] # 0
        /\ m > emitted[Dma] /\ Sets(m, v, o)'
      => Command(Dma, m)'.to = place[o] \/ Before(r, n, m)'

\* Entries stay written when what is emitted behind a job writes them with the same.
LEMMA EntriesStay ==
  ASSUME Typed, Goes, NoNewJob, NoWrite, EntriesAreWritten, JobsLeftAlone, UNCHANGED pte,
         NewEntriesFit
  PROVE  EntriesAreWritten'
<1>1. ASSUME NEW r \in Ring, NEW n \in Pending(r)', NEW o \in Bo, Command(r, n)'.op = "job",
             Command(r, n)'.at[o] # 0
      PROVE  Written(r, n, o)'
  <2>1. /\ n \in Pending(r) /\ n \in Nat /\ n > done'[r] /\ n <= emitted[r]
        /\ Command(r, n)' = Command(r, n) /\ Command(r, n) \in RunsJob
    BY <1>1, OldJob
  <2>2. PICK c \in RunsJob : c = Command(r, n)
    BY <2>1
  <2>3. Written(r, n, o) /\ c.op = "job" /\ c.at[o] # 0
    BY <1>1, <2>1, <2>2 DEF EntriesAreWritten
  <2>4. place'[o] = place[o]
    BY <2>1, <2>2, <2>3 DEF JobsLeftAlone, LeftAlone
  <2>5. \A m \in Pending(Dma)' : m > emitted[Dma] /\ Sets(m, c.vm, o)'
          => Command(Dma, m)'.to = place[o] \/ Before(r, n, m)'
    <3>1. c.vm \in Vm
      BY DEF RunsJob
    <3>. QED
      BY <2>1, <2>2, <2>3, <3>1 DEF NewEntriesFit
  <2>. QED
    BY <2>1, <2>2, <2>3, <2>4, <2>5, WrittenStays
<1>. QED
  BY <1>1 DEF EntriesAreWritten

\* What the address space has noted of an id stays, or the tables have moved.
NoteStays(v, r) ==
  /\ ids'[v][r] = ids[v][r]
  /\ \A k \in Nat : k = ids[v][r].flushed =>
       \/ TableMoved(v, k)'
       \/ pt'[v] = pt[v] /\ (TableMoved(v, k) => TableMoved(v, k)')
  /\ \A o \in Bo : Noted(v, r, o)' => Noted(v, r, o) /\ place'[o] = place[o]

\* An address space keeps its id, when no other job has come under it,
LEMMA KeptStays ==
  ASSUME Typed, Goes, IdsAreKept, NEW v \in Vm, NEW r \in Ring, StillValid(v, r), NoteStays(v, r),
         \A n \in Nat, f \in Nat, w \in Session :
           n > emitted'[r] /\ f > 0 /\ f <= n /\ f <= emitted[r] /\ Roomy(w)
             /\ w.id = ids[v][r].id /\ Held(r, n, f, w) => Held(r, n, f, w)',
         NEW w \in Session, Keeps(w, v, r)'
  PROVE  \E f \in 1 .. ids'[v][r].use : \A n \in Nat : n > emitted'[r] => Held(r, n, f, w)'
<1>1. /\ emitted[r] \in Nat /\ emitted'[r] \in Nat /\ emitted[r] <= emitted'[r]
      /\ ids[v][r].use \in 0 .. emitted[r] /\ ids[v][r].flushed \in Nat
  <2>1. ids[v][r].use \in 0 .. emitted[r]
    BY DEF Typed, TypeOK
  <2>2. ids[v][r].flushed \in Nat
    BY DEF Typed, Shapes, IdShape
  <2>. QED
    BY <2>1, <2>2, QueueTypes DEF Goes
<1>2. Keeps(w, v, r)
  BY <1>1, KeepsStay DEF NoteStays
<1>3. PICK f \in 1 .. ids[v][r].use : \A n \in Nat : n > emitted[r] => Held(r, n, f, w)
  BY <1>2 DEF IdsAreKept
<1>4. Roomy(w) /\ w.id = ids[v][r].id
  BY <1>2 DEF Keeps, Roomy
<1>5. ASSUME NEW n \in Nat, n > emitted'[r] PROVE Held(r, n, f, w)'
  <2>1. n > emitted[r] /\ f \in Nat /\ f > 0 /\ f <= n /\ f <= emitted[r]
    BY <1>1, <1>5
  <2>. QED
    BY <1>3, <1>4, <1>5, <2>1
<1>. QED
  BY <1>5 DEF NoteStays

\* and so do all address spaces.
LEMMA IdsStay ==
  ASSUME Typed, Goes, IdsAreKept, HeldGoesOn, UNCHANGED <<ids, active>>,
         \A v \in Vm, r \in Ring : StillValid(v, r) => NoteStays(v, r)
  PROVE  IdsAreKept'
<1>1. ASSUME NEW v \in Vm, NEW r \in Ring, NEW w \in Session, StillValid(v, r)', Keeps(w, v, r)'
      PROVE  \E f \in 1 .. ids'[v][r].use : \A n \in Nat : n > emitted'[r] => Held(r, n, f, w)'
  <2>1. StillValid(v, r)
    BY <1>1 DEF StillValid
  <2>2. ASSUME NEW n \in Nat, NEW f \in Nat, NEW x \in Session,
               n > emitted'[r], f > 0, f <= n, f <= emitted[r], Roomy(x), Held(r, n, f, x)
        PROVE  Held(r, n, f, x)'
    <3>1. done'[r] <= emitted'[r] /\ done'[r] \in Nat /\ emitted'[r] \in Nat
      BY DEF Goes
    <3>. QED
      BY <2>2, <3>1 DEF HeldGoesOn
  <2>. QED
    BY <1>1, <2>1, <2>2, KeptStays
<1>. QED
  BY <1>1 DEF IdsAreKept

-----------------------------------------------------------------------------
(* The GPU's steps keep the invariant *)

\* What a job that runs has found: its address space, its directory, its table, its entries.
LEMMA RunningJob ==
  ASSUME Typed, WaitsMet, Jobs, Tables, NEW q \in Ring, running[q]
  PROVE  \E c \in RunsJob :
           /\ c = Command(q, done[q] + 1)
           /\ base[c.id] = [vm |-> c.vm, pd |-> c.pd] /\ c.pd = pd[c.vm] /\ pde[c.vm] = pt[c.vm]
           /\ \A o \in Bo : c.at[o] # 0 => c.at[o] = place[o] /\ pte[c.vm][o] = place[o]
<1>1. PICK h \in Nat : h = done[q] + 1
  BY QueueTypes
<1>2. h \in Pending(q) /\ Command(q, h) \in Cmd /\ Command(q, h).op = "job"
  BY <1>1, QueueTypes
<1>3. PICK c \in RunsJob : c = Command(q, h)
  BY <1>2 DEF Cmd, WritesDirectory, WritesEntry
<1>4. Waits(q, done[q] + 1) <= done[Other(q)]
  BY DEF WaitsMet
<1>5. Current(q, h)
  BY <1>2 DEF Jobs, JobsAreCurrent
<1>6. /\ c.pd = pd[c.vm] /\ addr[c.vm] = pt[c.vm] /\ c.vm \in Vm /\ c.id \in Id /\ c.pd \in Nat
      /\ c.at \in [Bo -> Nat]
      /\ \A o \in Bo : c.at[o] \in {0, place[o]}
      /\ \A u \in Nat : u = pdfence[c.vm] => After(q, h, u)
  BY <1>3, <1>5 DEF Current, RunsJob
<1>7. pde[c.vm] = pt[c.vm]
  <2>1. PICK u \in Nat : u = pdfence[c.vm]
    BY <1>6 DEF Typed, Shapes, MapShape
  <2>2. After(q, done[q] + 1, u)
    BY <1>1, <1>6, <2>1
  <2>3. u <= done[Dma]
    BY <1>4, <2>2, AfterHead
  <2>4. DirectoryLinked(c.vm)
    BY <1>6 DEF Tables, DirectoriesAreLinked
  <2>. QED
    BY <2>1, <2>3, <2>4 DEF DirectoryLinked
<1>8. base[c.id] = [vm |-> c.vm, pd |-> c.pd]
  <2>1. PICK w : w = [id |-> c.id, vm |-> c.vm, pd |-> c.pd, tables |-> Nat,
                      pages |-> [o \in Bo |-> Nat]]
    OBVIOUS
  <2>2. w \in Session
    BY <1>6, <2>1 DEF Session
  <2>3. pt[c.vm] \in Nat /\ \A o \in Bo : place[o] \in Nat
    BY <1>6 DEF Typed, Shapes, MapShape
  <2>4. Wants(w, q, h)
    BY <1>3, <2>1, <2>3 DEF Wants
  <2>5. PICK f \in 1 .. h : Held(q, h, f, w)
    BY <1>2, <2>2, <2>4 DEF Jobs, JobsOwnIds
  <2>6. Begun(q, f)
    <3>1. done[q] \in Nat
      BY QueueTypes
    <3>2. f <= done[q] \/ f = done[q] + 1
      BY <1>1, <3>1
    <3>. QED
      BY <3>2 DEF Begun
  <2>. QED
    BY <2>1, <2>5, <2>6 DEF Held
<1>9. ASSUME NEW o \in Bo, c.at[o] # 0
      PROVE  c.at[o] = place[o] /\ pte[c.vm][o] = place[o]
  <2>1. Written(q, h, o)
    BY <1>2, <1>3, <1>9 DEF Jobs, EntriesAreWritten
  <2>2. PICK u \in Nat : After(q, h, u) /\ Puts(u, c.vm, o)
    BY <1>3, <2>1 DEF Written
  <2>3. u <= done[Dma]
    BY <1>1, <1>4, <2>2, AfterHead
  <2>. QED
    BY <1>6, <1>9, <2>2, <2>3 DEF Puts
<1>. QED
  BY <1>1, <1>3, <1>6, <1>7, <1>8, <1>9

\* What the rings do on their own leaves the jobs, the notes and the submission alone.
LEMMA FrameStays ==
  ASSUME Typed, UNCHANGED <<ids, active, maps, addr, pdfence, places, cs>>
  PROVE  /\ JobsLeftAlone /\ \A v \in Vm, r \in Ring : NoteStays(v, r)
         /\ SubmissionIsOrdered => SubmissionIsOrdered'
<1>1. JobsLeftAlone
  BY DEF JobsLeftAlone, LeftAlone, places
<1>2. \A v \in Vm, r \in Ring : NoteStays(v, r)
  BY DEF NoteStays, TableMoved, Noted, places, maps
<1>3. SubmissionIsOrdered => SubmissionIsOrdered'
  BY DEF SubmissionIsOrdered, places, maps
<1>. QED
  BY <1>1, <1>2, <1>3

\* A step of the GPU.
LEMMA GpuStays ==
  ASSUME Typed, Intact, Goes, HeldGoesOn, WaitsMet', EntriesAreWritten', Tables',
         UNCHANGED <<emitted, known, ids, active, maps, addr, pdfence, places, cs>>
  PROVE  Intact'
<1>1. NoNewJob
  BY NoneEmitted
<1>2. /\ JobsLeftAlone /\ \A v \in Vm, r \in Ring : NoteStays(v, r)
      /\ SubmissionIsOrdered'
  BY FrameStays DEF Intact
<1>3. KnownIsKept' /\ IdOrder'
  BY <1>1, KnownStays, IdOrderStays DEF Intact, Ordered
<1>4. JobsAreCurrent' /\ JobsOwnIds'
  BY <1>1, <1>2, JobsStay DEF Intact, Jobs
<1>5. IdsAreKept'
  BY <1>2, IdsStay DEF Intact
<1>. QED
  BY <1>2, <1>3, <1>4, <1>5 DEF Intact, Ordered, Jobs

\* Without a write, tables stay linked,
LEMMA TablesQuiet ==
  ASSUME Typed, Tables, Goes, NoWrite, UNCHANGED <<emitted, pde, pte, maps, addr, pdfence, places>>
  PROVE  Tables'
<1>1. \A m \in Pending(Dma)' : ~(m > emitted[Dma])
  <2>1. emitted'[Dma] = emitted[Dma] /\ emitted[Dma] \in Nat /\ done'[Dma] \in Nat
    BY QueueTypes DEF Ring, Goes
  <2>. QED
    BY <2>1 DEF Pending
<1>2. UNCHANGED <<mapped, status, freed, last_pt_update, place, pt>>
  BY DEF maps, places
<1>3. ASSUME NEW v \in Vm, NEW o \in Bo, mapped'[v][o], status'[v][o] = "done"
      PROVE  Linked(v, o)'
  <2>1. Linked(v, o)
    BY <1>2, <1>3 DEF Tables, MappingsAreLinked
  <2>2. o \notin freed[v]
    BY <2>1 DEF Linked
  <2>. QED
    BY <1>1, <1>2, <2>1, <2>2, LinkedStays
<1>4. DirectoriesAreLinked'
  BY <1>1, <1>2, DirectoriesStay DEF Tables
<1>. QED
  BY <1>3, <1>4 DEF Tables, MappingsAreLinked

\* and entries stay written.
LEMMA EntriesQuiet ==
  ASSUME Typed, EntriesAreWritten, Goes, NoWrite, JobsLeftAlone, UNCHANGED <<emitted, pte>>
  PROVE  EntriesAreWritten'
<1>1. \A m \in Pending(Dma)' : ~(m > emitted[Dma])
  <2>1. emitted'[Dma] = emitted[Dma] /\ emitted[Dma] \in Nat /\ done'[Dma] \in Nat
    BY QueueTypes DEF Ring, Goes
  <2>. QED
    BY <2>1 DEF Pending
<1>2. NoNewJob
  BY NoneEmitted
<1>3. NewEntriesFit
  BY <1>1 DEF NewEntriesFit
<1>. QED
  BY <1>2, <1>3, EntriesStay

\* An update is executed.
LEMMA WriteKeeps ==
  ASSUME Typed, Intact, NEW q \in Ring, Write(q)
  PROVE  Intact'
<1>1. /\ q = Dma /\ Retired(Dma) /\ ~running[Dma] /\ Goes
      /\ UNCHANGED <<running, emitted, known, ids, active, maps, addr, pdfence, places, base, tlb,
                     cs, bounds>>
  BY WriteIs
<1>2. Write(Dma)
  BY <1>1
<1>3. /\ done'[Dma] = done[Dma] + 1 /\ done[Dma] \in Nat /\ done[Dma] + 1 \in Pending(Dma)
      /\ Waits(Dma, done[Dma] + 1) <= done[Other(Dma)]
      /\ \A s \in Ring : s # Dma => done'[s] = done[s]
  BY <1>1, QueueTypes, Others DEF Retired, Same
<1>4. WaitsMet'
  <2>1. \A s \in Ring : running'[s] => running[s] /\ done'[s] = done[s]
    BY <1>1, <1>3
  <2>. QED
    BY <1>1, <2>1, WaitsStay DEF Intact, Ordered
<1>5. HeldGoesOn
  BY <1>2, HeldWrite DEF HeldGoesOn
<1>6. Tables'
  BY <1>2, TablesWrite DEF Intact
<1>7. NoNewJob
  BY <1>1, NoneEmitted
<1>8. ASSUME NEW r \in Ring, NEW n \in Pending(r)', NEW o \in Bo, Command(r, n)'.op = "job",
             Command(r, n)'.at[o] # 0
      PROVE  Written(r, n, o)'
  <2>1. /\ n \in Pending(r) /\ n \in Nat /\ n > done'[r] /\ n > done[r]
        /\ Command(r, n)' = Command(r, n) /\ Command(r, n) \in RunsJob
    BY <1>1, <1>7, <1>8, OldJob
  <2>2. PICK c \in RunsJob : c = Command(r, n)
    BY <2>1
  <2>3. c.vm \in Vm /\ place' = place
    BY <1>1 DEF RunsJob, places
  <2>4. Written(r, n, o)
    BY <1>8, <2>1 DEF Intact, Jobs, EntriesAreWritten
  <2>5. PICK u \in Nat :
          /\ After(r, n, u) /\ Puts(u, c.vm, o)
          /\ \A m \in Pending(Dma) :
               m > u /\ Sets(m, c.vm, o) => Command(Dma, m).to = place[o] \/ Before(r, n, m)
    BY <2>2, <2>4 DEF Written
  <2>6. ASSUME done[Dma] + 1 > u, Sets(done[Dma] + 1, c.vm, o)
        PROVE  Command(Dma, done[Dma] + 1).to = place[o]
    <3>1. ~Before(r, n, done[Dma] + 1)
      <4>1. done[r] \in Nat
        BY QueueTypes
      <4>. QED
        BY <1>3, <2>1, <4>1, BeforeHead
    <3>. QED
      BY <1>3, <2>5, <2>6, <3>1
  <2>7. Puts(u, c.vm, o)'
    BY <1>2, <2>3, <2>5, <2>6, PutsWrite
  <2>8. After(r, n, u)'
    BY <1>1, <2>1, <2>5, AfterStays
  <2>9. ASSUME NEW m \in Pending(Dma)', m > u, Sets(m, c.vm, o)'
        PROVE  Command(Dma, m)'.to = place[o] \/ Before(r, n, m)'
    <3>1. m \in Nat /\ m <= emitted[Dma]
      <4>1. emitted'[Dma] = emitted[Dma] /\ done'[Dma] \in Nat /\ emitted[Dma] \in Nat
        BY <1>1, <1>3, QueueTypes
      <4>. QED
        BY <4>1 DEF Pending
    <3>2. m \in Pending(Dma) /\ Command(Dma, m)' = Command(Dma, m)
      BY <1>1, <3>1, OldCommand
    <3>3. Command(Dma, m).to = place[o] \/ Before(r, n, m)
      BY <2>5, <2>9, <3>2 DEF Sets
    <3>. QED
      BY <1>1, <2>1, <3>1, <3>2, <3>3, BeforeStays
  <2>. QED
    BY <2>1, <2>2, <2>3, <2>7, <2>8, <2>9 DEF Written
<1>. QED
  BY <1>1, <1>4, <1>5, <1>6, <1>8, GpuStays DEF EntriesAreWritten

\* A job starts.
LEMMA StartKeeps ==
  ASSUME Typed, Intact, NEW q \in Ring, Start(q)
  PROVE  Intact'
<1>1. /\ Goes
      /\ UNCHANGED <<done, pde, pte, rings, ids, active, maps, addr, pdfence, places, cs, bounds>>
  BY StartIs
<1>2. UNCHANGED <<done, emitted, known>>
  BY <1>1 DEF rings
<1>3. NoWrite
  <2>1. \A n \in Pending(Dma) : ~(n <= done'[Dma])
    BY <1>2, QueueTypes DEF Ring, Pending
  <2>. QED
    BY <2>1 DEF NoWrite
<1>4. HeldGoesOn
  <2>1. ASSUME NEW r \in Ring, NEW n \in Nat, NEW f \in Nat, NEW w \in Session,
               n > done'[r], f > 0, f <= n, f <= emitted[r], Roomy(w), Held(r, n, f, w)
        PROVE  Held(r, n, f, w)'
    BY <1>2, <2>1, HeldStart DEF Roomy
  <2>. QED
    BY <2>1 DEF HeldGoesOn
<1>5. JobsLeftAlone
  BY <1>1, FrameStays
<1>6. WaitsMet' /\ EntriesAreWritten' /\ Tables'
  BY <1>1, <1>2, <1>3, <1>5, WaitsStart, EntriesQuiet, TablesQuiet DEF Intact, Ordered, Jobs
<1>. QED
  BY <1>1, <1>2, <1>4, <1>6, GpuStays

\* A job ends.
LEMMA FinishKeeps ==
  ASSUME Typed, Intact, NEW q \in Ring, Finish(q)
  PROVE  Intact'
<1>. WaitsMet
  BY DEF Intact, Ordered
<1>1. /\ Retired(q) /\ running[q] /\ Goes
      /\ UNCHANGED <<emitted, known, pde, pte, base, ids, active, maps, addr, pdfence, places, cs,
                     bounds>>
      /\ \A s \in Ring : running'[s] <=> s # q /\ running[s]
  BY FinishIs
<1>2. /\ done'[q] = done[q] + 1 /\ done[q] \in Nat /\ done[q] + 1 \in Pending(q)
      /\ \A s \in Ring : s # q => done'[s] = done[s]
  BY <1>1, QueueTypes, Others DEF Retired, Same
<1>3. PICK c \in RunsJob :
        /\ c = Command(q, done[q] + 1)
        /\ base[c.id] = [vm |-> c.vm, pd |-> c.pd] /\ c.pd = pd[c.vm] /\ pde[c.vm] = pt[c.vm]
        /\ \A o \in Bo : c.at[o] # 0 => c.at[o] = place[o] /\ pte[c.vm][o] = place[o]
  BY <1>1, RunningJob DEF Intact
<1>4. NoWrite
  <2>1. ASSUME NEW n \in Pending(Dma), n <= done'[Dma]
        PROVE  Command(Dma, n).op = "job"
    <3>1. n \in Nat /\ n > done[Dma] /\ done[Dma] \in Nat
      BY QueueTypes DEF Ring, Pending
    <3>2. q = Dma /\ n = done[q] + 1
      BY <1>2, <2>1, <3>1 DEF Ring
    <3>. QED
      BY <1>3, <3>2 DEF RunsJob
  <2>. QED
    BY <2>1 DEF NoWrite
<1>5. HeldGoesOn
  <2>1. ASSUME NEW r \in Ring, NEW n \in Nat, NEW f \in Nat, NEW w \in Session,
               n > done'[r], f > 0, f <= n, f <= emitted[r], Roomy(w), Held(r, n, f, w)
        PROVE  Held(r, n, f, w)'
    <3>1. ASSUME c.id = w.id, Begun(r, f)
          PROVE  /\ Table(w.id) \in w.tables
                 /\ \A o \in Bo : c.at[o] # 0 => Found(w.id, o) \in w.pages[o]
      <4>1. /\ base[w.id] = [vm |-> w.vm, pd |-> w.pd] /\ tlb[w.id].table \in w.tables
            /\ \A o \in Bo : tlb[w.id].page[o] \in w.pages[o]
        BY <2>1, <3>1 DEF Held
      <4>2. base[w.id].vm = c.vm /\ w.vm = c.vm
        BY <1>3, <3>1, <4>1
      <4>3. Table(w.id) \in w.tables
        BY <1>3, <2>1, <4>1, <4>2 DEF Table, Roomy
      <4>4. ASSUME NEW o \in Bo, c.at[o] # 0
            PROVE  Found(w.id, o) \in w.pages[o]
        <5>1. Walk(w.id, o) \in {0, place[o]}
          BY <1>3, <4>2, <4>4 DEF Walk
        <5>2. 0 \in w.pages[o] /\ place[o] \in w.pages[o] /\ tlb[w.id].page[o] \in w.pages[o]
          BY <2>1, <4>1 DEF Roomy
        <5>. QED
          BY <5>1, <5>2 DEF Found
      <4>. QED
        BY <4>3, <4>4
    <3>2. c = Command(q, done[q] + 1)
      BY <1>3
    <3>. QED
      BY <2>1, <3>1, <3>2, HeldFinish
  <2>. QED
    BY <2>1 DEF HeldGoesOn
<1>6. WaitsMet'
  <2>1. \A s \in Ring : running'[s] => running[s] /\ done'[s] = done[s]
    BY <1>1, <1>2
  <2>. QED
    BY <1>1, <2>1, WaitsStay
<1>7. JobsLeftAlone
  BY <1>1, FrameStays
<1>8. EntriesAreWritten' /\ Tables'
  BY <1>1, <1>4, <1>7, EntriesQuiet, TablesQuiet DEF Intact, Jobs
<1>. QED
  BY <1>1, <1>5, <1>6, <1>8, GpuStays

-----------------------------------------------------------------------------
(* The steps that update tables and mappings keep the invariant *)

LEMMA JobsAlone ==
  ASSUME Typed, UNCHANGED <<pd, addr, pt, ids, pdfence, place>>
  PROVE  JobsLeftAlone
BY DEF JobsLeftAlone, LeftAlone

\* A step that leaves the rings and the ids alone.
LEMMA StillKeeps ==
  ASSUME Typed, Intact, UNCHANGED <<gpu, rings, ids, active>>, JobsLeftAlone,
         \A v \in Vm, r \in Ring : StillValid(v, r) => NoteStays(v, r),
         Tables', SubmissionIsOrdered'
  PROVE  Intact'
<1>1. UNCHANGED <<queue, running, emitted, done, known, pte, base, tlb>>
  BY DEF gpu, rings
<1>2. \A r \in Ring : Same(r)
  BY <1>1, Stays
<1>3. Goes
  BY <1>2, GoesSame
<1>4. NoNewJob
  BY <1>1, <1>3, NoneEmitted
<1>5. HeldGoesOn
  BY <1>1 DEF HeldGoesOn, Held, Begun, IsJob, Pending, Behind, Command, Waits
<1>6. NoWrite
  <2>1. \A n \in Pending(Dma) : ~(n <= done'[Dma])
    BY <1>1, QueueTypes DEF Ring, Pending
  <2>. QED
    BY <2>1 DEF NoWrite
<1>7. WaitsMet'
  BY <1>1 DEF Intact, Ordered, WaitsMet, Waits
<1>8. KnownIsKept' /\ IdOrder'
  BY <1>1, <1>3, <1>4, KnownStays, IdOrderStays DEF Intact, Ordered
<1>9. JobsAreCurrent' /\ JobsOwnIds'
  BY <1>3, <1>4, <1>5, JobsStay DEF Intact, Jobs
<1>10. EntriesAreWritten'
  BY <1>1, <1>3, <1>6, EntriesQuiet DEF Intact, Jobs
<1>11. IdsAreKept'
  BY <1>3, <1>5, IdsStay DEF Intact
<1>. QED
  BY <1>7, <1>8, <1>9, <1>10, <1>11 DEF Intact, Ordered, Jobs

\* The DMA ring gets a command that writes.
LEMMA DmaEmits ==
  ASSUME Typed, Intact, NEW want \in Nat, want <= emitted["gfx"], NEW c, c.op # "job",
         Emitted(Dma, want, c), UNCHANGED <<gpu, ids, active>>,
         known' = [known EXCEPT ![Dma] = Larger(known[Dma], Await(Dma, want))], JobsLeftAlone,
         \A v \in Vm, r \in Ring : StillValid(v, r) => NoteStays(v, r),
         NewEntriesFit
  PROVE  Goes /\ NoWrite /\ Ordered' /\ Jobs' /\ IdsAreKept'
<1>1. UNCHANGED <<running, done, pte, base, tlb>> /\ Dma \in Ring /\ Other(Dma) = "gfx"
  BY Others DEF gpu, Ring
<1>2. Goes
  BY <1>1, GoesEmitted
<1>3. NoNewJob
  BY <1>1, NoJobEmitted
<1>4. HeldGoesOn
  <2>1. ASSUME NEW r \in Ring, NEW n \in Nat, NEW f \in Nat, NEW w \in Session,
               n > done'[r], f > 0, f <= n, f <= emitted[r], Roomy(w), Held(r, n, f, w)
        PROVE  Held(r, n, f, w)'
    BY <1>1, <2>1, HeldEmit
  <2>. QED
    BY <2>1 DEF HeldGoesOn
<1>5. NoWrite
  <2>1. \A n \in Pending(Dma) : ~(n <= done'[Dma])
    BY <1>1, QueueTypes DEF Ring, Pending
  <2>. QED
    BY <2>1 DEF NoWrite
<1>6. WaitsMet'
  BY <1>1, <1>2, WaitsStay DEF Intact, Ordered
<1>7. KnownIsKept' /\ IdOrder'
  <2>1. KnownIsKept /\ IdOrder
    BY DEF Intact, Ordered
  <2>2. KnownIsKept'
    BY <1>1, <2>1, EmitBehind
  <2>. QED
    BY <1>2, <1>3, <2>1, <2>2, IdOrderStays
<1>8. JobsAreCurrent' /\ JobsOwnIds'
  BY <1>2, <1>3, <1>4, JobsStay DEF Intact, Jobs
<1>9. EntriesAreWritten'
  BY <1>1, <1>2, <1>3, <1>5, EntriesStay DEF Intact, Jobs
<1>10. IdsAreKept'
  BY <1>2, <1>4, IdsStay DEF Intact
<1>. QED
  BY <1>2, <1>5, <1>6, <1>7, <1>8, <1>9, <1>10 DEF Ordered, Jobs

\* The command that has been emitted is the last.
LEMMA NewCommand ==
  ASSUME Typed, NEW r \in Ring, NEW want, NEW c, Emitted(r, want, c)
  PROVE  /\ \A m \in Pending(r)' : m > emitted[r] => m = emitted[r] + 1 /\ Command(r, m)' = c
         /\ \A m \in Nat : m = emitted[r] + 1 =>
              m \in Pending(r)' /\ Command(r, m)' = c /\ ~(m <= done'[r])
         /\ \A m \in Pending(r)' : m \in Nat /\ ~(m > emitted[r] + 1)
<1>1. /\ done'[r] = done[r] /\ emitted'[r] = emitted[r] + 1
      /\ done[r] \in Nat /\ emitted[r] \in Nat /\ done[r] <= emitted[r]
  BY QueueTypes DEF Emitted
<1>2. ASSUME NEW m \in Pending(r)'
      PROVE  m \in Nat /\ ~(m > emitted[r] + 1) /\ (m > emitted[r] => m = emitted[r] + 1)
  BY <1>1 DEF Pending
<1>3. ASSUME NEW m \in Nat, m = emitted[r] + 1
      PROVE  m \in Pending(r)' /\ ~(m <= done'[r])
  BY <1>1, <1>3 DEF Pending
<1>4. \A m \in Nat : m = emitted[r] + 1 => Command(r, m)' = c
  BY DEF Emitted
<1>. QED
  BY <1>2, <1>3, <1>4

\* An entry is written: with where its buffer is, or after the jobs that use it.
LEMMA EntryUpdated ==
  ASSUME Typed, Intact, NEW v \in Vm, NEW o \in Bo, NEW want \in Nat, NEW to \in Nat,
         to = place[o] \/ (to = 0 /\ want = Users(v)), want <= emitted["gfx"],
         Update(v, o, want, to),
         UNCHANGED <<gpu, ids, active, mapped, addr, pdfence, places>>,
         \A k \in Vm, r \in Ring : StillValid(k, r) => NoteStays(k, r),
         \A k \in Vm, p \in Bo : mapped'[k][p] /\ status'[k][p] = "done" =>
           IF k = v /\ p = o
           THEN to = place[o] /\ o \notin freed'[v] /\ last_pt_update'[v][o] = emitted[Dma] + 1
           ELSE status[k][p] = "done" /\ p \notin freed'[k] \ freed[k]
                  /\ last_pt_update'[k][p] = last_pt_update[k][p],
         SubmissionIsOrdered'
  PROVE  Intact'
<1>1. PICK c : c = [op |-> "pte", vm |-> v, bo |-> o, to |-> to]
  OBVIOUS
<1>2. to <= place[o]
  BY DEF Typed, Shapes, MapShape
<1>3. Emitted(Dma, want, c)
  BY <1>1, <1>2, UpdateTypes
<1>4. /\ known' = [known EXCEPT ![Dma] = Larger(known[Dma], Await(Dma, want))]
      /\ UNCHANGED <<pde, pte, running, done, pd, pt, place>> /\ Dma \in Ring /\ Other(Dma) = "gfx"
      /\ emitted[Dma] \in Nat
  BY Others, QueueTypes DEF gpu, places, Update, Emit, Note, Ring
<1>5. PICK N \in Nat : N = emitted[Dma] + 1
  BY <1>4
<1>6. /\ \A m \in Pending(Dma)' : m > emitted[Dma] => m = N /\ Command(Dma, m)' = c
      /\ N \in Pending(Dma)' /\ Command(Dma, N)' = c /\ ~(N <= done'[Dma])
      /\ \A m \in Pending(Dma)' : m \in Nat /\ ~(m > N)
  BY <1>3, <1>4, <1>5, NewCommand
<1>7. JobsLeftAlone
  BY <1>4, JobsAlone
<1>8. \A s \in Nat : s <= want => Behind(Dma, N, s)'
  <2>1. KnownIsKept
    BY DEF Intact, Ordered
  <2>. QED
    BY <1>3, <1>4, <1>5, <2>1, EmitBehind
<1>9. NewEntriesFit
  <2>1. ASSUME NEW r \in Ring, NEW n \in Pending(r), NEW k \in Vm, NEW p \in Bo,
               NEW m \in Pending(Dma)', Command(r, n).op = "job", Command(r, n).vm = k,
               m > emitted[Dma], Sets(m, k, p)'
        PROVE  Command(Dma, m)'.to = place[p] \/ Before(r, n, m)'
    <3>1. m = N /\ k = v /\ p = o /\ Command(Dma, m)'.to = to
      BY <1>1, <1>6, <2>1 DEF Sets
    <3>2. CASE to = place[o]
      BY <3>1, <3>2
    <3>3. CASE want = Users(v)
      <4>1. n \in Nat /\ n <= emitted[r] /\ emitted[r] \in Nat
        BY QueueTypes DEF Pending
      <4>2. CASE r = Dma
        <5>1. n < N
          BY <1>5, <4>1, <4>2
        <5>. QED
          BY <3>1, <4>2, <5>1 DEF Before
      <4>3. CASE r # Dma
        <5>1. r = "gfx"
          BY <4>3, Others
        <5>2. n <= ids[v]["gfx"].use
          BY <2>1, <3>1, <5>1 DEF Intact, Jobs, JobsAreCurrent, Current
        <5>3. Behind(Dma, N, n)'
          BY <1>8, <3>3, <4>1, <5>2 DEF Users
        <5>. QED
          BY <3>1, <4>3, <5>3 DEF Before
      <4>. QED
        BY <4>2, <4>3
    <3>. QED
      BY <3>2, <3>3
  <2>. QED
    BY <2>1 DEF NewEntriesFit
<1>10. Goes /\ NoWrite /\ Ordered' /\ Jobs' /\ IdsAreKept'
  <2>1. c.op # "job" /\ UNCHANGED <<gpu, ids, active>>
    BY <1>1
  <2>. QED
    BY <1>3, <1>4, <1>7, <1>9, <2>1, DmaEmits
<1>11. ASSUME NEW k \in Vm, NEW p \in Bo, mapped'[k][p], status'[k][p] = "done"
       PROVE  Linked(k, p)'
  <2>1. CASE k = v /\ p = o
    <3>1. to = place[o] /\ o \notin freed'[v] /\ last_pt_update'[v][o] = N
      BY <1>5, <1>11, <2>1
    <3>2. Puts(N, v, o)'
      BY <1>1, <1>4, <1>6, <3>1 DEF Puts, Sets
    <3>. QED
      BY <1>6, <2>1, <3>1, <3>2 DEF Linked
  <2>2. CASE ~(k = v /\ p = o)
    <3>1. /\ status[k][p] = "done" /\ p \notin freed'[k] \ freed[k] /\ mapped[k][p]
          /\ last_pt_update'[k][p] = last_pt_update[k][p]
      BY <1>11, <2>2
    <3>2. Linked(k, p)
      BY <3>1 DEF Intact, Tables, MappingsAreLinked
    <3>3. p \notin freed'[k]
      BY <3>1, <3>2 DEF Linked
    <3>4. \A m \in Pending(Dma)' : m > emitted[Dma] => ~Sets(m, k, p)'
      BY <1>1, <1>6, <2>2 DEF Sets
    <3>. QED
      BY <1>4, <1>10, <3>1, <3>2, <3>3, <3>4, LinkedStays
  <2>. QED
    BY <2>1, <2>2
<1>12. DirectoriesAreLinked'
  <2>1. DirectoriesAreLinked /\ UNCHANGED <<pde, pt, pdfence, addr>>
    BY <1>4 DEF Intact, Tables
  <2>2. \A m \in Pending(Dma)' : m > emitted[Dma] => Command(Dma, m)'.op # "pde"
    BY <1>1, <1>6
  <2>. QED
    BY <1>10, <2>1, <2>2, DirectoriesStay
<1>. QED
  BY <1>10, <1>11, <1>12 DEF Intact, Tables, MappingsAreLinked

\* What has been noted of the ids stays, unless a mapping becomes up to date behind the flush.
LEMMA NotesStay ==
  ASSUME Typed, NEW v \in Vm, NEW r \in Ring, UNCHANGED <<ids, addr, pdfence, pt, place>>,
         \A o \in Bo : Noted(v, r, o)' => Noted(v, r, o)
  PROVE  NoteStays(v, r)
BY DEF NoteStays, TableMoved

\* The last fence of an address space on the other ring; the updates it has noted.
LEMMA IdsBounds ==
  ASSUME Typed, NEW v \in Vm
  PROVE  /\ Users(v) \in Nat /\ Users(v) <= emitted["gfx"]
         /\ \A r \in Ring : ids[v][r].flushed \in Nat /\ ids[v][r].flushed <= emitted[Dma]
         /\ emitted[Dma] \in Nat
<1>1. "gfx" \in Ring /\ Dma \in Ring
  BY DEF Ring
<1>2. emitted["gfx"] \in Nat /\ emitted[Dma] \in Nat
  BY <1>1, QueueTypes
<1>3. ids[v]["gfx"].use \in 0 .. emitted["gfx"]
  BY <1>1 DEF Typed, TypeOK
<1>4. \A r \in Ring : ids[v][r].flushed \in 0 .. emitted[Dma]
  BY DEF Typed, TypeOK
<1>. QED
  BY <1>2, <1>3, <1>4 DEF Users

\* The entry of a removed mapping is cleared: no job in the queue uses it, since a mapping is
\* removed only after the jobs behind its buffer.
LEMMA ClearFreedKeeps ==
  ASSUME Typed, Intact, NEW o \in Bo, ClearFreed(o), fails' = 0, fails = 0
  PROVE  Intact'
<1>1. /\ cs.step = "freed" /\ o \in freed[cs.vm]
      /\ freed' = [freed EXCEPT ![cs.vm] = freed[cs.vm] \ {o}]
      /\ Update(cs.vm, o, Users(cs.vm), 0) /\ UNCHANGED cs
      /\ UNCHANGED <<gpu, ids, active, mapped, status, last_pt_update, addr, pdfence, places>>
  BY DEF ClearFreed
<1>2. cs.vm \in Vm /\ freed \in [Vm -> SUBSET Bo] /\ UNCHANGED <<pt, place>>
  BY <1>1, Going DEF Typed, Shapes, MapShape, places
<1>3. PICK v \in Vm : v = cs.vm
  BY <1>2
<1>4. Users(v) \in Nat /\ Users(v) <= emitted["gfx"]
  BY IdsBounds
<1>5. \A k \in Vm, r \in Ring : NoteStays(k, r)
  BY <1>1, <1>2, NotesStay DEF Noted
<1>6. \A k \in Vm : freed'[k] \ freed[k] = {}
  BY <1>1, <1>2
<1>7. ~(mapped[v][o] /\ status[v][o] = "done")
  BY <1>1, <1>3 DEF Intact, Tables, MappingsAreLinked, Linked
<1>8. SubmissionIsOrdered'
  BY <1>1, <1>2 DEF Intact, SubmissionIsOrdered
<1>9. Update(v, o, Users(v), 0)
  BY <1>1, <1>3
<1>10. \A k \in Vm, p \in Bo : mapped'[k][p] /\ status'[k][p] = "done" =>
         IF k = v /\ p = o
         THEN 0 = place[o] /\ o \notin freed'[v] /\ last_pt_update'[v][o] = emitted[Dma] + 1
         ELSE status[k][p] = "done" /\ p \notin freed'[k] \ freed[k]
                /\ last_pt_update'[k][p] = last_pt_update[k][p]
  BY <1>1, <1>6, <1>7
<1>. QED
  BY <1>1, <1>4, <1>5, <1>8, <1>9, <1>10, EntryUpdated

\* The entry of a buffer is written with where it is.
LEMMA BoUpdateKeeps ==
  ASSUME Typed, Intact, NEW o \in Bo, BoUpdate(o), fails' = 0, fails = 0
  PROVE  Intact'
<1>1. /\ cs.step = "update" /\ o \in cs.todo
      /\ status' = [status EXCEPT ![cs.vm][o] = "done"]
      /\ cs' = [cs EXCEPT !.todo = cs.todo \ {o}]
      /\ IF status[cs.vm][o] = "done" THEN UNCHANGED <<rings, last_pt_update>>
         ELSE /\ Update(cs.vm, o, 0, place[o])
              /\ last_pt_update' = [last_pt_update EXCEPT ![cs.vm][o] = emitted[Dma] + 1]
      /\ UNCHANGED <<gpu, ids, active, mapped, freed, addr, pdfence, places>>
  BY DEF BoUpdate
<1>2. /\ cs \in Submission /\ cs.vm \in Vm /\ cs.todo \subseteq Bo /\ cs.use \subseteq Bo
      /\ cs # Idle /\ UNCHANGED <<pt, pd, place>>
  BY <1>1, Going DEF places
<1>3. /\ status \in [Vm -> [Bo -> {"cleared", "done", "invalid"}]]
      /\ last_pt_update \in [Vm -> [Bo -> Nat]] /\ place[o] \in Nat
  BY DEF Typed, Shapes, MapShape
<1>4. PICK v \in Vm : v = cs.vm
  BY <1>2
<1>5. \A k \in Vm, p \in Bo :
        status'[k][p] = IF k = v /\ p = o THEN "done" ELSE status[k][p]
  BY <1>1, <1>3, <1>4
<1>6. /\ cs'.step = cs.step /\ cs'.vm = v /\ cs'.ring = cs.ring /\ cs'.use = cs.use
      /\ cs'.todo = cs.todo \ {o}
  BY <1>1, <1>2, <1>4 DEF Submission
<1>7. SubmissionIsOrdered'
  <2>1. /\ \A p \in cs.use \cup cs.todo : mapped[v][p]
        /\ \A p \in cs.use \ cs.todo : status[v][p] = "done"
        /\ cs.ring # "none" => addr[v] = pt[v]
        /\ freed[v] = {}
    BY <1>1, <1>2, <1>4 DEF Intact, SubmissionIsOrdered
  <2>2. \A p \in cs'.use \cup cs'.todo : mapped'[v][p]
    BY <1>1, <1>6, <2>1
  <2>3. ASSUME NEW p \in cs'.use \ cs'.todo PROVE status'[v][p] = "done"
    <3>1. p \in Bo
      BY <1>2, <1>6
    <3>. QED
      BY <1>5, <1>6, <2>1, <3>1
  <2>4. cs'.ring # "none" => addr'[v] = pt'[v]
    BY <1>1, <1>2, <1>6, <2>1
  <2>5. freed'[v] = {} /\ cs'.step = "update"
    BY <1>1, <1>6, <2>1
  <2>. QED
    BY <1>6, <2>2, <2>3, <2>4, <2>5 DEF SubmissionIsOrdered
<1>8. CASE status[v][o] = "done"
  <2>1. UNCHANGED <<rings, last_pt_update>>
    BY <1>1, <1>4, <1>8
  <2>2. \A k \in Vm, p \in Bo : status'[k][p] = status[k][p]
    BY <1>5, <1>8
  <2>3. status' = status
    BY <1>1, <1>3, <1>4, <1>8
  <2>4. \A k \in Vm, r \in Ring : NoteStays(k, r)
    BY <1>1, <1>2, <2>1, <2>3, NotesStay DEF Noted
  <2>5. JobsLeftAlone
    BY <1>1, <1>2, JobsAlone
  <2>6. Tables'
    <3>1. /\ UNCHANGED <<queue, running, done, emitted, pde, pte, mapped, status, freed,
                         last_pt_update, addr, pdfence, place, pt>>
      BY <1>1, <1>2, <2>1, <2>3 DEF gpu, rings
    <3>. QED
      BY <3>1 DEF Intact, Tables, MappingsAreLinked, DirectoriesAreLinked, Linked, Puts, Sets,
                  DirectoryLinked, Pending, Command
  <2>. QED
    BY <1>1, <1>7, <2>1, <2>4, <2>5, <2>6, StillKeeps
<1>9. CASE status[v][o] # "done"
  <2>0. PICK to \in Nat : to = place[o]
    BY <1>3
  <2>1. /\ Update(v, o, 0, to)
        /\ last_pt_update' = [last_pt_update EXCEPT ![v][o] = emitted[Dma] + 1]
    BY <1>1, <1>4, <1>9, <2>0
  <2>2. \A k \in Vm, p \in Bo :
          last_pt_update'[k][p] = IF k = v /\ p = o THEN emitted[Dma] + 1 ELSE last_pt_update[k][p]
    BY <1>3, <2>1, IdsBounds
  <2>3. \A k \in Vm, r \in Ring : NoteStays(k, r)
    <3>1. ASSUME NEW k \in Vm, NEW r \in Ring, NEW p \in Bo, Noted(k, r, p)'
          PROVE  Noted(k, r, p)
      <4>1. ids[k][r].flushed \in Nat /\ ids[k][r].flushed <= emitted[Dma] /\ emitted[Dma] \in Nat
        BY IdsBounds
      <4>2. ~(k = v /\ p = o)
        BY <1>1, <2>2, <3>1, <4>1 DEF Noted
      <4>. QED
        BY <1>1, <1>5, <2>2, <3>1, <4>2 DEF Noted
    <3>. QED
      BY <1>1, <1>2, <3>1, NotesStay
  <2>4. o \notin freed'[v]
    BY <1>1, <1>2, <1>4 DEF Intact, SubmissionIsOrdered
  <2>5. \A k \in Vm, p \in Bo : mapped'[k][p] /\ status'[k][p] = "done" =>
          IF k = v /\ p = o
          THEN to = place[o] /\ o \notin freed'[v] /\ last_pt_update'[v][o] = emitted[Dma] + 1
          ELSE status[k][p] = "done" /\ p \notin freed'[k] \ freed[k]
                 /\ last_pt_update'[k][p] = last_pt_update[k][p]
    BY <1>1, <1>5, <2>0, <2>2, <2>4
  <2>6. 0 \in Nat /\ 0 <= emitted["gfx"]
    BY QueueTypes DEF Ring
  <2>. QED
    BY <1>1, <1>7, <2>0, <2>1, <2>3, <2>5, <2>6, EntryUpdated
<1>. QED
  BY <1>8, <1>9

\* An invalidated mapping is written with where its buffer is.
LEMMA ClearInvalidKeeps ==
  ASSUME Typed, Intact, NEW o \in Bo, ClearInvalid(o), fails' = 0, fails = 0
  PROVE  Intact'
<1>1. /\ cs.step = "invalids" /\ status[cs.vm][o] = "invalid"
      /\ status' = [status EXCEPT ![cs.vm][o] = "cleared"]
      /\ Update(cs.vm, o, Users(cs.vm), 0)
      /\ last_pt_update' = [last_pt_update EXCEPT ![cs.vm][o] = emitted[Dma] + 1]
      /\ UNCHANGED cs
      /\ UNCHANGED <<gpu, ids, active, mapped, freed, addr, pdfence, places>>
  BY DEF ClearInvalid
<1>2. /\ cs.vm \in Vm /\ cs.use \subseteq Bo /\ cs # Idle /\ UNCHANGED <<pt, place>>
  BY <1>1, Going DEF places
<1>3. /\ status \in [Vm -> [Bo -> {"cleared", "done", "invalid"}]]
      /\ last_pt_update \in [Vm -> [Bo -> Nat]]
  BY DEF Typed, Shapes, MapShape
<1>4. PICK v \in Vm : v = cs.vm
  BY <1>2
<1>5. Users(v) \in Nat /\ Users(v) <= emitted["gfx"]
  BY IdsBounds
<1>6. \A k \in Vm, p \in Bo :
        /\ status'[k][p] = IF k = v /\ p = o THEN "cleared" ELSE status[k][p]
        /\ last_pt_update'[k][p] = IF k = v /\ p = o THEN emitted[Dma] + 1 ELSE last_pt_update[k][p]
  BY <1>1, <1>3, <1>4, IdsBounds
<1>7. \A k \in Vm, r \in Ring : NoteStays(k, r)
  <2>1. ASSUME NEW k \in Vm, NEW r \in Ring, NEW p \in Bo, Noted(k, r, p)'
        PROVE  Noted(k, r, p)
    BY <1>1, <1>6, <2>1 DEF Noted
  <2>. QED
    BY <1>1, <1>2, <2>1, NotesStay
<1>8. SubmissionIsOrdered'
  <2>1. \A p \in cs.use \ cs.todo : status'[v][p] = "done"
    <3>1. \A p \in cs.use \ cs.todo : status[v][p] = "done" /\ p \in Bo
      BY <1>2, <1>4 DEF Intact, SubmissionIsOrdered
    <3>. QED
      BY <1>1, <1>4, <1>6, <3>1
  <2>. QED
    BY <1>1, <1>2, <1>4, <2>1 DEF Intact, SubmissionIsOrdered
<1>9. Update(v, o, Users(v), 0)
  BY <1>1, <1>4
<1>10. \A k \in Vm, p \in Bo : mapped'[k][p] /\ status'[k][p] = "done" =>
         IF k = v /\ p = o
         THEN 0 = place[o] /\ o \notin freed'[v] /\ last_pt_update'[v][o] = emitted[Dma] + 1
         ELSE status[k][p] = "done" /\ p \notin freed'[k] \ freed[k]
                /\ last_pt_update'[k][p] = last_pt_update[k][p]
  BY <1>1, <1>6
<1>. QED
  BY <1>1, <1>5, <1>7, <1>8, <1>9, <1>10, EntryUpdated

\* The directory is written with where its table is.
LEMMA UpdateDirectoryKeeps ==
  ASSUME Typed, Intact, UpdateDirectory, fails' = 0, fails = 0
  PROVE  Intact'
<1>1. /\ cs.step = "directory" /\ addr' = [addr EXCEPT ![cs.vm] = pt[cs.vm]]
      /\ Goto("freed")
      /\ \/ addr[cs.vm] = pt[cs.vm] /\ UNCHANGED <<rings, pdfence>>
         \/ /\ addr[cs.vm] # pt[cs.vm]
            /\ Emit(Dma, 0, [op |-> "pde", vm |-> cs.vm, to |-> pt[cs.vm]])
            /\ pdfence' = [pdfence EXCEPT ![cs.vm] = emitted[Dma] + 1]
      /\ UNCHANGED <<gpu, ids, active, maps, places>>
  BY DEF UpdateDirectory
<1>2. /\ cs.vm \in Vm /\ UNCHANGED <<mapped, status, freed, last_pt_update, place, pt, pd>>
      /\ cs # Idle
  BY <1>1, Going DEF maps, places
<1>3. PICK v \in Vm : v = cs.vm
  BY <1>2
<1>4. /\ cs'.step = "freed" /\ cs'.vm = v /\ cs'.ring = cs.ring
      /\ cs'.use = cs.use /\ cs'.todo = cs.todo
  BY <1>1, <1>3, GoesOn
<1>5. addr \in [Vm -> Nat] /\ pdfence \in [Vm -> Nat]
  BY DEF Typed, Shapes, MapShape
<1>6. \A k \in Vm : addr'[k] = IF k = v THEN pt[v] ELSE addr[k]
  BY <1>1, <1>3, <1>5
<1>7. SubmissionIsOrdered'
  BY <1>2, <1>3, <1>4, <1>6 DEF Intact, SubmissionIsOrdered
<1>8. CASE addr[v] = pt[v]
  <2>1. UNCHANGED <<rings, pdfence>> /\ addr' = addr
    BY <1>1, <1>3, <1>5, <1>8
  <2>2. \A k \in Vm, r \in Ring : NoteStays(k, r)
    BY <1>1, <1>2, <2>1, NotesStay DEF Noted
  <2>3. JobsLeftAlone
    BY <1>1, <1>2, <2>1, JobsAlone
  <2>4. Tables'
    <3>1. /\ UNCHANGED <<queue, running, done, emitted, pde, pte, mapped, status, freed,
                         last_pt_update, addr, pdfence, place, pt>>
      BY <1>1, <1>2, <2>1 DEF gpu, rings
    <3>. QED
      BY <3>1 DEF Intact, Tables, MappingsAreLinked, DirectoriesAreLinked, Linked, Puts, Sets,
                  DirectoryLinked, Pending, Command
  <2>. QED
    BY <1>1, <1>7, <2>1, <2>2, <2>3, <2>4, StillKeeps
<1>9. CASE addr[v] # pt[v]
  <2>1. PICK c : c = [op |-> "pde", vm |-> v, to |-> pt[v]]
    OBVIOUS
  <2>2. Emit(Dma, 0, c) /\ pdfence' = [pdfence EXCEPT ![v] = emitted[Dma] + 1]
    BY <1>1, <1>3, <1>9, <2>1
  <2>3. /\ UNCHANGED <<pde, pte, running, done>> /\ Dma \in Ring /\ emitted[Dma] \in Nat
    BY <1>1, QueueTypes DEF gpu, Ring
  <2>4. /\ Emitted(Dma, 0, c)
        /\ known' = [known EXCEPT ![Dma] = Larger(known[Dma], Await(Dma, 0))]
    BY <2>2, <2>3, Emits DEF Emit, Note
  <2>5. PICK N \in Nat : N = emitted[Dma] + 1
    BY <2>3
  <2>6. /\ \A m \in Pending(Dma)' : m > emitted[Dma] => m = N /\ Command(Dma, m)' = c
        /\ N \in Pending(Dma)' /\ Command(Dma, N)' = c /\ ~(N <= done'[Dma])
    BY <2>3, <2>4, <2>5, NewCommand
  <2>7. \A k \in Vm : pdfence'[k] = IF k = v THEN N ELSE pdfence[k]
    BY <1>5, <2>2, <2>5
  <2>8. JobsLeftAlone
    <3>1. ASSUME NEW r \in Ring, NEW n \in Pending(r), Command(r, n).op = "job"
          PROVE  LeftAlone(r, n)
      <4>1. Command(r, n) \in Cmd
        BY QueueTypes
      <4>2. PICK k \in Vm : k = Command(r, n).vm
        BY <3>1, <4>1 DEF Cmd, WritesDirectory, WritesEntry, RunsJob
      <4>3. addr[k] = pt[k]
        BY <3>1, <4>2 DEF Intact, Jobs, JobsAreCurrent, Current
      <4>4. addr'[k] = addr[k] /\ pdfence'[k] = pdfence[k]
        BY <1>6, <1>9, <2>7, <4>3
      <4>. QED
        BY <1>1, <1>2, <4>2, <4>4 DEF LeftAlone
    <3>. QED
      BY <3>1 DEF JobsLeftAlone
  <2>9. ASSUME NEW k \in Vm, NEW r \in Ring
        PROVE  NoteStays(k, r)
    <3>1. \A o \in Bo : Noted(k, r, o)' => Noted(k, r, o) /\ place'[o] = place[o]
      BY <1>1, <1>2 DEF Noted
    <3>2. PICK j \in Nat : j = ids[k][r].flushed
      BY IdsBounds
    <3>3. j <= emitted[Dma]
      BY <3>2, IdsBounds
    <3>4. TableMoved(k, j) => TableMoved(k, j)'
      <4>1. CASE k # v
        BY <1>2, <1>6, <2>7, <4>1 DEF TableMoved
      <4>2. CASE k = v
        <5>1. pdfence'[v] > j
          BY <2>3, <2>5, <2>7, <3>3
        <5>. QED
          BY <1>2, <4>2, <5>1 DEF TableMoved
      <4>. QED
        BY <4>1, <4>2
    <3>. QED
      BY <1>1, <1>2, <3>1, <3>2, <3>4 DEF NoteStays
  <2>10. NewEntriesFit
    <3>1. \A m \in Pending(Dma)' : m > emitted[Dma] => Command(Dma, m)'.op # "pte"
      BY <2>1, <2>6
    <3>. QED
      BY <3>1 DEF NewEntriesFit, Sets
  <2>11. Goes /\ NoWrite /\ Ordered' /\ Jobs' /\ IdsAreKept'
    <3>1. c.op # "job" /\ UNCHANGED <<gpu, ids, active>>
      BY <1>1, <2>1
    <3>2. 0 \in Nat /\ 0 <= emitted["gfx"]
      BY QueueTypes DEF Ring
    <3>. QED
      BY <2>4, <2>8, <2>9, <2>10, <3>1, <3>2, DmaEmits
  <2>12. ASSUME NEW k \in Vm, NEW p \in Bo, mapped'[k][p], status'[k][p] = "done"
         PROVE  Linked(k, p)'
    <3>1. Linked(k, p)
      BY <1>2, <2>12 DEF Intact, Tables, MappingsAreLinked
    <3>2. p \notin freed'[k]
      BY <1>2, <3>1 DEF Linked
    <3>3. \A m \in Pending(Dma)' : m > emitted[Dma] => ~Sets(m, k, p)'
      BY <2>1, <2>6 DEF Sets
    <3>. QED
      BY <1>2, <2>3, <2>11, <3>1, <3>2, <3>3, LinkedStays
  <2>13. DirectoriesAreLinked'
    <3>1. DirectoryLinked(v)'
      BY <2>1, <2>6, <2>7 DEF DirectoryLinked
    <3>2. \A k \in Vm : addr'[k] = pt'[k] =>
            \/ DirectoryLinked(k)'
            \/ /\ addr[k] = pt[k] /\ pt'[k] = pt[k]
               /\ pdfence'[k] = pdfence[k] \/ (pdfence'[k] = 0 /\ pdfence[k] <= done[Dma])
      BY <1>2, <1>6, <2>7, <3>1
    <3>3. \A m \in Pending(Dma)' : Command(Dma, m)'.op = "pde" =>
            IF m > emitted[Dma] THEN Command(Dma, m)'.to = pt'[Command(Dma, m)'.vm]
            ELSE pt'[Command(Dma, m).vm] = pt[Command(Dma, m).vm]
      BY <1>2, <2>1, <2>6
    <3>4. DirectoriesAreLinked
      BY DEF Intact, Tables
    <3>. QED
      BY <2>3, <2>11, <3>2, <3>3, <3>4, DirectoriesStay
  <2>. QED
    BY <1>7, <2>11, <2>12, <2>13 DEF Intact, Tables, MappingsAreLinked
<1>. QED
  BY <1>8, <1>9

\* Only the submission goes on.
LEMMA PassKeeps ==
  ASSUME Typed, Intact, UNCHANGED <<gpu, rings, ids, active, maps, addr, pdfence, places>>,
         SubmissionIsOrdered'
  PROVE  Intact'
<1>1. /\ UNCHANGED <<queue, running, done, emitted, pde, pte, mapped, status, freed,
                     last_pt_update, place, pt, pd>>
  BY DEF gpu, rings, maps, places
<1>2. Tables'
  BY <1>1 DEF Intact, Tables, MappingsAreLinked, DirectoriesAreLinked, Linked, Puts, Sets,
              DirectoryLinked, Pending, Command
<1>3. JobsLeftAlone /\ \A v \in Vm, r \in Ring : NoteStays(v, r)
  BY <1>1, JobsAlone, NotesStay DEF Noted
<1>. QED
  BY <1>2, <1>3, StillKeeps

\* A submission begins.
LEMMA SubmitKeeps ==
  ASSUME Typed, Intact, NEW v \in Vm, NEW r \in Ring, NEW use \in SUBSET Bo, Submit(v, r, use)
  PROVE  Intact'
<1>1. /\ UNCHANGED <<gpu, rings, ids, active, maps, addr, pdfence, places>>
      /\ cs' = [step |-> "directory", vm |-> v, ring |-> r, use |-> use, todo |-> use]
      /\ \A o \in use : mapped[v][o]
  BY DEF Submit
<1>2. SubmissionIsOrdered'
  BY <1>1 DEF SubmissionIsOrdered, maps
<1>. QED
  BY <1>1, <1>2, PassKeeps

\* A step finds nothing more to do.
LEMMA StepPasses ==
  ASSUME Typed, Intact, FreedCleared \/ BosUpdated \/ InvalidsCleared
  PROVE  Intact'
<1>1. /\ UNCHANGED <<gpu, rings, ids, active, maps, addr, pdfence, places>>
      /\ cs.step # "idle"
      /\ \/ cs' = Idle
         \/ cs.step = "freed" /\ freed[cs.vm] = {} /\ Goto("update")
         \/ cs.step = "update" /\ cs.todo = {} /\ Goto("invalids")
         \/ cs.step = "invalids" /\ Goto("schedule")
  BY DEF FreedCleared, BosUpdated, InvalidsCleared
<1>2. cs # Idle /\ UNCHANGED <<mapped, status, freed, pt>>
  BY <1>1, Going DEF maps, places
<1>3. SubmissionIsOrdered'
  <2>1. CASE cs' = Idle
    BY <2>1 DEF SubmissionIsOrdered, Idle
  <2>2. CASE cs.step = "freed" /\ freed[cs.vm] = {} /\ Goto("update")
    <3>1. /\ cs'.step = "update" /\ cs'.vm = cs.vm /\ cs'.ring = cs.ring
          /\ cs'.use = cs.use /\ cs'.todo = cs.todo
      BY <1>1, <2>2, GoesOn
    <3>. QED
      BY <1>1, <1>2, <2>2, <3>1 DEF Intact, SubmissionIsOrdered
  <2>3. CASE cs.step = "update" /\ cs.todo = {} /\ Goto("invalids")
    <3>1. /\ cs'.step = "invalids" /\ cs'.vm = cs.vm /\ cs'.ring = cs.ring
          /\ cs'.use = cs.use /\ cs'.todo = cs.todo
      BY <1>1, <2>3, GoesOn
    <3>. QED
      BY <1>1, <1>2, <2>3, <3>1 DEF Intact, SubmissionIsOrdered
  <2>4. CASE cs.step = "invalids" /\ Goto("schedule")
    <3>1. /\ cs'.step = "schedule" /\ cs'.vm = cs.vm /\ cs'.ring = cs.ring
          /\ cs'.use = cs.use /\ cs'.todo = cs.todo
      BY <1>1, <2>4, GoesOn
    <3>. QED
      BY <1>1, <1>2, <2>4, <3>1 DEF Intact, SubmissionIsOrdered
  <2>. QED
    BY <1>1, <2>1, <2>2, <2>3, <2>4
<1>. QED
  BY <1>1, <1>3, PassKeeps

-----------------------------------------------------------------------------
(* Changes of mappings and places keep the invariant *)

\* Mappings that stay up to date stay written.
LEMMA TablesGoOn ==
  ASSUME Typed, Tables, UNCHANGED <<gpu, rings, last_pt_update>>,
         \A v \in Vm, o \in Bo : mapped'[v][o] /\ status'[v][o] = "done" =>
           /\ mapped[v][o] /\ status[v][o] = "done" /\ place'[o] = place[o]
           /\ o \in freed'[v] => o \in freed[v],
         DirectoriesAreLinked'
  PROVE  Tables'
<1>1. UNCHANGED <<queue, done, emitted, pte>>
  BY DEF gpu, rings
<1>2. ASSUME NEW v \in Vm, NEW o \in Bo, mapped'[v][o], status'[v][o] = "done"
      PROVE  Linked(v, o)'
  <2>1. Linked(v, o) /\ place'[o] = place[o] /\ (o \in freed'[v] => o \in freed[v])
    BY <1>2 DEF Tables, MappingsAreLinked
  <2>. QED
    BY <1>1, <2>1 DEF Linked, Puts, Sets, Pending, Command
<1>. QED
  BY <1>2 DEF Tables, MappingsAreLinked

\* Directories stay linked when only mappings change.
LEMMA DirectoriesQuiet ==
  ASSUME Tables, UNCHANGED <<gpu, rings, addr, pdfence, pt>>
  PROVE  DirectoriesAreLinked'
<1>1. UNCHANGED <<queue, done, emitted, pde>>
  BY DEF gpu, rings
<1>. QED
  BY <1>1 DEF Tables, DirectoriesAreLinked, DirectoryLinked, Pending, Command

\* A mapping is added or removed.
LEMMA MappingKeeps ==
  ASSUME Typed, Intact, NEW v \in Vm, NEW o \in Bo, Map(v, o) \/ Unmap(v, o)
  PROVE  Intact'
<1>1. /\ \/ cs' = Idle
         \/ \E todo \in SUBSET {o} : cs' = UpdateOf(v, todo) /\ (todo # {} => mapped'[v][o])
      /\ \/ /\ mapped' = [mapped EXCEPT ![v][o] = TRUE]
            /\ status' = [status EXCEPT ![v][o] = "cleared"] /\ UNCHANGED freed
         \/ /\ mapped' = [mapped EXCEPT ![v][o] = FALSE]
            /\ status' = [status EXCEPT ![v][o] = "done"]
            /\ freed' = [freed EXCEPT ![v] = freed[v] \cup {o}]
      /\ UNCHANGED <<gpu, rings, ids, active, last_pt_update, addr, pdfence, places>>
  <2>1. CASE Map(v, o)
    <3>1. mapped' = [mapped EXCEPT ![v][o] = TRUE] /\ mapped \in [Vm -> [Bo -> BOOLEAN]]
      BY <2>1 DEF Map, Typed, Shapes, MapShape
    <3>2. mapped'[v][o]
      BY <3>1
    <3>3. cs' = Idle \/ cs' = UpdateOf(v, {o})
      BY <2>1 DEF Map
    <3>4. {o} \in SUBSET {o}
      OBVIOUS
    <3>5. /\ status' = [status EXCEPT ![v][o] = "cleared"] /\ UNCHANGED freed
          /\ UNCHANGED <<gpu, rings, ids, active, last_pt_update, addr, pdfence, places>>
      BY <2>1 DEF Map
    <3>. QED
      BY <3>1, <3>2, <3>3, <3>4, <3>5
  <2>2. CASE Unmap(v, o)
    <3>1. cs' = Idle \/ cs' = UpdateOf(v, {})
      BY <2>2 DEF Unmap
    <3>2. {} \in SUBSET {o}
      OBVIOUS
    <3>3. /\ mapped' = [mapped EXCEPT ![v][o] = FALSE]
          /\ status' = [status EXCEPT ![v][o] = "done"]
          /\ freed' = [freed EXCEPT ![v] = freed[v] \cup {o}]
          /\ UNCHANGED <<gpu, rings, ids, active, last_pt_update, addr, pdfence, places>>
      BY <2>2 DEF Unmap
    <3>. QED
      BY <3>1, <3>2, <3>3
  <2>. QED
    BY <2>1, <2>2
<1>2. /\ UNCHANGED <<place, pt, pd>>
      /\ mapped \in [Vm -> [Bo -> BOOLEAN]] /\ freed \in [Vm -> SUBSET Bo]
      /\ status \in [Vm -> [Bo -> {"cleared", "done", "invalid"}]]
  BY <1>1 DEF places, Typed, Shapes, MapShape
<1>3. ASSUME NEW k \in Vm, NEW p \in Bo, mapped'[k][p], status'[k][p] = "done"
      PROVE  /\ mapped[k][p] /\ status[k][p] = "done"
             /\ p \in freed'[k] => p \in freed[k]
  <2>1. CASE /\ mapped' = [mapped EXCEPT ![v][o] = TRUE]
             /\ status' = [status EXCEPT ![v][o] = "cleared"] /\ UNCHANGED freed
    <3>1. ~(k = v /\ p = o)
      BY <1>2, <1>3, <2>1
    <3>. QED
      BY <1>2, <1>3, <2>1, <3>1
  <2>2. CASE /\ mapped' = [mapped EXCEPT ![v][o] = FALSE]
             /\ status' = [status EXCEPT ![v][o] = "done"]
             /\ freed' = [freed EXCEPT ![v] = freed[v] \cup {o}]
    <3>1. ~(k = v /\ p = o)
      BY <1>2, <1>3, <2>2
    <3>. QED
      BY <1>2, <1>3, <2>2, <3>1
  <2>. QED
    BY <1>1, <2>1, <2>2
<1>4. \A k \in Vm, r \in Ring : NoteStays(k, r)
  <2>1. ASSUME NEW k \in Vm, NEW r \in Ring, NEW p \in Bo, Noted(k, r, p)'
        PROVE  Noted(k, r, p)
    BY <1>1, <1>3, <2>1 DEF Noted
  <2>. QED
    BY <1>1, <1>2, <2>1, NotesStay
<1>5. JobsLeftAlone
  BY <1>1, <1>2, JobsAlone
<1>6. Tables'
  <2>1. Tables
    BY DEF Intact
  <2>2. DirectoriesAreLinked'
    BY <1>1, <1>2, <2>1, DirectoriesQuiet
  <2>. QED
    BY <1>1, <1>2, <1>3, <2>1, <2>2, TablesGoOn
<1>7. SubmissionIsOrdered'
  BY <1>1 DEF SubmissionIsOrdered, UpdateOf, Idle
<1>. QED
  BY <1>1, <1>4, <1>5, <1>6, <1>7, StillKeeps

\* The commands that have not retired are those of the queues.
LEMMA InQueue ==
  ASSUME Typed, NEW r \in Ring, NEW n \in Pending(r)
  PROVE  Command(r, n) \in Commands
<1>1. /\ Len(queue[r]) = emitted[r] - done[r] /\ emitted[r] \in Nat /\ done[r] \in Nat
  BY QueueTypes
<1>2. n - done[r] \in 1 .. Len(queue[r])
  BY <1>1 DEF Pending
<1>. QED
  BY <1>2 DEF Command, Commands

\* A buffer moves.
LEMMA MoveKeeps ==
  ASSUME Typed, Intact, NEW o \in Bo, Move(o)
  PROVE  Intact'
<1>1. /\ cs # Idle => o \notin cs.use \cup cs.todo
      /\ \A c \in Commands : c.op = "job" => c.at[o] = 0
      /\ place' = [place EXCEPT ![o] = place[o] + 1]
      /\ status' = [v \in Vm |-> IF mapped[v][o] /\ status[v][o] = "done"
                                 THEN [status[v] EXCEPT ![o] = "invalid"] ELSE status[v]]
      /\ UNCHANGED <<gpu, rings, ids, active, mapped, freed, last_pt_update, addr, pdfence, pt, pd,
                     cs>>
  BY DEF Move
<1>2. /\ place \in [Bo -> Nat \ {0}]
      /\ status \in [Vm -> [Bo -> {"cleared", "done", "invalid"}]]
      /\ cs # Idle => cs.vm \in Vm /\ cs.use \subseteq Bo
  BY DEF Typed, Shapes, MapShape, StepShape, Submission
<1>3. \A p \in Bo : p # o => place'[p] = place[p] /\ \A v \in Vm : status'[v][p] = status[v][p]
  BY <1>1, <1>2
<1>4. ASSUME NEW v \in Vm, NEW p \in Bo, mapped'[v][p], status'[v][p] = "done"
      PROVE  mapped[v][p] /\ status[v][p] = "done" /\ place'[p] = place[p]
  <2>1. p # o
    BY <1>1, <1>2, <1>4
  <2>. QED
    BY <1>1, <1>3, <1>4, <2>1
<1>5. \A v \in Vm, r \in Ring : NoteStays(v, r)
  BY <1>1, <1>4 DEF NoteStays, Noted, TableMoved
<1>6. JobsLeftAlone
  <2>1. ASSUME NEW r \in Ring, NEW n \in Pending(r), Command(r, n).op = "job"
        PROVE  Command(r, n).at[o] = 0
    BY <1>1, <2>1, InQueue
  <2>. QED
    BY <1>1, <1>3, <2>1 DEF JobsLeftAlone, LeftAlone
<1>7. Tables'
  <2>1. Tables
    BY DEF Intact
  <2>2. DirectoriesAreLinked'
    BY <1>1, <2>1, DirectoriesQuiet
  <2>. QED
    BY <1>1, <1>4, <2>1, <2>2, TablesGoOn
<1>8. SubmissionIsOrdered'
  <2>1. ASSUME cs # Idle, NEW p \in cs.use \ cs.todo
        PROVE  status'[cs.vm][p] = "done"
    <3>1. status[cs.vm][p] = "done" /\ p # o /\ p \in Bo /\ cs.vm \in Vm
      BY <1>1, <1>2, <2>1 DEF Intact, SubmissionIsOrdered
    <3>. QED
      BY <1>3, <3>1
  <2>. QED
    BY <1>1, <2>1 DEF Intact, SubmissionIsOrdered, Idle
<1>. QED
  BY <1>1, <1>5, <1>6, <1>7, <1>8, StillKeeps

\* A table and its directory move.
LEMMA MoveTablesKeeps ==
  ASSUME Typed, Intact, NEW v \in Vm, MoveTables(v)
  PROVE  Intact'
<1>1. /\ cs # Idle => cs.vm # v
      /\ \A c \in Commands : c.vm # v
      /\ \/ pt' = [pt EXCEPT ![v] = pt[v] + 1] /\ UNCHANGED pd
         \/ pd' = [pd EXCEPT ![v] = pd[v] + 1] /\ UNCHANGED pt
      /\ UNCHANGED <<gpu, rings, ids, active, maps, addr, pdfence, place, cs>>
  BY DEF MoveTables
<1>2. /\ pt \in [Vm -> Nat \ {0}] /\ pd \in [Vm -> Nat \ {0}]
      /\ UNCHANGED <<mapped, status, freed, last_pt_update>>
  BY <1>1 DEF Typed, Shapes, MapShape, maps
<1>3. \A k \in Vm : k # v => pt'[k] = pt[k] /\ pd'[k] = pd[k]
  BY <1>1, <1>2
<1>4. pt'[v] = pt[v] \/ (addr[v] # pt'[v] /\ pt'[v] # 1)
  <2>1. addr[v] \in 0 .. pt[v] /\ pt[v] \in Nat \ {0}
    BY <1>2 DEF Typed, TypeOK
  <2>2. pt'[v] = pt[v] \/ pt'[v] = pt[v] + 1
    BY <1>1, <1>2
  <2>. QED
    BY <2>1, <2>2
<1>5. \A k \in Vm, r \in Ring : NoteStays(k, r)
  <2>1. ASSUME NEW k \in Vm, NEW j \in Nat
        PROVE  TableMoved(k, j)' \/ (pt'[k] = pt[k] /\ (TableMoved(k, j) => TableMoved(k, j)'))
    BY <1>1, <1>3, <1>4 DEF TableMoved
  <2>2. \A k \in Vm, r \in Ring, p \in Bo :
          Noted(k, r, p)' => Noted(k, r, p) /\ place'[p] = place[p]
    BY <1>1, <1>2 DEF Noted
  <2>. QED
    BY <1>1, <2>1, <2>2 DEF NoteStays
<1>6. JobsLeftAlone
  <2>1. ASSUME NEW r \in Ring, NEW n \in Pending(r), Command(r, n).op = "job"
        PROVE  LeftAlone(r, n)
    <3>1. Command(r, n) \in Cmd /\ Command(r, n).vm # v
      BY <1>1, InQueue, QueueTypes
    <3>2. PICK k \in Vm : k = Command(r, n).vm
      BY <3>1 DEF Cmd, WritesDirectory, WritesEntry, RunsJob
    <3>3. pt'[k] = pt[k] /\ pd'[k] = pd[k]
      BY <1>3, <3>1, <3>2
    <3>. QED
      BY <1>1, <3>2, <3>3 DEF LeftAlone
  <2>. QED
    BY <2>1 DEF JobsLeftAlone
<1>7. DirectoriesAreLinked'
  <2>1. UNCHANGED <<queue, done, emitted, pde>>
    BY <1>1 DEF gpu, rings
  <2>2. ASSUME NEW k \in Vm, addr'[k] = pt'[k]
        PROVE  DirectoryLinked(k)'
    <3>1. pt'[k] = pt[k]
      BY <1>1, <1>3, <1>4, <2>2
    <3>2. DirectoryLinked(k)
      BY <1>1, <2>2, <3>1 DEF Intact, Tables, DirectoriesAreLinked
    <3>. QED
      BY <1>1, <2>1, <3>1, <3>2 DEF DirectoryLinked, Pending, Command
  <2>3. ASSUME NEW n \in Pending(Dma), Command(Dma, n).op = "pde"
        PROVE  Command(Dma, n).to = pt'[Command(Dma, n).vm]
    <3>1. Dma \in Ring
      BY DEF Ring
    <3>2. Command(Dma, n) \in Cmd /\ Command(Dma, n).vm # v
      BY <1>1, <3>1, InQueue, QueueTypes
    <3>3. PICK k \in Vm : k = Command(Dma, n).vm
      BY <2>3, <3>2 DEF Cmd, WritesDirectory, WritesEntry, RunsJob
    <3>4. Command(Dma, n).to = pt[k]
      BY <2>3, <3>3 DEF Intact, Tables, DirectoriesAreLinked
    <3>. QED
      BY <1>3, <3>2, <3>3, <3>4
  <2>4. ASSUME NEW n \in Pending(Dma)', Command(Dma, n)'.op = "pde"
        PROVE  Command(Dma, n)'.to = pt'[Command(Dma, n)'.vm]
    <3>1. n \in Pending(Dma) /\ Command(Dma, n)' = Command(Dma, n)
      BY <2>1 DEF Pending, Command
    <3>. QED
      BY <2>3, <2>4, <3>1
  <2>. QED
    BY <2>2, <2>4 DEF DirectoriesAreLinked
<1>8. Tables'
  <2>1. Tables
    BY DEF Intact
  <2>. QED
    BY <1>1, <1>2, <1>7, <2>1, TablesGoOn
<1>9. SubmissionIsOrdered'
  <2>1. cs # Idle => pt'[cs.vm] = pt[cs.vm]
    <3>1. cs # Idle => cs.vm \in Vm
      BY DEF Typed, Shapes, StepShape, Submission
    <3>. QED
      BY <1>1, <1>3, <3>1
  <2>. QED
    BY <1>1, <1>2, <2>1 DEF Intact, SubmissionIsOrdered, Idle
<1>. QED
  BY <1>1, <1>5, <1>6, <1>8, <1>9, StillKeeps

-----------------------------------------------------------------------------
(* A job is scheduled *)

\* What a job waits for: the last job under its id on the other ring, and the updates.
LEMMA WantIs ==
  ASSUME Typed, cs.step = "schedule", NEW v \in Vm, NEW r \in Ring, v = cs.vm
  PROVE  /\ Want(r) \in Nat /\ Want(r) <= emitted[Other(r)]
         /\ \A a \in [ring : Ring, seq : Nat] :
              a = active[GrabId(v, r)] /\ ~StillValid(v, r) /\ a.ring # r => a.seq <= Want(r)
         /\ r # Dma => Updates <= Want(r)
<1>1. PICK a \in [ring : Ring, seq : Nat] : a = active[GrabId(v, r)]
  BY GrabIdTypes DEF Typed, Shapes, IdShape
<1>2. a.seq \in 0 .. emitted[a.ring] /\ emitted[a.ring] \in Nat /\ emitted[Other(r)] \in Nat
  <2>1. GrabId(v, r) \in Id
    BY GrabIdTypes
  <2>. QED
    BY <1>1, <2>1, QueueTypes, Others DEF Typed, TypeOK
<1>3. IdFence(v, r) = IF ~StillValid(v, r) /\ a.ring # r THEN a.seq ELSE 0
  BY <1>1 DEF IdFence
<1>4. IdFence(v, r) \in Nat /\ IdFence(v, r) <= emitted[Other(r)]
  <2>1. a.ring # r => a.ring = Other(r)
    BY Others
  <2>. QED
    BY <1>2, <1>3, <2>1
<1>5. PICK u : u = IF r = Dma THEN 0 ELSE Updates
  OBVIOUS
<1>6. u \in Nat /\ u <= emitted[Other(r)]
  <2>1. Updates \in 0 .. emitted[Dma] /\ emitted[Dma] \in Nat
    BY UpdatesAre
  <2>2. r # Dma => Other(r) = Dma
    BY Others
  <2>. QED
    BY <1>2, <1>5, <2>1, <2>2
<1>7. Want(r) = Larger(IdFence(v, r), u)
  BY <1>5 DEF Want
<1>8. /\ Want(r) \in Nat /\ Want(r) <= emitted[Other(r)]
      /\ IdFence(v, r) <= Want(r) /\ u <= Want(r)
  BY <1>2, <1>4, <1>6, <1>7 DEF Larger
<1>. QED
  BY <1>1, <1>3, <1>5, <1>8

\* What the scheduling of a job has done: command n of ring r is its job c.
Added(v, r, n, c) ==
  /\ cs.step = "schedule" /\ v = cs.vm /\ r = cs.ring /\ n = emitted[r] + 1
  /\ c.op = "job" /\ c.vm = v /\ c.id = GrabId(v, r) /\ c.pd = pd[v]
  /\ c.flush = NeedsFlush(v, r)
  /\ \A o \in Bo : c.at[o] = IF o \in cs.use THEN place[o] ELSE 0
  /\ Emitted(r, Want(r), c) /\ Goes
  /\ known' = [known EXCEPT ![r] = Larger(known[r], Await(r, Want(r)))]
  /\ ids'[v][r].id = c.id /\ ids'[v][r].use = n /\ ids'[v][r].pd = pd[v]
  /\ ~c.flush => ids'[v][r].flushed = ids[v][r].flushed
  /\ \A k \in Vm, q \in Ring : k # v \/ q # r => ids'[k][q] = ids[k][q]
  /\ active'[c.id].ring = r /\ active'[c.id].seq = n
  /\ \A i \in Id : i # c.id => active'[i] = active[i]
  /\ pdfence'[v] = pdfence[v] \/ (pdfence'[v] = 0 /\ pdfence[v] <= done[Dma])
  /\ \A k \in Vm : k # v => pdfence'[k] = pdfence[k]
  /\ UNCHANGED <<running, done, pde, pte, base, tlb, mapped, status, freed, last_pt_update, addr,
                 place, pt, pd>>
  /\ cs' = Idle

\* What a submission adds to its ring.
LEMMA ScheduleIs ==
  ASSUME Typed, Schedule
  PROVE  \E v \in Vm, r \in Ring, n \in Nat, c \in RunsJob : Added(v, r, n, c)
<1>1. PICK v, r : v = cs.vm /\ r = cs.ring
  OBVIOUS
<1>2. PICK n : n = emitted[r] + 1
  OBVIOUS
<1>3. PICK i : i = GrabId(v, r)
  OBVIOUS
<1>4. PICK c : c = [op |-> "job", vm |-> v, id |-> i, flush |-> NeedsFlush(v, r), pd |-> pd[v],
                    at |-> [o \in Bo |-> IF o \in cs.use THEN place[o] ELSE 0]]
  OBVIOUS
<1>5. /\ cs.step = "schedule" /\ Emit(r, Want(r), c) /\ ids' = Flushed(v, r, n)
      /\ active' = [active EXCEPT ![i] = [ring |-> r, seq |-> n]]
      /\ \E f \in Kept : pdfence' = [pdfence EXCEPT ![v] = f]
      /\ cs' = Idle
      /\ UNCHANGED <<gpu, maps, addr, places>>
  BY <1>1, <1>2, <1>3, <1>4 DEF Schedule
<1>6. /\ v \in Vm /\ r \in Ring /\ i \in Id /\ n \in Nat /\ cs.use \subseteq Bo
      /\ done[Dma] \in Nat
  <2>1. v \in Vm /\ r \in Ring /\ cs.use \subseteq Bo
    BY <1>1, <1>5, Going DEF Typed, Shapes, StepShape
  <2>. QED
    BY <1>2, <1>3, <2>1, GrabIdTypes, QueueTypes DEF Ring
<1>7. pd \in [Vm -> Nat \ {0}] /\ place \in [Bo -> Nat \ {0}] /\ pdfence \in [Vm -> Nat]
      /\ active \in [Id -> [ring : Ring, seq : Nat]]
  BY DEF Typed, Shapes, MapShape, IdShape
<1>8. c \in RunsJob
  <2>1. NeedsFlush(v, r) \in BOOLEAN
    BY DEF NeedsFlush
  <2>2. [o \in Bo |-> IF o \in cs.use THEN place[o] ELSE 0] \in [Bo -> Nat]
    BY <1>7
  <2>3. pd[v] \in Nat
    BY <1>6, <1>7
  <2>. QED
    BY <1>4, <1>6, <2>1, <2>2, <2>3 DEF RunsJob
<1>9. UNCHANGED <<running, done, pde, pte, base, tlb, mapped, status, freed, last_pt_update, addr,
                  place, pt, pd>>
  BY <1>5 DEF gpu, maps, places
<1>10. Emitted(r, Want(r), c) /\ Goes
  <2>1. Emitted(r, Want(r), c)
    BY <1>5, <1>6, <1>9, Emits
  <2>. QED
    BY <1>6, <2>1, GoesEmitted
<1>11. /\ ids'[v][r].id = i /\ ids'[v][r].use = n /\ ids'[v][r].pd = pd[v]
       /\ ids'[v][r].flushed = IF NeedsFlush(v, r) THEN Updates ELSE ids[v][r].flushed
       /\ \A k \in Vm, q \in Ring : k # v \/ q # r => ids'[k][q] = ids[k][q]
  <2>0. ids' = Flushed(v, r, n)
    BY <1>5
  <2>1. v \in Vm /\ r \in Ring /\ n \in Nat /\ cs.step = "schedule"
    BY <1>5, <1>6
  <2>2. \A w \in Vm, s \in Ring : w # v \/ s # r => Flushed(v, r, n)[w][s] = ids[w][s]
    BY <2>1, FlushedTypes
  <2>3. Flushed(v, r, n)[v][r].id = GrabId(v, r) /\ Flushed(v, r, n)[v][r].use = n
    BY <2>1, FlushedTypes
  <2>4. Flushed(v, r, n)[v][r].pd = pd[v]
    BY <2>1, FlushedTypes
  <2>5. Flushed(v, r, n)[v][r].flushed = IF NeedsFlush(v, r) THEN Updates ELSE ids[v][r].flushed
    BY <2>1, FlushedTypes
  <2>. QED
    BY <1>3, <1>6, <2>0, <2>2, <2>3, <2>4, <2>5
<1>12. /\ active'[i].ring = r /\ active'[i].seq = n
       /\ \A j \in Id : j # i => active'[j] = active[j]
  BY <1>5, <1>6, <1>7
<1>13. /\ pdfence'[v] = pdfence[v] \/ (pdfence'[v] = 0 /\ pdfence[v] <= done[Dma])
       /\ \A k \in Vm : k # v => pdfence'[k] = pdfence[k]
  <2>1. PICK f \in Kept : pdfence' = [pdfence EXCEPT ![v] = f]
    BY <1>5
  <2>2. f = pdfence[v] \/ (f = 0 /\ pdfence[v] <= done[Dma])
    BY <1>1, <1>6, <1>7 DEF Kept
  <2>. QED
    BY <1>6, <1>7, <2>1, <2>2
<1>14. \A o \in Bo : c.at[o] = IF o \in cs.use THEN place[o] ELSE 0
  BY <1>4
<1>15. /\ c.op = "job" /\ c.vm = v /\ c.id = i /\ c.pd = pd[v]
       /\ c.flush = NeedsFlush(v, r)
  BY <1>4
<1>16. known' = [known EXCEPT ![r] = Larger(known[r], Await(r, Want(r)))]
  BY <1>5 DEF Emit, Note
<1>17. Added(v, r, n, c)
  BY <1>1, <1>2, <1>3, <1>5, <1>9, <1>10, <1>11, <1>12, <1>13, <1>14, <1>15, <1>16 DEF Added
<1>. QED
  BY <1>6, <1>8, <1>17

\* The job is the last command of its ring, and behind what it waits for.
LEMMA AddedIs ==
  ASSUME Typed, KnownIsKept, NEW v \in Vm, NEW r \in Ring, NEW n \in Nat, NEW c \in RunsJob,
         Added(v, r, n, c)
  PROVE  /\ KnownIsKept'
         /\ \A s \in Nat : s <= Want(r) => Behind(r, n, s)'
         /\ \A q \in Ring : \A m \in Pending(q)' :
              /\ m \in Nat
              /\ m > emitted[q] => q = r /\ m = n
              /\ ~(m > emitted[q]) => m \in Pending(q) /\ Command(q, m)' = Command(q, m)
              /\ q = r => m <= n
         /\ n \in Pending(r)' /\ Command(r, n)' = c /\ ~Begun(r, n)'
         /\ emitted'[r] = n /\ emitted[r] < n /\ emitted[r] \in Nat
<1>1. /\ Emitted(r, Want(r), c) /\ Goes /\ n = emitted[r] + 1 /\ UNCHANGED <<running, done>>
      /\ known' = [known EXCEPT ![r] = Larger(known[r], Await(r, Want(r)))]
      /\ cs.step = "schedule" /\ v = cs.vm
  BY DEF Added
<1>2. Want(r) \in Nat /\ Want(r) <= emitted[Other(r)]
  BY <1>1, WantIs
<1>3. KnownIsKept' /\ \A s \in Nat : s <= Want(r) => Behind(r, n, s)'
  <2>1. \A k \in Nat, s \in Nat : k = emitted[r] + 1 /\ s <= Want(r) => Behind(r, k, s)'
    BY <1>1, <1>2, EmitBehind
  <2>2. KnownIsKept'
    BY <1>1, <1>2, EmitBehind
  <2>. QED
    BY <1>1, <2>1, <2>2
<1>4. /\ n \in Pending(r)' /\ Command(r, n)' = c
      /\ \A m \in Pending(r)' : m \in Nat /\ ~(m > n) /\ (m > emitted[r] => m = n)
  BY <1>1, NewCommand
<1>5. /\ \A q \in Ring : emitted[q] \in Nat /\ done[q] \in Nat /\ done'[q] = done[q]
      /\ emitted'[r] = n /\ \A q \in Ring : q # r => emitted'[q] = emitted[q]
  BY <1>1, QueueTypes, Others DEF Emitted, Same
<1>6. ASSUME NEW q \in Ring, NEW m \in Pending(q)'
      PROVE  /\ m \in Nat
             /\ m > emitted[q] => q = r /\ m = n
             /\ ~(m > emitted[q]) => m \in Pending(q) /\ Command(q, m)' = Command(q, m)
             /\ q = r => m <= n
  <2>1. m \in Nat /\ (q # r => m <= emitted[q])
    BY <1>5 DEF Pending
  <2>2. ASSUME ~(m > emitted[q])
        PROVE  m \in Pending(q) /\ Command(q, m)' = Command(q, m)
    <3>1. m <= emitted[q]
      BY <1>5, <2>1, <2>2
    <3>. QED
      BY <1>1, <3>1, OldCommand
  <2>. QED
    BY <1>4, <1>5, <2>1, <2>2
<1>7. ~Begun(r, n)'
  <2>1. running[r] => done[r] + 1 \in Pending(r)
    BY QueueTypes
  <2>2. done[r] <= emitted[r]
    BY QueueTypes
  <2>3. ~(n <= done[r]) /\ (n = done[r] + 1 => ~running[r])
    BY <1>1, <1>5, <2>1, <2>2 DEF Pending
  <2>. QED
    BY <1>1, <2>3 DEF Begun
<1>. QED
  BY <1>1, <1>3, <1>4, <1>5, <1>6, <1>7

\* The job takes its id over behind all that have had it.
LEMMA AddedOrder ==
  ASSUME Typed, Ordered, NEW v \in Vm, NEW r \in Ring, NEW n \in Nat, NEW c \in RunsJob,
         Added(v, r, n, c)
  PROVE  /\ IdOrder'
         /\ \A m \in Pending(Other(r))' : IsJob(Other(r), m, c.id)' => Behind(r, n, m)'
<1>1. /\ Goes /\ cs.step = "schedule" /\ v = cs.vm /\ c.id = GrabId(v, r) /\ c.id \in Id
      /\ active'[c.id].ring = r /\ active'[c.id].seq = n
      /\ \A i \in Id : i # c.id => active'[i] = active[i]
  BY DEF Added, RunsJob
<1>. KnownIsKept
  BY DEF Ordered
<1>2. /\ \A s \in Nat : s <= Want(r) => Behind(r, n, s)'
      /\ Command(r, n)' = c /\ emitted[r] < n /\ emitted[r] \in Nat
  BY AddedIs
<1>3. ASSUME NEW q \in Ring, NEW m \in Pending(q)'
      PROVE  /\ m \in Nat
             /\ m > emitted[q] => q = r /\ m = n
             /\ ~(m > emitted[q]) => m \in Pending(q) /\ Command(q, m)' = Command(q, m)
             /\ q = r => m <= n
  BY AddedIs
<1>4. PICK a \in [ring : Ring, seq : Nat] : a = active[c.id]
  BY <1>1 DEF Typed, Shapes, IdShape
<1>5. ASSUME NEW q \in Ring, q # r, NEW m \in Pending(q)', IsJob(q, m, c.id)'
      PROVE  Behind(r, n, m)'
  <2>1. m \in Nat /\ m \in Pending(q) /\ IsJob(q, m, c.id)
    BY <1>3, <1>5 DEF IsJob
  <2>2. IF a.ring = q THEN m <= a.seq ELSE Behind(a.ring, a.seq, m)
    BY <1>1, <1>4, <2>1 DEF Ordered, IdOrder
  <2>3. CASE a.ring = r
    <3>1. Behind(r, a.seq, m)
      BY <1>5, <2>2, <2>3
    <3>2. a.seq <= n
      <4>1. a.seq \in 0 .. emitted[r]
        BY <1>1, <1>4, <2>3 DEF Typed, TypeOK
      <4>. QED
        BY <1>2, <4>1
    <3>3. Behind(r, n, m)
      BY <2>1, <3>1, <3>2, BehindGrows
    <3>. QED
      BY <1>1, <2>1, <3>3, BehindStays
  <2>4. CASE a.ring # r
    <3>1. a.ring = q
      BY <1>5, <2>4, Others
    <3>2. ~StillValid(v, r)
      BY <1>1, <1>4, <2>4, GrabIdTypes
    <3>3. a.seq <= Want(r) /\ Want(r) \in Nat
      BY <1>1, <1>4, <2>4, <3>2, WantIs
    <3>4. m <= Want(r)
      BY <2>1, <2>2, <3>1, <3>3
    <3>. QED
      BY <1>2, <2>1, <3>4
  <2>. QED
    BY <2>3, <2>4
<1>6. ASSUME NEW q \in Ring, NEW m \in Pending(q)', NEW i \in Id, NEW p \in Ring, NEW k \in Nat,
             IsJob(q, m, i)', active'[i].ring = p, active'[i].seq = k
      PROVE  IF p = q THEN m <= k ELSE Behind(p, k, m)'
  <2>1. CASE i = c.id
    <3>1. p = r /\ k = n
      BY <1>1, <1>6, <2>1
    <3>. QED
      BY <1>3, <1>5, <1>6, <2>1, <3>1
  <2>2. CASE i # c.id
    <3>1. ~(m > emitted[q])
      BY <1>2, <1>3, <1>6, <2>2 DEF IsJob
    <3>2. m \in Nat /\ m \in Pending(q) /\ IsJob(q, m, i)
      BY <1>3, <1>6, <3>1 DEF IsJob
    <3>3. active[i].ring = p /\ active[i].seq = k
      BY <1>1, <1>6, <2>2
    <3>4. IF p = q THEN m <= k ELSE Behind(p, k, m)
      BY <3>2, <3>3 DEF Ordered, IdOrder
    <3>. QED
      BY <1>1, <3>2, <3>4, BehindStays
  <2>. QED
    BY <2>1, <2>2
<1>7. IdOrder'
  BY <1>6 DEF IdOrder
<1>8. Other(r) \in Ring /\ Other(r) # r
  BY Others
<1>. QED
  BY <1>5, <1>7, <1>8

\* What has been held stays so, unless the job takes the id over.
LEMMA AddedHeld ==
  ASSUME Typed, Ordered, NEW v \in Vm, NEW r \in Ring, NEW n \in Nat, NEW c \in RunsJob,
         Added(v, r, n, c), NEW q \in Ring, NEW m \in Nat, NEW f \in Nat, f > 0, f <= emitted[q],
         NEW w \in Session, Held(q, m, f, w),
         c.id = w.id => IF q = r THEN m <= emitted[r] \/ ~c.flush
                        ELSE m \in Pending(q)' /\ IsJob(q, m, c.id)'
  PROVE  Held(q, m, f, w)'
<1>1. /\ Emitted(r, Want(r), c) /\ UNCHANGED <<base, tlb>> /\ n = emitted[r] + 1
  BY DEF Added
<1>2. ASSUME c.id = w.id, q # r, NEW k \in Nat, k = emitted[r] + 1
      PROVE  Behind(r, k, m)'
  <2>1. q = Other(r) /\ m \in Pending(q)' /\ IsJob(q, m, c.id)'
    BY <1>2, Others
  <2>2. Behind(r, n, m)'
    BY <2>1, AddedOrder
  <2>. QED
    BY <1>1, <1>2, <2>2
<1>. QED
  BY <1>1, <1>2, HeldEmit

\* A job that flushes holds its id.
LEMMA NewHeld ==
  ASSUME Typed, Ordered, NEW v \in Vm, NEW r \in Ring, NEW n \in Nat, NEW c \in RunsJob,
         Added(v, r, n, c), c.flush, NEW w \in Session, w.id = c.id, w.vm = v, w.pd = pd[v],
         NEW m \in Nat
  PROVE  Held(r, m, n, w)'
<1>. KnownIsKept
  BY DEF Ordered
<1>1. c.op = "job" /\ c.vm = v /\ c.pd = pd[v]
  BY DEF Added
<1>2. Command(r, n)' = c /\ ~Begun(r, n)'
  BY AddedIs
<1>3. \A k \in Pending(r)' : k \in Nat /\ k <= n
  BY AddedIs
<1>4. \A k \in Pending(Other(r))' : IsJob(Other(r), k, c.id)' => Behind(r, n, k)'
  BY AddedOrder
<1>5. \A k \in Pending(r)' : ~(n < k)
  BY <1>3
<1>. QED
  BY <1>1, <1>2, <1>4, <1>5 DEF Held, IsJob

\* The new job leaves those before it alone.
LEMMA AddedAlone ==
  ASSUME Typed, NEW v \in Vm, NEW r \in Ring, NEW n \in Nat, NEW c \in RunsJob, Added(v, r, n, c)
  PROVE  JobsLeftAlone
<1>1. /\ ids'[v][r].use = n /\ n = emitted[r] + 1
      /\ \A k \in Vm, q \in Ring : k # v \/ q # r => ids'[k][q] = ids[k][q]
      /\ pdfence'[v] = pdfence[v] \/ pdfence'[v] = 0
      /\ \A k \in Vm : k # v => pdfence'[k] = pdfence[k]
      /\ UNCHANGED <<addr, place, pt, pd>>
  BY DEF Added
<1>2. ASSUME NEW q \in Ring, NEW m \in Pending(q), Command(q, m).op = "job"
      PROVE  LeftAlone(q, m)
  <2>1. Command(q, m) \in Cmd /\ emitted[q] \in Nat /\ done[q] \in Nat
    BY QueueTypes
  <2>2. PICK k \in Vm : k = Command(q, m).vm
    BY <1>2, <2>1 DEF Cmd, WritesDirectory, WritesEntry, RunsJob
  <2>3. m \in Nat /\ m <= emitted[q]
    BY <2>1 DEF Pending
  <2>4. ids'[k][q].use = ids[k][q].use \/ m <= ids'[k][q].use
    <3>1. CASE k = v /\ q = r
      BY <1>1, <2>1, <2>3, <3>1
    <3>2. CASE ~(k = v /\ q = r)
      BY <1>1, <3>2
    <3>. QED
      BY <3>1, <3>2
  <2>5. pdfence'[k] = pdfence[k] \/ pdfence'[k] = 0
    BY <1>1
  <2>. QED
    BY <1>1, <2>2, <2>4, <2>5 DEF LeftAlone
<1>. QED
  BY <1>2 DEF JobsLeftAlone

\* A table that has moved is not forgotten; what has been noted of other ids stays.
LEMMA AddedNotes ==
  ASSUME Typed, NEW v \in Vm, NEW r \in Ring, NEW n \in Nat, NEW c \in RunsJob, Added(v, r, n, c)
  PROVE  /\ \A k \in Vm, j \in Nat : TableMoved(k, j) => TableMoved(k, j)'
         /\ \A k \in Vm, q \in Ring : k # v \/ q # r => NoteStays(k, q)
<1>1. /\ \A k \in Vm, q \in Ring : k # v \/ q # r => ids'[k][q] = ids[k][q]
      /\ pdfence'[v] = pdfence[v] \/ pdfence'[v] = 0
      /\ \A k \in Vm : k # v => pdfence'[k] = pdfence[k]
      /\ UNCHANGED <<mapped, status, last_pt_update, addr, place, pt>>
  BY DEF Added
<1>2. \A k \in Vm, j \in Nat : TableMoved(k, j) => TableMoved(k, j)'
  BY <1>1 DEF TableMoved
<1>3. ASSUME NEW k \in Vm, NEW q \in Ring, k # v \/ q # r
      PROVE  NoteStays(k, q)
  <2>1. ids'[k][q] = ids[k][q]
    BY <1>1, <1>3
  <2>2. \A o \in Bo : Noted(k, q, o)' => Noted(k, q, o) /\ place'[o] = place[o]
    BY <1>1, <2>1 DEF Noted
  <2>. QED
    BY <1>1, <1>2, <2>1, <2>2 DEF NoteStays
<1>. QED
  BY <1>2, <1>3

\* The address space still has its id: what a session may cache is what has been noted.
LEMMA UnflushedKeeps ==
  ASSUME Typed, Intact, NEW v \in Vm, NEW r \in Ring, NEW n \in Nat, NEW c \in RunsJob,
         Added(v, r, n, c), ~c.flush
  PROVE  /\ StillValid(v, r) /\ c.id = ids[v][r].id /\ ids[v][r].pd = pd[v]
         /\ \A k \in Nat : k = ids[v][r].flushed => (TableMoved(v, k) => Dropped(v)')
         /\ \A o \in cs.use : Noted(v, r, o)
         /\ \A w \in Session : Keeps(w, v, r)' => Keeps(w, v, r)
<1>1. /\ cs.step = "schedule" /\ v = cs.vm /\ r = cs.ring /\ c.id = GrabId(v, r)
      /\ c.flush = NeedsFlush(v, r)
      /\ ids'[v][r].id = c.id /\ ids'[v][r].pd = pd[v]
      /\ ids'[v][r].flushed = ids[v][r].flushed
      /\ pdfence'[v] = pdfence[v] \/ pdfence'[v] = 0
      /\ UNCHANGED <<mapped, status, last_pt_update, addr, place, pt, pd>>
  BY DEF Added
<1>2. /\ StillValid(v, r) /\ ids[v][r].pd = pd[v] /\ ~(ids[v][r].flushed < Updates)
  BY <1>1 DEF NeedsFlush
<1>3. c.id = ids[v][r].id
  BY <1>1, <1>2, GrabIdTypes
<1>4. /\ Updates \in Nat /\ ids[v][r].flushed \in Nat /\ pdfence[v] \in Nat
      /\ pdfence[v] <= Updates
      /\ \A o \in cs.use : last_pt_update[v][o] <= Updates /\ last_pt_update[v][o] \in Nat
  <2>1. ids[v][r].flushed \in Nat
    BY IdsBounds
  <2>2. Updates \in 0 .. emitted[Dma] /\ emitted[Dma] \in Nat
    BY <1>1, UpdatesAre
  <2>3. pdfence[cs.vm] <= Updates /\ pdfence[cs.vm] \in Nat
    BY <1>1, UpdatesAre
  <2>4. \A o \in cs.use : last_pt_update[cs.vm][o] <= Updates
    BY <1>1, UpdatesAre
  <2>5. \A o \in cs.use : last_pt_update[cs.vm][o] \in Nat
    BY <1>1, UpdatesAre
  <2>. QED
    BY <1>1, <2>1, <2>2, <2>3, <2>4, <2>5
<1>5. /\ addr[v] = pt[v] /\ cs.use \subseteq Bo
      /\ \A o \in cs.use : mapped[v][o] /\ status[v][o] = "done"
  <2>1. cs # Idle /\ cs.ring # "none" /\ cs.use \subseteq Bo
    <3>1. "none" \notin Ring
      BY DEF Ring, Dma
    <3>. QED
      BY <1>1, <3>1, Going
  <2>. QED
    BY <1>1, <2>1 DEF Intact, SubmissionIsOrdered
<1>6. ASSUME NEW k \in Nat, k = ids[v][r].flushed, TableMoved(v, k)
      PROVE  Dropped(v)'
  <2>1. ~(pdfence[v] > k)
    BY <1>2, <1>4, <1>6
  <2>2. pt[v] # 1 /\ pdfence[v] = 0
    BY <1>5, <1>6, <2>1 DEF TableMoved
  <2>. QED
    BY <1>1, <2>2 DEF Dropped
<1>7. \A o \in cs.use : Noted(v, r, o)
  <2>1. \A o \in cs.use : last_pt_update[v][o] <= ids[v][r].flushed
    BY <1>2, <1>4
  <2>. QED
    BY <1>5, <2>1 DEF Noted
<1>8. ASSUME NEW w \in Session, Keeps(w, v, r)'
      PROVE  Keeps(w, v, r)
  <2>1. PICK k \in Nat : k = ids[v][r].flushed
    BY <1>4
  <2>2. TableMoved(v, k) => TableMoved(v, k)'
    BY AddedNotes
  <2>3. TableMoved(v, k)' => w.tables = Nat
    BY <1>1, <1>8, <2>1 DEF Keeps, TableMoved
  <2>4. \A o \in Bo : Noted(v, r, o)' <=> Noted(v, r, o)
    BY <1>1 DEF Noted
  <2>5. /\ w.id = c.id /\ w.vm = v /\ w.pd = pd[v] /\ 0 \in w.tables /\ pt[v] \in w.tables
        /\ \A o \in Bo : /\ 0 \in w.pages[o] /\ place[o] \in w.pages[o]
                         /\ ~Noted(v, r, o)' => w.pages[o] = Nat
    BY <1>1, <1>8 DEF Keeps
  <2>. QED
    BY <1>2, <1>3, <2>1, <2>2, <2>3, <2>4, <2>5 DEF Keeps
<1>. QED
  BY <1>2, <1>3, <1>6, <1>7, <1>8

\* The new job has been given what is right, owns its id, and finds its entries written.
LEMMA NewJob ==
  ASSUME Typed, Intact, NEW v \in Vm, NEW r \in Ring, NEW n \in Nat, NEW c \in RunsJob,
         Added(v, r, n, c)
  PROVE  /\ Current(r, n)'
         /\ \A w \in Session : Wants(w, r, n)' => \E f \in 1 .. n : Held(r, n, f, w)'
         /\ \A o \in Bo : c.at[o] # 0 => Written(r, n, o)'
<1>. Ordered /\ KnownIsKept
  BY DEF Intact, Ordered
<1>1. /\ cs.step = "schedule" /\ v = cs.vm /\ r = cs.ring /\ n = emitted[r] + 1
      /\ c.op = "job" /\ c.vm = v /\ c.pd = pd[v] /\ c.flush = NeedsFlush(v, r) /\ Goes
      /\ \A o \in Bo : c.at[o] = IF o \in cs.use THEN place[o] ELSE 0
      /\ ids'[v][r].use = n
      /\ pdfence'[v] = pdfence[v] \/ pdfence'[v] = 0
      /\ UNCHANGED <<done, pte, last_pt_update, addr, place, pt, pd>>
  BY DEF Added
<1>2. Command(r, n)' = c /\ \A s \in Nat : s <= Want(r) => Behind(r, n, s)'
  BY AddedIs
<1>3. /\ addr[v] = pt[v] /\ cs.use \subseteq Bo
      /\ \A o \in cs.use : mapped[v][o] /\ status[v][o] = "done"
  <2>1. cs # Idle /\ cs.ring # "none" /\ cs.use \subseteq Bo
    <3>1. "none" \notin Ring
      BY DEF Ring, Dma
    <3>. QED
      BY <1>1, <3>1, Going
  <2>. QED
    BY <1>1, <2>1 DEF Intact, SubmissionIsOrdered
<1>4. ASSUME NEW u \in Nat, u <= Updates
      PROVE  After(r, n, u)'
  <2>1. Updates \in 0 .. emitted[Dma] /\ emitted[Dma] \in Nat
    BY <1>1, UpdatesAre
  <2>2. CASE r = Dma
    <3>1. u < n
      BY <1>1, <1>4, <2>1, <2>2
    <3>. QED
      BY <2>2, <3>1 DEF After
  <2>3. CASE r # Dma
    <3>1. Updates <= Want(r) /\ Want(r) \in Nat
      BY <1>1, <2>3, WantIs
    <3>2. u <= Want(r)
      BY <1>4, <2>1, <3>1
    <3>. QED
      BY <1>2, <2>3, <3>2 DEF After
  <2>. QED
    BY <2>2, <2>3
<1>5. Current(r, n)'
  <2>1. ASSUME NEW u \in Nat, u = pdfence'[v]
        PROVE  After(r, n, u)'
    <3>1. pdfence[v] <= Updates /\ pdfence[v] \in Nat /\ Updates \in 0 .. emitted[Dma]
      BY <1>1, UpdatesAre
    <3>2. u <= Updates
      BY <1>1, <2>1, <3>1
    <3>. QED
      BY <1>4, <3>2
  <2>2. \A o \in Bo : c.at[o] \in {0, place[o]}
    BY <1>1
  <2>3. n <= ids'[v][r].use
    BY <1>1
  <2>. QED
    BY <1>1, <1>2, <1>3, <2>1, <2>2, <2>3 DEF Current
<1>6. ASSUME NEW w \in Session, Wants(w, r, n)'
      PROVE  \E f \in 1 .. n : Held(r, n, f, w)'
  <2>1. /\ w.id = c.id /\ w.vm = v /\ w.pd = pd[v] /\ 0 \in w.tables /\ pt[v] \in w.tables
        /\ Dropped(v)' => w.tables = Nat
        /\ \A o \in Bo : /\ 0 \in w.pages[o] /\ place[o] \in w.pages[o]
                         /\ c.at[o] = 0 => w.pages[o] = Nat
    BY <1>1, <1>2, <1>6 DEF Wants, Dropped
  <2>2. CASE c.flush
    <3>1. Held(r, n, n, w)'
      BY <2>1, <2>2, NewHeld
    <3>2. n \in 1 .. n
      BY <1>1, QueueTypes
    <3>. QED
      BY <3>1, <3>2
  <2>3. CASE ~c.flush
    <3>1. /\ StillValid(v, r) /\ c.id = ids[v][r].id /\ ids[v][r].pd = pd[v]
          /\ \A k \in Nat : k = ids[v][r].flushed => (TableMoved(v, k) => Dropped(v)')
          /\ \A o \in cs.use : Noted(v, r, o)
      BY <2>3, UnflushedKeeps
    <3>2. Keeps(w, v, r)
      <4>1. PICK k \in Nat : k = ids[v][r].flushed
        BY IdsBounds
      <4>2. TableMoved(v, k) => w.tables = Nat
        BY <2>1, <3>1, <4>1
      <4>3. ASSUME NEW o \in Bo, ~Noted(v, r, o) PROVE w.pages[o] = Nat
        BY <1>1, <2>1, <3>1, <4>3
      <4>. QED
        BY <2>1, <3>1, <4>1, <4>2, <4>3 DEF Keeps
    <3>3. PICK f \in 1 .. ids[v][r].use : \A m \in Nat : m > emitted[r] => Held(r, m, f, w)
      BY <3>1, <3>2 DEF Intact, IdsAreKept
    <3>4. ids[v][r].use \in 0 .. emitted[r] /\ emitted[r] \in Nat
      BY QueueTypes DEF Typed, TypeOK
    <3>5. f \in Nat /\ f > 0 /\ f <= emitted[r] /\ n > emitted[r] /\ f \in 1 .. n
      BY <1>1, <3>4
    <3>6. Held(r, n, f, w)
      BY <3>3, <3>5
    <3>7. Held(r, n, f, w)'
      BY <2>3, <3>5, <3>6, AddedHeld
    <3>. QED
      BY <3>5, <3>7
  <2>. QED
    BY <2>2, <2>3
<1>7. ASSUME NEW o \in Bo, c.at[o] # 0
      PROVE  Written(r, n, o)'
  <2>1. o \in cs.use /\ mapped[v][o] /\ status[v][o] = "done"
    BY <1>1, <1>3, <1>7
  <2>2. PICK u \in Nat : u = last_pt_update[v][o]
    BY DEF Typed, Shapes, MapShape
  <2>3. Linked(v, o)
    BY <2>1 DEF Intact, Tables, MappingsAreLinked
  <2>4. Puts(u, v, o) /\ \A m \in Pending(Dma) : m > u => ~Sets(m, v, o)
    BY <2>2, <2>3 DEF Linked
  <2>5. After(r, n, u)'
    <3>1. u <= Updates
      BY <1>1, <2>1, <2>2, UpdatesAre
    <3>. QED
      BY <1>4, <3>1
  <2>6. Puts(u, v, o)'
    <3>1. NoWrite
      <4>1. \A m \in Pending(Dma) : ~(m <= done'[Dma])
        BY <1>1, QueueTypes DEF Ring, Pending
      <4>. QED
        BY <4>1 DEF NoWrite
    <3>. QED
      BY <1>1, <2>4, <3>1, PutsStays
  <2>7. ASSUME NEW m \in Pending(Dma)', m > u
        PROVE  ~Sets(m, v, o)'
    <3>1. Dma \in Ring
      BY DEF Ring
    <3>2. CASE m > emitted[Dma]
      <4>1. Command(Dma, m)' = c
        BY <1>2, <3>1, <3>2, AddedIs
      <4>. QED
        BY <1>1, <4>1 DEF Sets
    <3>3. CASE ~(m > emitted[Dma])
      <4>1. m \in Pending(Dma) /\ Command(Dma, m)' = Command(Dma, m)
        BY <3>1, <3>3, AddedIs
      <4>. QED
        BY <2>4, <2>7, <4>1 DEF Sets
    <3>. QED
      BY <3>2, <3>3
  <2>. QED
    BY <1>1, <1>2, <2>5, <2>6, <2>7 DEF Written
<1>. QED
  BY <1>5, <1>6, <1>7

\* The new job leaves its id to its address space, and takes it from another only behind its
\* jobs.
LEMMA AddedKept ==
  ASSUME Typed, Intact, NEW v \in Vm, NEW r \in Ring, NEW n \in Nat, NEW c \in RunsJob,
         Added(v, r, n, c)
  PROVE  IdsAreKept'
<1>. Ordered /\ KnownIsKept
  BY DEF Intact, Ordered
<1>1. /\ Goes /\ ids'[v][r].id = c.id /\ ids'[v][r].use = n /\ ids'[v][r].pd = pd[v]
      /\ \A k \in Vm, q \in Ring : k # v \/ q # r => ids'[k][q] = ids[k][q]
      /\ active'[c.id].ring = r /\ active'[c.id].seq = n
      /\ \A i \in Id : i # c.id => active'[i] = active[i]
      /\ UNCHANGED pd
  BY DEF Added
<1>2. emitted'[r] = n /\ emitted[r] < n /\ emitted[r] \in Nat
  BY AddedIs
<1>3. ASSUME NEW w \in Session, Keeps(w, v, r)'
      PROVE  \E f \in 1 .. n : \A m \in Nat : m > n => Held(r, m, f, w)'
  <2>1. w.id = c.id /\ w.vm = v /\ w.pd = pd[v]
    BY <1>1, <1>3 DEF Keeps
  <2>2. CASE c.flush
    <3>1. \A m \in Nat : Held(r, m, n, w)'
      BY <2>1, <2>2, NewHeld
    <3>2. n \in 1 .. n
      BY <1>2
    <3>. QED
      BY <3>1, <3>2
  <2>3. CASE ~c.flush
    <3>1. StillValid(v, r) /\ Keeps(w, v, r)
      BY <1>3, <2>3, UnflushedKeeps
    <3>2. PICK f \in 1 .. ids[v][r].use : \A m \in Nat : m > emitted[r] => Held(r, m, f, w)
      BY <3>1 DEF Intact, IdsAreKept
    <3>3. ids[v][r].use \in 0 .. emitted[r]
      BY DEF Typed, TypeOK
    <3>4. f \in Nat /\ f > 0 /\ f <= emitted[r] /\ f \in 1 .. n
      BY <1>2, <3>3
    <3>5. ASSUME NEW m \in Nat, m > n PROVE Held(r, m, f, w)'
      <4>1. Held(r, m, f, w)
        BY <1>2, <3>2, <3>5
      <4>. QED
        BY <2>3, <3>4, <4>1, AddedHeld
    <3>. QED
      BY <3>4, <3>5
  <2>. QED
    BY <2>2, <2>3
<1>4. ASSUME NEW k \in Vm, NEW q \in Ring, k # v \/ q # r, StillValid(k, q)'
      PROVE  StillValid(k, q) /\ ids[k][q].id # c.id
  <2>1. ids'[k][q] = ids[k][q]
    BY <1>1, <1>4
  <2>2. /\ ids[k][q].id # 0 /\ ids[k][q].id \in 0 .. Nvm /\ ids[k][q].use # 0
        /\ active'[ids[k][q].id] = [ring |-> q, seq |-> ids[k][q].use]
        /\ ids[k][q].use \in 0 .. emitted[q]
    BY <1>4, <2>1 DEF StillValid, Typed, TypeOK
  <2>3. ids[k][q].id \in Id
    BY <2>2, VmAssumption DEF Id
  <2>4. ids[k][q].id # c.id
    <3>1. SUFFICES ASSUME ids[k][q].id = c.id PROVE FALSE
      OBVIOUS
    <3>2. q = r /\ ids[k][q].use = n
      BY <1>1, <2>2, <3>1
    <3>. QED
      BY <1>2, <2>2, <3>2
  <2>5. PICK i \in Id : i = ids[k][q].id
    BY <2>3
  <2>6. active'[i] = active[i]
    <3>1. i # c.id
      BY <2>4, <2>5
    <3>2. \A j \in Id : j # c.id => active'[j] = active[j]
      BY <1>1
    <3>. QED
      BY <3>1, <3>2
  <2>7. active[i] = [ring |-> q, seq |-> ids[k][q].use]
    BY <2>2, <2>5, <2>6
  <2>8. StillValid(k, q)
    BY <2>2, <2>5, <2>7 DEF StillValid
  <2>. QED
    BY <2>4, <2>8
<1>5. ASSUME NEW k \in Vm, NEW q \in Ring, k # v \/ q # r, StillValid(k, q)', NEW w \in Session,
             Keeps(w, k, q)'
      PROVE  \E f \in 1 .. ids'[k][q].use : \A m \in Nat : m > emitted'[q] => Held(q, m, f, w)'
  <2>1. StillValid(k, q) /\ ids[k][q].id # c.id
    BY <1>4, <1>5
  <2>2. NoteStays(k, q)
    BY <1>5, AddedNotes
  <2>3. ASSUME NEW m \in Nat, NEW f \in Nat, NEW x \in Session,
               m > emitted'[q], f > 0, f <= m, f <= emitted[q], Roomy(x), x.id = ids[k][q].id,
               Held(q, m, f, x)
        PROVE  Held(q, m, f, x)'
    BY <2>1, <2>3, AddedHeld
  <2>4. IdsAreKept
    BY DEF Intact
  <2>. QED
    BY <1>1, <1>5, <2>1, <2>2, <2>3, <2>4, KeptStays
<1>6. ASSUME NEW k \in Vm, NEW q \in Ring, NEW w \in Session, StillValid(k, q)', Keeps(w, k, q)'
      PROVE  \E f \in 1 .. ids'[k][q].use : \A m \in Nat : m > emitted'[q] => Held(q, m, f, w)'
  <2>1. CASE k = v /\ q = r
    BY <1>1, <1>2, <1>3, <1>6, <2>1
  <2>2. CASE k # v \/ q # r
    BY <1>5, <1>6, <2>2
  <2>. QED
    BY <2>1, <2>2
<1>. QED
  BY <1>6 DEF IdsAreKept

\* A job is submitted.
LEMMA ScheduleKeeps ==
  ASSUME Typed, Intact, Schedule
  PROVE  Intact'
<1>. Ordered /\ KnownIsKept
  BY DEF Intact, Ordered
<1>1. PICK v \in Vm, r \in Ring, n \in Nat, c \in RunsJob : Added(v, r, n, c)
  BY ScheduleIs
<1>2. /\ Goes /\ c.op = "job" /\ c.vm = v /\ cs' = Idle
      /\ \/ pdfence'[v] = pdfence[v]
         \/ pdfence'[v] = 0 /\ pdfence[v] <= done[Dma]
      /\ \A k \in Vm : k # v => pdfence'[k] = pdfence[k]
      /\ UNCHANGED <<running, done, pde, pte, mapped, status, freed, last_pt_update, addr, place,
                     pt>>
  BY <1>1 DEF Added
<1>3. /\ KnownIsKept' /\ Command(r, n)' = c
      /\ \A q \in Ring : \A m \in Pending(q)' :
           /\ m \in Nat
           /\ m > emitted[q] => q = r /\ m = n
           /\ ~(m > emitted[q]) => m \in Pending(q) /\ Command(q, m)' = Command(q, m)
  BY <1>1, AddedIs
<1>4. IdOrder'
  BY <1>1, AddedOrder
<1>5. WaitsMet'
  BY <1>2, WaitsStay DEF Ordered
<1>6. IdsAreKept'
  BY <1>1, AddedKept
<1>7. NoWrite /\ Dma \in Ring
  <2>1. \A m \in Pending(Dma) : ~(m <= done'[Dma])
    BY <1>2, QueueTypes DEF Ring, Pending
  <2>. QED
    BY <2>1 DEF NoWrite, Ring
<1>8. \A m \in Pending(Dma)' : m > emitted[Dma] => Command(Dma, m)' = c
  BY <1>3, <1>7
<1>9. ASSUME NEW q \in Ring, NEW m \in Pending(q)', Command(q, m)'.op = "job"
      PROVE  /\ Current(q, m)'
             /\ \A w \in Session : Wants(w, q, m)' => \E f \in 1 .. m : Held(q, m, f, w)'
             /\ \A o \in Bo : Command(q, m)'.at[o] # 0 => Written(q, m, o)'
  <2>1. CASE m > emitted[q]
    <3>1. q = r /\ m = n
      BY <1>3, <2>1
    <3>2. /\ Current(r, n)'
          /\ \A w \in Session : Wants(w, r, n)' => \E f \in 1 .. n : Held(r, n, f, w)'
          /\ \A o \in Bo : c.at[o] # 0 => Written(r, n, o)'
      BY <1>1, NewJob
    <3>. QED
      BY <1>3, <3>1, <3>2
  <2>2. CASE ~(m > emitted[q])
    <3>1. m \in Nat /\ m \in Pending(q) /\ Command(q, m)' = Command(q, m)
      BY <1>3, <2>2
    <3>2. emitted[q] \in Nat /\ done[q] \in Nat /\ Command(q, m) \in Cmd
      BY <3>1, QueueTypes
    <3>3. m <= emitted[q] /\ m > done[q]
      BY <2>2, <3>1, <3>2 DEF Pending
    <3>4. LeftAlone(q, m) /\ Command(q, m).op = "job"
      BY <1>1, <1>2, <1>9, <3>1, <3>3, AddedAlone DEF JobsLeftAlone
    <3>5. PICK d \in RunsJob : d = Command(q, m)
      BY <3>2, <3>4 DEF Cmd, WritesDirectory, WritesEntry
    <3>6. ASSUME NEW f \in Nat, NEW w \in Session,
                 f > 0, f <= m, Roomy(w), w.id = Command(q, m).id, Held(q, m, f, w)
          PROVE  Held(q, m, f, w)'
      <4>1. f <= emitted[q]
        BY <3>1, <3>2, <3>3, <3>6
      <4>2. c.id = w.id => IF q = r THEN m <= emitted[r] \/ ~c.flush
                           ELSE m \in Pending(q)' /\ IsJob(q, m, c.id)'
        BY <1>9, <3>1, <3>3, <3>6 DEF IsJob
      <4>. QED
        BY <1>1, <3>1, <3>6, <4>1, <4>2, AddedHeld
    <3>7. /\ Current(q, m)'
          /\ \A w \in Session : Wants(w, q, m)' => \E f \in 1 .. m : Held(q, m, f, w)'
      <4>1. JobsAreCurrent /\ JobsOwnIds
        BY DEF Intact, Jobs
      <4>. QED
        BY <1>2, <3>3, <3>4, <3>6, <4>1, JobStays
    <3>8. ASSUME NEW o \in Bo, Command(q, m)'.at[o] # 0
          PROVE  Written(q, m, o)'
      <4>1. Written(q, m, o)
        BY <3>1, <3>4, <3>8 DEF Intact, Jobs, EntriesAreWritten
      <4>2. \A k \in Pending(Dma)' : k > emitted[Dma] => ~Sets(k, d.vm, o)'
        BY <1>2, <1>8 DEF Sets
      <4>. QED
        BY <1>2, <1>7, <3>1, <3>5, <4>1, <4>2, WrittenStays
    <3>. QED
      BY <3>7, <3>8
  <2>. QED
    BY <2>1, <2>2
<1>10. Jobs'
  BY <1>9 DEF Jobs, JobsAreCurrent, JobsOwnIds, EntriesAreWritten
<1>11. ASSUME NEW k \in Vm, NEW o \in Bo, mapped'[k][o], status'[k][o] = "done"
       PROVE  Linked(k, o)'
  <2>1. Linked(k, o)
    BY <1>2, <1>11 DEF Intact, Tables, MappingsAreLinked
  <2>2. o \notin freed'[k]
    BY <1>2, <2>1 DEF Linked
  <2>3. \A m \in Pending(Dma)' : m > emitted[Dma] => ~Sets(m, k, o)'
    BY <1>2, <1>8 DEF Sets
  <2>. QED
    BY <1>2, <1>7, <2>1, <2>2, <2>3, LinkedStays
<1>12. DirectoriesAreLinked'
  <2>1. DirectoriesAreLinked
    BY DEF Intact, Tables
  <2>2. \A k \in Vm : addr'[k] = pt'[k] =>
          \/ DirectoryLinked(k)'
          \/ /\ addr[k] = pt[k] /\ pt'[k] = pt[k]
             /\ pdfence'[k] = pdfence[k] \/ (pdfence'[k] = 0 /\ pdfence[k] <= done[Dma])
    BY <1>2
  <2>3. \A m \in Pending(Dma)' : Command(Dma, m)'.op = "pde" =>
          IF m > emitted[Dma] THEN Command(Dma, m)'.to = pt'[Command(Dma, m)'.vm]
          ELSE pt'[Command(Dma, m).vm] = pt[Command(Dma, m).vm]
    BY <1>2, <1>8
  <2>. QED
    BY <1>2, <1>7, <2>1, <2>2, <2>3, DirectoriesStay
<1>13. SubmissionIsOrdered'
  BY <1>2 DEF SubmissionIsOrdered, Idle
<1>. QED
  BY <1>3, <1>4, <1>5, <1>6, <1>10, <1>11, <1>12, <1>13
     DEF Intact, Ordered, Tables, MappingsAreLinked

-----------------------------------------------------------------------------
(* The invariant, and what it says of a job that runs *)

\* At first nothing is queued, mapped or cached.
LEMMA InitIntact == Init => Intact
<1>. SUFFICES ASSUME Init PROVE Intact
  OBVIOUS
<1>. Typed
  BY InitTypes
<1>1. /\ \A r \in Ring : emitted[r] = 0 /\ done[r] = 0 /\ known[r] = 0 /\ ~running[r]
      /\ \A v \in Vm, r \in Ring : ids[v][r].id = 0
      /\ \A v \in Vm, o \in Bo : /\ status[v][o] = IF mapped[v][o] THEN "cleared" ELSE "done"
      /\ \A v \in Vm : addr[v] = 0 /\ pt[v] = 1
      /\ cs = Idle
  BY DEF Init
<1>2. \A r \in Ring : \A n \in Pending(r) : FALSE
  BY <1>1 DEF Pending
<1>3. WaitsMet /\ IdOrder
  BY <1>1, <1>2 DEF WaitsMet, IdOrder
<1>4. KnownIsKept
  BY <1>1, Others DEF KnownIsKept, Behind
<1>5. Jobs
  BY <1>2 DEF Jobs, JobsAreCurrent, JobsOwnIds, EntriesAreWritten
<1>6. IdsAreKept
  BY <1>1 DEF IdsAreKept, StillValid
<1>7. Tables
  <2>1. \A n \in Pending(Dma) : FALSE
    BY <1>2 DEF Ring
  <2>. QED
    BY <1>1, <2>1 DEF Tables, MappingsAreLinked, DirectoriesAreLinked
<1>8. SubmissionIsOrdered
  BY <1>1 DEF SubmissionIsOrdered
<1>. QED
  BY <1>3, <1>4, <1>5, <1>6, <1>7, <1>8 DEF Intact, Ordered

\* As long as no update and no submission fails, every step keeps the invariant.
LEMMA NextIntact == Typed /\ VmInv /\ [Next]_vars => VmInv'
<1>. SUFFICES ASSUME Typed, VmInv, [Next]_vars, fails' = 0 PROVE Intact'
  BY DEF VmInv
<1>1. fails = 0 /\ ~ScheduleUnsynced /\ ~ScheduleUnfenced
  <2>1. fails \in Nat
    BY DEF Typed, TypeOK
  <2>2. fails' = fails \/ fails' = fails + 1
    BY DEF Next, Execute, Step, vars, bounds, Write, Start, Finish, Submit, UpdateDirectory,
           ClearFreed, FreedCleared, BoUpdate, BosUpdated, ClearInvalid, InvalidsCleared,
           Schedule, ScheduleUnsynced, ScheduleUnfenced, Map, Unmap, Move, MoveTables
  <2>3. fails = 0
    BY <2>1, <2>2
  <2>. QED
    BY <2>3, ScheduleUnsyncedTypes, ScheduleUnfencedTypes
<1>. Intact
  BY <1>1 DEF VmInv
<1>2. ASSUME NEW r \in Ring, Execute(r) PROVE Intact'
  BY <1>2, WriteKeeps, StartKeeps, FinishKeeps DEF Execute
<1>3. ASSUME NEW v \in Vm, NEW r \in Ring, NEW use \in SUBSET Bo, Submit(v, r, use) PROVE Intact'
  BY <1>3, SubmitKeeps
<1>4. CASE Step
  <2>1. CASE UpdateDirectory
    BY <1>1, <2>1, UpdateDirectoryKeeps
  <2>2. CASE FreedCleared \/ BosUpdated \/ InvalidsCleared
    BY <2>2, StepPasses
  <2>3. CASE Schedule
    BY <2>3, ScheduleKeeps
  <2>4. ASSUME NEW o \in Bo, ClearFreed(o) \/ BoUpdate(o) \/ ClearInvalid(o) PROVE Intact'
    BY <1>1, <2>4, ClearFreedKeeps, BoUpdateKeeps, ClearInvalidKeeps
  <2>. QED
    BY <1>4, <2>1, <2>2, <2>3, <2>4 DEF Step
<1>5. ASSUME NEW v \in Vm, NEW o \in Bo, Map(v, o) \/ Unmap(v, o) PROVE Intact'
  BY <1>5, MappingKeeps
<1>6. ASSUME NEW o \in Bo, Move(o) PROVE Intact'
  BY <1>6, MoveKeeps
<1>7. ASSUME NEW v \in Vm, MoveTables(v) PROVE Intact'
  BY <1>7, MoveTablesKeeps
<1>8. CASE UNCHANGED vars
  <2>1. UNCHANGED <<gpu, rings, ids, active, maps, addr, pdfence, places, cs>>
    BY <1>8 DEF vars
  <2>2. SubmissionIsOrdered'
    BY <2>1, FrameStays DEF Intact
  <2>. QED
    BY <2>1, <2>2, PassKeeps
<1>. QED
  BY <1>1, <1>2, <1>3, <1>4, <1>5, <1>6, <1>7, <1>8 DEF Next

\* The invariant holds in every reachable state.
THEOREM VmInvariance == Spec => [](Typed /\ VmInv)
<1>1. Init => Typed /\ VmInv
  BY InitTypes, InitIntact DEF VmInv
<1>2. Typed /\ VmInv /\ [Next]_vars => (Typed /\ VmInv)'
  BY NextTypes, NextIntact
<1>. QED
  <2>. HIDE DEF Typed, VmInv
  <2>. QED
    BY <1>1, <1>2, PTL DEF Spec

\* What a job finds.
LEMMA RunningFinds ==
  ASSUME Typed, Intact, NEW r \in Ring, running[r], DirectoryNoted(r)
  PROVE  FindsItsBuffers(r)
<1>1. PICK c \in RunsJob :
        /\ c = Command(r, done[r] + 1)
        /\ base[c.id] = [vm |-> c.vm, pd |-> c.pd] /\ c.pd = pd[c.vm] /\ pde[c.vm] = pt[c.vm]
        /\ \A o \in Bo : c.at[o] # 0 => c.at[o] = place[o] /\ pte[c.vm][o] = place[o]
  BY RunningJob DEF Intact, Ordered
<1>2. Head(queue[r]).cmd = c
  <2>1. queue[r] # <<>> /\ queue[r] \in Seq(Queued) /\ done[r] \in Nat
    BY QueueTypes DEF Typed, TypeOK
  <2>2. Head(queue[r]) = queue[r][1] /\ (done[r] + 1) - done[r] = 1
    BY <2>1
  <2>. QED
    BY <1>1, <2>2 DEF Command
<1>3. pt[c.vm] = 1 \/ pdfence[c.vm] # 0
  BY <1>2 DEF DirectoryNoted
<1>4. PICK h \in Nat : h = done[r] + 1
  BY QueueTypes
<1>5. h \in Pending(r) /\ Command(r, h) = c /\ c.op = "job"
  BY <1>1, <1>4, QueueTypes DEF RunsJob
<1>6. /\ c.vm \in Vm /\ c.id \in Id /\ c.pd \in Nat /\ pt[c.vm] \in Nat /\ c.at \in [Bo -> Nat]
      /\ \A o \in Bo : place[o] \in Nat
  BY DEF RunsJob, Typed, Shapes, MapShape
<1>7. PICK w : w = [id |-> c.id, vm |-> c.vm, pd |-> c.pd, tables |-> {0, pt[c.vm]},
                    pages |-> [o \in Bo |-> IF c.at[o] # 0 THEN {0, place[o]} ELSE Nat]]
  OBVIOUS
<1>8. w \in Session
  <2>1. {0, pt[c.vm]} \in SUBSET Nat
    BY <1>6
  <2>2. [o \in Bo |-> IF c.at[o] # 0 THEN {0, place[o]} ELSE Nat] \in [Bo -> SUBSET Nat]
    BY <1>6
  <2>. QED
    BY <1>6, <1>7, <2>1, <2>2 DEF Session
<1>9. Wants(w, r, h)
  BY <1>3, <1>5, <1>6, <1>7 DEF Wants, Dropped
<1>10. PICK f \in 1 .. h : Held(r, h, f, w)
  BY <1>5, <1>8, <1>9 DEF Intact, Jobs, JobsOwnIds
<1>11. Begun(r, f)
  <2>1. done[r] \in Nat
    BY QueueTypes
  <2>2. f <= done[r] \/ f = done[r] + 1
    BY <1>4, <2>1
  <2>. QED
    BY <2>2 DEF Begun
<1>12. tlb[c.id].table \in {0, pt[c.vm]} /\ base[c.id].vm = c.vm
  BY <1>1, <1>7, <1>10, <1>11 DEF Held
<1>13. ASSUME NEW o \in Bo, c.at[o] # 0
       PROVE  Found(c.id, o) = c.at[o]
  <2>1. tlb[c.id].page[o] \in {0, place[o]}
    <3>1. tlb[w.id].page[o] \in w.pages[o]
      BY <1>10, <1>11 DEF Held
    <3>. QED
      BY <1>7, <1>13, <3>1
  <2>2. Table(c.id) = pt[c.vm]
    BY <1>1, <1>12 DEF Table
  <2>3. Walk(c.id, o) = place[o]
    BY <1>1, <1>12, <1>13, <2>2 DEF Walk
  <2>. QED
    BY <1>1, <1>13, <2>1, <2>3 DEF Found
<1>. QED
  BY <1>2, <1>12, <1>13 DEF FindsItsBuffers

\* While a job runs, its id leads to the buffers it was submitted with.
THEOREM JobsFindBuffers == Spec => []JobsFindTheirBuffers
<1>1. Typed /\ VmInv => JobsFindTheirBuffers
  <2>1. SUFFICES ASSUME Typed, VmInv PROVE JobsFindTheirBuffers
    OBVIOUS
  <2>2. ASSUME fails = 0, NEW r \in Ring, DirectoryNoted(r) PROVE FindsItsBuffers(r)
    <3>1. Intact
      BY <2>1, <2>2 DEF VmInv
    <3>2. ~running[r] => FindsItsBuffers(r)
      BY DEF FindsItsBuffers
    <3>. QED
      BY <2>1, <2>2, <3>1, <3>2, RunningFinds
  <2>. QED
    BY <2>1, <2>2 DEF JobsFindTheirBuffers, Typed
<1>. QED
  <2>. HIDE DEF Typed, VmInv, JobsFindTheirBuffers
  <2>. QED
    BY <1>1, VmInvariance, PTL

=============================================================================
