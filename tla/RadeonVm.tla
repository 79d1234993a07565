------------------------------ MODULE RadeonVm ------------------------------
(***************************************************************************)
(* GPU virtual memory: the page table updates the DMA ring executes, the   *)
(* ids of the address spaces, their flushes, and the jobs that run under   *)
(* an id on two rings.  Each buffer has one address in each address space. *)
(*                                                                         *)
(* An address (of a buffer, a page table, a page directory) is a number    *)
(* that is never used twice; 0 is no address.  A command waits for a fence *)
(* of the other ring; how it waits is RingSync's.  One submission or       *)
(* mapping is updated at a time.                                           *)
(***************************************************************************)
EXTENDS Integers, Sequences, FiniteSetsExt

CONSTANTS
  Vm,         \* the address spaces, at least one
  Bo,         \* the buffers
  Nvm,        \* the ids a job may have are 1 .. Nvm
  MaxJobs,    \* bound: jobs submitted
  MaxChange,  \* bound: moves, mappings and unmappings
  MaxFail     \* bound: failed updates and submissions

Dma == "dma"  \* R600_RING_TYPE_DMA_INDEX
Ring == {"gfx", Dma}
Id == 1 .. Nvm

ASSUME VmAssumption == Nvm \in Nat \ {0} /\ Vm # {}
                       /\ MaxJobs \in Nat /\ MaxChange \in Nat /\ MaxFail \in Nat

VARIABLES
  queue, running,     \* of each ring: its commands; whether the first has begun
  emitted, done,      \* of each ring: its last fence, and the last that has signalled
  known,              \* of each ring: the last fence of the other it has waited for
  ids,                \* vm->ids: id, last_id_use, pd_gpu_addr, flushed_updates
  active,             \* of each id: the fence of its last job
  mapped, status,     \* of each mapping: whether it exists, and its list
  freed,              \* vm->freed
  last_pt_update,
  addr,               \* page_tables.addr: what the directory should hold
  pdfence,            \* the exclusive fence of the directory's reservation
  place, pt, pd,      \* where buffers, page tables and directories are
  pde, pte,           \* the directories and page tables in memory
  base, tlb,          \* of each id: the directory it uses, and what is cached
  cs,                 \* the submission or update going on
  jobs, changes, fails

gpu == <<running, done, pde, pte, base, tlb>>
rings == <<queue, emitted, known>>
maps == <<mapped, status, freed, last_pt_update>>
places == <<place, pt, pd>>
bounds == <<jobs, changes, fails>>
vars == <<gpu, rings, ids, active, maps, addr, pdfence, places, cs, bounds>>

Idle == [step |-> "idle"]
NoFence == [ring |-> Dma, seq |-> 0]
Empty == [table |-> 0, page |-> [o \in Bo |-> 0]]

Init ==
  /\ queue = [r \in Ring |-> <<>>] /\ running = [r \in Ring |-> FALSE]
  /\ emitted = [r \in Ring |-> 0] /\ done = emitted /\ known = emitted
  /\ ids = [v \in Vm |-> [r \in Ring |-> [id |-> 0, use |-> 0, pd |-> 0, flushed |-> 0]]]
  /\ active = [i \in Id |-> NoFence]
  /\ mapped \in [Vm -> [Bo -> BOOLEAN]]
  /\ status = [v \in Vm |-> [o \in Bo |-> IF mapped[v][o] THEN "cleared" ELSE "done"]]
  /\ freed = [v \in Vm |-> {}] /\ last_pt_update = [v \in Vm |-> [o \in Bo |-> 0]]
  /\ addr = [v \in Vm |-> 0] /\ pdfence = addr
  /\ place = [o \in Bo |-> 1] /\ pt = [v \in Vm |-> 1] /\ pd = pt
  /\ pde = addr /\ pte = last_pt_update
  /\ base = [i \in Id |-> [vm |-> CHOOSE v \in Vm : TRUE, pd |-> 0]]
  /\ tlb = [i \in Id |-> Empty]
  /\ cs = Idle /\ jobs = 0 /\ changes = 0 /\ fails = 0

Other(r) == CHOOSE s \in Ring : s # r
Larger(a, b) == IF a > b THEN a ELSE b

-----------------------------------------------------------------------------
(* The GPU *)

Ready(r) == queue[r] # <<>> /\ ~running[r] /\ done[Other(r)] >= Head(queue[r]).wait

Retire(r) ==
  queue' = [queue EXCEPT ![r] = Tail(@)] /\ done' = [done EXCEPT ![r] = @ + 1]

\* the DMA ring writes a page directory or page table
Write(r) ==
  /\ Ready(r) /\ Retire(r)
  /\ LET c == Head(queue[r]).cmd IN
       \/ c.op = "pde" /\ pde' = [pde EXCEPT ![c.vm] = c.to] /\ UNCHANGED pte
       \/ c.op = "pte" /\ pte' = [pte EXCEPT ![c.vm][c.bo] = c.to] /\ UNCHANGED pde
  /\ UNCHANGED <<running, emitted, known, ids, active, maps, addr, pdfence, places, base, tlb,
                 cs, bounds>>

\* a job begins: the flush before it sets the directory of its id and empties its cache
Start(r) ==
  /\ Ready(r) /\ Head(queue[r]).cmd.op = "job"
  /\ running' = [running EXCEPT ![r] = TRUE]
  /\ LET c == Head(queue[r]).cmd IN
       IF c.flush THEN /\ base' = [base EXCEPT ![c.id] = [vm |-> c.vm, pd |-> c.pd]]
                       /\ tlb' = [tlb EXCEPT ![c.id] = Empty]
       ELSE UNCHANGED <<base, tlb>>
  /\ UNCHANGED <<done, pde, pte, rings, ids, active, maps, addr, pdfence, places, cs, bounds>>

\* where an id finds a buffer: in its cache, or by a walk from its directory
Table(i) == IF tlb[i].table # 0 THEN tlb[i].table ELSE pde[base[i].vm]
Walk(i, o) == IF base[i].pd = pd[base[i].vm] /\ Table(i) = pt[base[i].vm]
              THEN pte[base[i].vm][o] ELSE 0
Found(i, o) == IF tlb[i].page[o] # 0 THEN tlb[i].page[o] ELSE Walk(i, o)

\* a job ends; what it has used is cached
Finish(r) ==
  /\ running[r] /\ running' = [running EXCEPT ![r] = FALSE] /\ Retire(r)
  /\ LET c == Head(queue[r]).cmd IN
       tlb' = [tlb EXCEPT ![c.id] =
                 [table |-> Table(c.id),
                  page |-> [o \in Bo |-> IF c.at[o] # 0 THEN Found(c.id, o) ELSE @.page[o]]]]
  /\ UNCHANGED <<emitted, known, pde, pte, base, ids, active, maps, addr, pdfence, places, cs,
                 bounds>>

-----------------------------------------------------------------------------
(* Commands *)

\* Mutant: the semaphore is signalled behind the next command of the other ring.
AwaitNext(r, want) == IF want > known[r] THEN emitted[Other(r)] + 1 ELSE 0

\* radeon_fence_need_sync: the semaphore is signalled after all that the other ring has got
Await(r, want) == IF want > known[r] THEN emitted[Other(r)] ELSE 0

Note(r, want) == known' = [known EXCEPT ![r] = Larger(@, Await(r, want))]

\* radeon_ib_schedule, as far as the ring is concerned
Emit(r, want, cmd) ==
  /\ queue' = [queue EXCEPT ![r] = Append(@, [wait |-> Await(r, want), cmd |-> cmd])]
  /\ emitted' = [emitted EXCEPT ![r] = @ + 1]
  /\ Note(r, want)

Update(v, o, want, to) == Emit(Dma, want, [op |-> "pte", vm |-> v, bo |-> o, to |-> to])

\* Mutant: an update that clears a mapping does not wait for the jobs that use it.
UsersNone(v) == 0

\* a mapping is cleared after the last job of the address space on every ring
Users(v) == ids[v]["gfx"].use

Goto(step) == cs' = [cs EXCEPT !.step = step]

-----------------------------------------------------------------------------
(* A submission: radeon_cs_ib_vm_chunk.  An update of a mapping takes the   *)
(* steps "freed" and "update" only.                                         *)

Submit(v, r, use) ==
  /\ cs = Idle /\ jobs < MaxJobs
  /\ use # {} /\ \A o \in use : mapped[v][o]
  /\ cs' = [step |-> "directory", vm |-> v, ring |-> r, use |-> use, todo |-> use]
  /\ UNCHANGED <<gpu, rings, ids, active, maps, addr, pdfence, places, bounds>>

\* radeon_vm_update_page_directory notes the address before it is written
UpdateDirectory ==
  /\ cs.step = "directory"
  /\ addr' = [addr EXCEPT ![cs.vm] = pt[cs.vm]]
  /\ IF addr[cs.vm] = pt[cs.vm] THEN Goto("freed") /\ UNCHANGED <<rings, pdfence, fails>>
     ELSE \/ /\ Emit(Dma, 0, [op |-> "pde", vm |-> cs.vm, to |-> pt[cs.vm]])
             /\ pdfence' = [pdfence EXCEPT ![cs.vm] = emitted[Dma] + 1]
             /\ Goto("freed") /\ UNCHANGED fails
          \/ /\ fails < MaxFail /\ fails' = fails + 1 /\ cs' = Idle
             /\ UNCHANGED <<rings, pdfence>>
  /\ UNCHANGED <<gpu, ids, active, maps, places, jobs, changes>>

\* radeon_vm_clear_freed: the entry goes whether or not its page table entry was cleared
ClearFreed(o) ==
  /\ cs.step = "freed" /\ o \in freed[cs.vm]
  /\ freed' = [freed EXCEPT ![cs.vm] = @ \ {o}]
  /\ \/ Update(cs.vm, o, Users(cs.vm), 0) /\ UNCHANGED <<cs, fails>>
     \/ fails < MaxFail /\ fails' = fails + 1 /\ cs' = Idle /\ UNCHANGED rings
  /\ UNCHANGED <<gpu, ids, active, mapped, status, last_pt_update, addr, pdfence, places, jobs,
                 changes>>

FreedCleared ==
  /\ cs.step = "freed" /\ freed[cs.vm] = {} /\ Goto("update")
  /\ UNCHANGED <<gpu, rings, ids, active, maps, addr, pdfence, places, bounds>>

\* radeon_vm_bo_update: the mapping leaves its list before the update is scheduled
BoUpdate(o) ==
  /\ cs.step = "update" /\ o \in cs.todo
  /\ status' = [status EXCEPT ![cs.vm][o] = "done"]
  /\ \/ /\ cs' = [cs EXCEPT !.todo = @ \ {o}] /\ UNCHANGED fails
        /\ IF status[cs.vm][o] = "done" THEN UNCHANGED <<rings, last_pt_update>>
           ELSE /\ Update(cs.vm, o, 0, place[o])
                /\ last_pt_update' = [last_pt_update EXCEPT ![cs.vm][o] = emitted[Dma] + 1]
     \/ /\ status[cs.vm][o] # "done" /\ fails < MaxFail /\ fails' = fails + 1 /\ cs' = Idle
        /\ UNCHANGED <<rings, last_pt_update>>
  /\ UNCHANGED <<gpu, ids, active, mapped, freed, addr, pdfence, places, jobs, changes>>

BosUpdated ==
  /\ cs.step = "update" /\ cs.todo = {}
  /\ IF cs.ring = "none" THEN cs' = Idle ELSE Goto("invalids")
  /\ UNCHANGED <<gpu, rings, ids, active, maps, addr, pdfence, places, bounds>>

\* radeon_vm_clear_invalids: the other buffers that have moved
ClearInvalid(o) ==
  /\ cs.step = "invalids" /\ status[cs.vm][o] = "invalid"
  /\ status' = [status EXCEPT ![cs.vm][o] = "cleared"]
  /\ \/ /\ Update(cs.vm, o, Users(cs.vm), 0)
        /\ last_pt_update' = [last_pt_update EXCEPT ![cs.vm][o] = emitted[Dma] + 1]
        /\ UNCHANGED <<cs, fails>>
     \/ /\ fails < MaxFail /\ fails' = fails + 1 /\ cs' = Idle
        /\ UNCHANGED <<rings, last_pt_update>>
  /\ UNCHANGED <<gpu, ids, active, mapped, freed, addr, pdfence, places, jobs, changes>>

InvalidsCleared ==
  /\ cs.step = "invalids" /\ \A o \in Bo : status[cs.vm][o] # "invalid"
  /\ Goto("schedule")
  /\ UNCHANGED <<gpu, rings, ids, active, maps, addr, pdfence, places, bounds>>

-----------------------------------------------------------------------------
(* The job itself: radeon_ib_schedule with an address space *)

StillValid(v, r) ==
  ids[v][r].id # 0 /\ ids[v][r].use # 0
    /\ active[ids[v][r].id] = [ring |-> r, seq |-> ids[v][r].use]

Earliest(set) == CHOOSE i \in set : \A j \in set : active[i].seq <= active[j].seq

\* radeon_vm_grab_id: the id it has, a free one, the one used longest ago on this ring, or
\* on the other
GrabId(v, r) ==
  LET free == {i \in Id : active[i] = NoFence}
      same == {i \in Id : active[i].ring = r}
  IN IF StillValid(v, r) THEN ids[v][r].id
     ELSE IF free # {} THEN Min(free)
     ELSE IF same # {} THEN Earliest(same) ELSE Earliest(Id)

\* Mutant: the last job under an id is not waited for.
IdFenceNone(v, r) == 0

\* the fence of the other ring that protects the id
IdFence(v, r) ==
  LET fence == active[GrabId(v, r)]
  IN IF ~StillValid(v, r) /\ fence.ring # r THEN fence.seq ELSE 0

\* the updates that the buffers of the job and the directory's reservation know of
Updates == Max({pdfence[cs.vm]} \cup {last_pt_update[cs.vm][o] : o \in cs.use})

\* Mutant: a job flushes for a new id only.
FlushForId(v, r) == ~StillValid(v, r)

\* radeon_vm_flush
NeedsFlush(v, r) ==
  \/ ~StillValid(v, r) \/ ids[v][r].pd # pd[v]
  \/ ids[v][r].flushed = 0 \/ Updates = 0 \/ ids[v][r].flushed < Updates

Want(r) == Larger(IdFence(cs.vm, r), IF r = Dma THEN 0 ELSE Updates)

\* what the address space notes of the flush
Flushed(v, r, use) ==
  [ids EXCEPT ![v][r] =
     [id |-> GrabId(v, r), use |-> use, pd |-> pd[v],
      flushed |-> IF NeedsFlush(v, r) THEN Updates ELSE @.flushed]]

\* a fence that is added may take the place of one that has signalled
Kept == IF done[Dma] >= pdfence[cs.vm] THEN {pdfence[cs.vm], 0} ELSE {pdfence[cs.vm]}

Schedule ==
  /\ cs.step = "schedule"
  /\ LET v == cs.vm  r == cs.ring IN
     /\ Emit(r, Want(r),
             [op |-> "job", vm |-> v, id |-> GrabId(v, r), flush |-> NeedsFlush(v, r),
              pd |-> pd[v], at |-> [o \in Bo |-> IF o \in cs.use THEN place[o] ELSE 0]])
     /\ ids' = Flushed(v, r, emitted[r] + 1)
     /\ active' = [active EXCEPT ![GrabId(v, r)] = [ring |-> r, seq |-> emitted[r] + 1]]
     /\ \E f \in Kept : pdfence' = [pdfence EXCEPT ![v] = f]
  /\ cs' = Idle /\ jobs' = jobs + 1
  /\ UNCHANGED <<gpu, maps, addr, places, changes, fails>>

\* the ring could not be locked; or the synchronisation failed: the id has been chosen
ScheduleUnsynced ==
  /\ cs.step = "schedule" /\ fails < MaxFail /\ fails' = fails + 1 /\ cs' = Idle
  /\ LET v == cs.vm  r == cs.ring IN
       \/ UNCHANGED ids
       \/ ~StillValid(v, r) /\ ids' = [ids EXCEPT ![v][r].id = GrabId(v, r), ![v][r].pd = 0]
  /\ UNCHANGED <<gpu, rings, active, maps, addr, pdfence, places, jobs, changes>>

\* the fence could not be emitted: what had been noted of the waits and the flush stays
ScheduleUnfenced ==
  /\ cs.step = "schedule" /\ fails < MaxFail /\ fails' = fails + 1 /\ cs' = Idle
  /\ ids' = Flushed(cs.vm, cs.ring, ids[cs.vm][cs.ring].use)
  /\ Note(cs.ring, Want(cs.ring))
  /\ UNCHANGED <<gpu, queue, emitted, active, maps, addr, pdfence, places, jobs, changes>>

-----------------------------------------------------------------------------
(* Mappings and memory management *)

Change == changes < MaxChange /\ changes' = changes + 1

UpdateOf(v, todo) == [step |-> "freed", vm |-> v, ring |-> "none", use |-> {}, todo |-> todo]

\* radeon_gem_va_ioctl; its update is given up if a page table is swapped out
Map(v, o) ==
  /\ cs = Idle /\ ~mapped[v][o] /\ Change
  /\ mapped' = [mapped EXCEPT ![v][o] = TRUE] /\ status' = [status EXCEPT ![v][o] = "cleared"]
  /\ cs' \in {Idle, UpdateOf(v, {o})}
  /\ UNCHANGED <<gpu, rings, ids, active, freed, last_pt_update, addr, pdfence, places, jobs,
                 fails>>

\* the entry on the freed list is a clone
Unmap(v, o) ==
  /\ cs = Idle /\ mapped[v][o] /\ Change
  /\ mapped' = [mapped EXCEPT ![v][o] = FALSE] /\ status' = [status EXCEPT ![v][o] = "done"]
  /\ freed' = [freed EXCEPT ![v] = @ \cup {o}]
  /\ cs' \in {Idle, UpdateOf(v, {})}
  /\ UNCHANGED <<gpu, rings, ids, active, last_pt_update, addr, pdfence, places, jobs, fails>>

Commands == UNION {{queue[r][i].cmd : i \in 1 .. Len(queue[r])} : r \in Ring}

\* radeon_bo_move waits for the fences of a buffer, then radeon_vm_bo_invalidate
Move(o) ==
  /\ cs # Idle => o \notin cs.use \cup cs.todo
  /\ \A c \in Commands : c.op = "job" => c.at[o] = 0
  /\ Change /\ place' = [place EXCEPT ![o] = @ + 1]
  /\ status' = [v \in Vm |-> IF mapped[v][o] /\ status[v][o] = "done"
                             THEN [status[v] EXCEPT ![o] = "invalid"] ELSE status[v]]
  /\ UNCHANGED <<gpu, rings, ids, active, mapped, freed, last_pt_update, addr, pdfence, pt, pd,
                 cs, jobs, fails>>

\* the buffers that hold the tables of an address space carry the fences of its updates and
\* jobs; they move with their contents
MoveTables(v) ==
  /\ cs # Idle => cs.vm # v
  /\ \A c \in Commands : c.vm # v
  /\ Change
  /\ \/ pt' = [pt EXCEPT ![v] = @ + 1] /\ UNCHANGED pd
     \/ pd' = [pd EXCEPT ![v] = @ + 1] /\ UNCHANGED pt
  /\ UNCHANGED <<gpu, rings, ids, active, maps, addr, pdfence, place, cs, jobs, fails>>

-----------------------------------------------------------------------------
Step ==
  \/ UpdateDirectory \/ FreedCleared \/ BosUpdated \/ InvalidsCleared \/ Schedule
  \/ \E o \in Bo : ClearFreed(o) \/ BoUpdate(o) \/ ClearInvalid(o)

Execute(r) == Write(r) \/ Start(r) \/ Finish(r)

Next ==
  \/ \E r \in Ring : Execute(r)
  \/ \E v \in Vm, r \in Ring, use \in SUBSET Bo : Submit(v, r, use)
  \/ Step \/ ScheduleUnsynced \/ ScheduleUnfenced
  \/ \E v \in Vm, o \in Bo : Map(v, o) \/ Unmap(v, o)
  \/ (\E o \in Bo : Move(o)) \/ \E v \in Vm : MoveTables(v)

\* the rings go on unless they wait for each other
Fairness == \A r \in Ring : WF_vars(Execute(r))

Spec == Init /\ [][Next]_vars
FairSpec == Spec /\ Fairness

-----------------------------------------------------------------------------
(* Properties *)

TypeOK ==
  /\ \A r \in Ring :
       /\ done[r] + Len(queue[r]) = emitted[r] /\ known[r] \in 0 .. emitted[Other(r)]
       /\ \A i \in 1 .. Len(queue[r]) : queue[r][i].wait \in 0 .. emitted[Other(r)]
       /\ running[r] => queue[r] # <<>> /\ Head(queue[r]).cmd.op = "job"
  /\ \A v \in Vm, r \in Ring :
       ids[v][r].id \in 0 .. Nvm /\ ids[v][r].use \in 0 .. emitted[r]
         /\ ids[v][r].pd \in 0 .. pd[v] /\ ids[v][r].flushed \in 0 .. emitted[Dma]
  /\ \A i \in Id : active[i].seq \in 0 .. emitted[active[i].ring]
  /\ \A v \in Vm : addr[v] \in 0 .. pt[v] /\ pde[v] \in 0 .. pt[v]
                     /\ pdfence[v] \in 0 .. emitted[Dma]
  /\ \A v \in Vm, o \in Bo : pte[v][o] \in 0 .. place[o]
                               /\ last_pt_update[v][o] \in 0 .. emitted[Dma]
  /\ jobs \in 0 .. MaxJobs /\ changes \in 0 .. MaxChange /\ fails \in 0 .. MaxFail

FindsItsBuffers(r) ==
  running[r] =>
    LET c == Head(queue[r]).cmd
    IN base[c.id].vm = c.vm /\ \A o \in Bo : c.at[o] # 0 => Found(c.id, o) = c.at[o]

\* The reservation of the job's directory still knows of the update after the last move of
\* a page table.
DirectoryNoted(r) ==
  running[r] => LET v == Head(queue[r]).cmd.vm IN pt[v] = 1 \/ pdfence[v] # 0

\* While a job runs, its id leads to the buffers it was submitted with: the id has not been
\* taken over, no entry was rewritten, cleared too early or left stale in the cache; as
\* long as nothing has failed and the directory's update is still in its reservation.
JobsFindTheirBuffers ==
  /\ TypeOK
  /\ fails = 0 => \A r \in Ring : DirectoryNoted(r) => FindsItsBuffers(r)

\* The same after failures.  (Violated: an update that failed is forgotten.)
FailuresAreRetried == \A r \in Ring : DirectoryNoted(r) => FindsItsBuffers(r)

\* The same whatever the reservation drops.  (Violated: the next job does not flush.)
TableMovesAreFlushed == fails = 0 => \A r \in Ring : FindsItsBuffers(r)

\* The rings never wait for each other, whatever ids are taken over and mappings cleared:
\* every job ends.
JobsEnd == \A r \in Ring : []<>(done[r] = emitted[r])
=============================================================================
