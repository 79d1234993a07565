---------------------------- MODULE BufferOrder ----------------------------
(***************************************************************************)
(* What the submission of jobs to several rings promises to the buffers    *)
(* they use: a job that writes a buffer runs after every job submitted     *)
(* before it that uses the buffer, and a job that reads one after every    *)
(* job submitted before it that writes it.  Other jobs run in any order.   *)
(***************************************************************************)
EXTENDS Naturals

CONSTANTS Bo, MaxJobs

VARIABLES
  submitted,  \* the number of jobs submitted
  pending     \* the jobs that have not run: their number and what they use

vars == <<submitted, pending>>

Use == [Bo -> {"none", "read", "write"}]

Conflict(a, b) ==
  \E o \in Bo : /\ a.use[o] # "none" /\ b.use[o] # "none"
                /\ "write" \in {a.use[o], b.use[o]}

Init == submitted = 0 /\ pending = {}

Submit ==
  /\ submitted < MaxJobs
  /\ \E use \in Use : pending' = pending \cup {[n |-> submitted, use |-> use]}
  /\ submitted' = submitted + 1

Run ==
  \E j \in pending :
    /\ \A k \in pending : k.n < j.n => ~Conflict(j, k)
    /\ pending' = pending \ {j}
    /\ UNCHANGED submitted

Next == Submit \/ Run

Spec == Init /\ [][Next]_vars
=============================================================================
