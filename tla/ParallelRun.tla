----------------------------- MODULE ParallelRun -----------------------------
(***************************************************************************)
(* run_in_parallel of parallel.sh in its own implementation, the loop over *)
(* background jobs that is used when neither GNU parallel nor xargs can be *)
(* (_run_using_for).  The items are the lines of the input, read in order. *)
(* `wait -n' returns the status of one job that has ended and has not been *)
(* waited for, blocks while there are only running jobs, and returns 127   *)
(* when there is no job at all.                                            *)
(***************************************************************************)
EXTENDS Naturals, FiniteSets

CONSTANTS
  N,          \* number of input lines
  Slots,      \* initial job_slots: $3, or the number of CPUs
  Statuses    \* exit statuses the command may have; 127 is "not found"

ASSUME NAssumption == N \in Nat
ASSUME SlotsAssumption == Slots \in Nat \ {0}
ASSUME StatusesAssumption == Statuses \subseteq {0, 1, 127}

VARIABLES
  next,         \* lines read and started so far
  job_slots,
  running,      \* jobs still running
  ended,        \* jobs that ended and were not waited for
  status,       \* exit status of each job that ended
  failure,
  pc            \* "read": in the read loop, "first": before the wait -n that
                \* follows it, "rest": in the last loop, "returned"

vars == <<next, job_slots, running, ended, status, failure, pc>>

Items == 1..N
Started == 1..next

TypeOK ==
  /\ next \in 0..N
  /\ job_slots \in 0..Slots
  /\ running \subseteq Items
  /\ ended \subseteq Items
  /\ status \in [Items -> Statuses \cup {0}]
  /\ failure \in BOOLEAN
  /\ pc \in {"read", "first", "rest", "returned"}

Init ==
  /\ next = 0 /\ job_slots = Slots
  /\ running = {} /\ ended = {}
  /\ status = [i \in Items |-> 0]
  /\ failure = FALSE
  /\ pc = "read"

(* A background job ends on its own. *)
JobEnds(i) ==
  /\ i \in running
  /\ running' = running \ {i}
  /\ ended' = ended \cup {i}
  /\ \E s \in Statuses : status' = [status EXCEPT ![i] = s]
  /\ UNCHANGED <<next, job_slots, failure, pc>>

(* What `failure' is after job i has been waited for. *)
Noted_LastOnly(i) == status[i] # 0
Noted(i) == failure \/ status[i] # 0

SlotFree_Untested == TRUE
SlotFree == job_slots # 0

FreedSlots_None == 0
FreedSlots == 1

(* `wait -n' in the read loop, and the slot it frees. *)
WaitForSlot(i) ==
  /\ pc = "read" /\ next < N /\ ~SlotFree
  /\ i \in ended
  /\ ended' = ended \ {i}
  /\ failure' = Noted(i)
  /\ job_slots' = job_slots + FreedSlots
  /\ UNCHANGED <<next, running, status, pc>>

StartJob ==
  /\ pc = "read" /\ next < N /\ SlotFree
  /\ next' = next + 1
  /\ running' = running \cup {next + 1}
  /\ job_slots' = job_slots - 1
  /\ UNCHANGED <<ended, status, failure, pc>>

EndOfInput ==
  /\ pc = "read" /\ next = N
  /\ pc' = "first"
  /\ UNCHANGED <<next, job_slots, running, ended, status, failure>>

NoJobs_NoneEnded == ended = {}
NoJobs == running = {} /\ ended = {}

(* The first `wait -n' after the loop: only 127 is looked for. *)
WaitFirst ==
  /\ pc = "first"
  /\ \/ /\ NoJobs /\ pc' = "returned"
        /\ UNCHANGED ended
     \/ \E i \in ended :
          /\ ended' = ended \ {i}
          /\ pc' = IF status[i] = 127 THEN "returned" ELSE "rest"
  /\ UNCHANGED <<next, job_slots, running, status, failure>>

WaitRest ==
  /\ pc = "rest"
  /\ \/ /\ NoJobs /\ pc' = "returned"
        /\ UNCHANGED <<ended, failure>>
     \/ \E i \in ended :
          /\ ended' = ended \ {i}
          /\ IF status[i] = 127
             THEN pc' = "returned" /\ UNCHANGED failure
             ELSE UNCHANGED pc /\ failure' = Noted(i)
  /\ UNCHANGED <<next, job_slots, running, status>>

(* Once the function has returned, nothing is left to do but for jobs that  *)
(* it did not wait for.                                                    *)
Next == \/ StartJob \/ EndOfInput \/ WaitFirst \/ WaitRest
        \/ \E i \in Items : JobEnds(i) \/ WaitForSlot(i)

Spec == Init /\ [][Next]_vars

-----------------------------------------------------------------------------
Waited == Started \ (running \cup ended)

(* Why the function is almost right: a job that was started and not waited *)
(* for holds a slot, and only the job waited for in WaitFirst may be       *)
(* missing from `failure'.                                                 *)
LoopInv ==
  /\ running \subseteq Started /\ ended \subseteq Started /\ running \cap ended = {}
  /\ Cardinality(running \cup ended) + job_slots <= Slots
  /\ failure => \E i \in Waited : status[i] # 0
  /\ ~failure /\ 127 \notin Statuses =>
                 IF pc \in {"read", "first"}
                 THEN \A i \in Waited : status[i] = 0
                 ELSE \A i, j \in Waited : status[i] # 0 /\ status[j] # 0 => i = j
  /\ pc # "read" => next = N
  /\ pc = "returned" /\ 127 \notin Statuses => NoJobs

-----------------------------------------------------------------------------
(* Properties.                                                             *)

(* There are never more jobs than slots ($3, "maximum number of parallel   *)
(* jobs to run", parallel.sh:100).                                         *)
AtMostSlots == Cardinality(running) <= Slots

FailedJobs == {i \in Started : i \notin running /\ status[i] # 0}

(* A failure that is returned was somebody's failure, and a success that   *)
(* is returned overlooks at most one job (parallel.sh:68-91).              *)
ReturnAlmostRight ==
  pc = "returned" =>
    IF failure THEN FailedJobs # {} ELSE \A i, j \in FailedJobs : i = j

(* When the function returns, every line has been run and nothing is still *)
(* running: 127 "means there are no more jobs to wait for"                 *)
(* (parallel.sh:80).                                                       *)
AllDone == pc = "returned" => next = N /\ NoJobs
=============================================================================
