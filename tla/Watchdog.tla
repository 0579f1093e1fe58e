------------------------------ MODULE Watchdog ------------------------------
(***************************************************************************)
(* The watchdog script that cron starts every minute on AIX hosts          *)
(* (watchdog.mustache): its pid file, what it looks for, and how it kills  *)
(* the daemons, purges their databases and starts them again.              *)
(*                                                                         *)
(* A trapped signal removes the directory for reports and the script goes  *)
(* on; a command whose output goes into that directory is then not run.    *)
(***************************************************************************)
EXTENDS Naturals

CONSTANTS
  Pids, NoPid,
  Daemons, Execd,   \* the daemons, and the one that has to run
  HasProc,          \* is there a /proc
  Overlaps,         \* can a watchdog start while another looks at the pid file
  Tries,            \* attempts to start the daemons
  MaxFaults         \* bound: everything that goes wrong

ConstantsOK ==
  /\ NoPid \notin Pids /\ Execd \in Daemons /\ Tries \in Nat \ {0} /\ MaxFaults \in Nat
  /\ HasProc \in BOOLEAN /\ Overlaps \in BOOLEAN

VARIABLES
  pidfile,
  young,         \* pids whose process started after the pid file was written
  others,        \* pids of other programs
  pc,            \* pc[p]: what watchdog p does next
  dir,           \* dir[p]: is its directory there
  listed,        \* listed[p]: the daemons it is going to kill
  try,           \* try[p]: attempt to start the daemons
  up,            \* the daemons that run
  broken,        \* history: those that ran when their databases were purged
  meddled,       \* history: a signal came, or a daemon was started from elsewhere
  faults

watchdogs == <<pc, dir, listed, try>>
vars == <<pidfile, young, others, watchdogs, up, broken, meddled, faults>>

Looking == {"look", "claim"}
Working == {"check", "list", "kill", "purge", "start", "verify"}

TypeOK ==
  /\ pidfile \in Pids \cup {NoPid} /\ young \in SUBSET Pids /\ others \in SUBSET Pids
  /\ pc \in [Pids -> {"off"} \cup Looking \cup Working] /\ dir \in [Pids -> BOOLEAN]
  /\ listed \in [Pids -> SUBSET Daemons] /\ try \in [Pids -> 1..Tries]
  /\ up \in SUBSET Daemons /\ broken \in SUBSET up /\ meddled \in BOOLEAN /\ faults \in 0..MaxFaults

Init ==
  /\ pidfile = NoPid /\ young = {} /\ others = {}
  /\ pc = [p \in Pids |-> "off"] /\ dir = [p \in Pids |-> FALSE]
  /\ listed = [p \in Pids |-> {}] /\ try = [p \in Pids |-> 1]
  /\ up = Daemons /\ broken = {} /\ meddled = FALSE /\ faults = 0

Fault == faults < MaxFaults /\ faults' = faults + 1
Alive(p) == pc[p] # "off" \/ p \in others

-----------------------------------------------------------------------------
(* Processes and daemons come and go                                       *)

Cron(p) ==
  /\ ~Alive(p) /\ (Overlaps \/ \A q \in Pids : pc[q] \notin Looking)
  /\ pc' = [pc EXCEPT ![p] = "look"] /\ young' = young \cup {p}
  /\ UNCHANGED <<pidfile, others, dir, listed, try, up, broken, meddled, faults>>

(* The pid in the file is used again for another program; one at a time,   *)
(* so that pids are left for watchdogs.                                    *)
OtherStarts(p) ==
  /\ ~Alive(p) /\ p = pidfile /\ others = {} /\ Fault
  /\ others' = others \cup {p} /\ young' = young \cup {p}
  /\ UNCHANGED <<pidfile, watchdogs, up, broken, meddled>>

OtherEnds(p) ==
  /\ p \in others /\ others' = others \ {p} /\ young' = young \ {p}
  /\ UNCHANGED <<pidfile, watchdogs, up, broken, meddled, faults>>

DaemonDies(d) ==
  /\ d \in up /\ Fault
  /\ up' = up \ {d} /\ broken' = broken \ {d} /\ listed' = [p \in Pids |-> listed[p] \ {d}]
  /\ UNCHANGED <<pidfile, young, others, pc, dir, try, meddled>>

(* An agent or an administrator starts a daemon that does not run.         *)
StartedElsewhere(d) ==
  /\ d \notin up /\ Fault
  /\ up' = up \cup {d} /\ meddled' = TRUE
  /\ UNCHANGED <<pidfile, young, others, watchdogs, broken>>

-----------------------------------------------------------------------------
(* The pid file                                                            *)

Goes(p, to) == pc' = [pc EXCEPT ![p] = to]
Ends(p) == Goes(p, "off") /\ young' = young \ {p}

Taken_Any == FALSE
Taken_Old == pidfile # NoPid /\ Alive(pidfile)

(* The process with the pid in the file runs, and not since after the file *)
(* was written.                                                            *)
Taken == pidfile # NoPid /\ Alive(pidfile) /\ (HasProc => pidfile \notin young)

Look(p) ==
  /\ pc[p] = "look"
  /\ \/ Taken /\ Ends(p)
     \/ ~Taken /\ Goes(p, "claim") /\ UNCHANGED young
  /\ UNCHANGED <<pidfile, others, dir, listed, try, up, broken, meddled, faults>>

Claim(p) ==
  /\ pc[p] = "claim" /\ Goes(p, "check")
  /\ pidfile' = p /\ young' = {} /\ dir' = [dir EXCEPT ![p] = TRUE]
  /\ UNCHANGED <<others, listed, try, up, broken, meddled, faults>>

-----------------------------------------------------------------------------
(* Symptoms, and what is done about them                                   *)

(* Without its directory the watchdog counts no cf-execd.  There may be    *)
(* other symptoms, or too little space to go on.                           *)
Check(p) ==
  /\ pc[p] = "check"
  /\ \/ (Execd \notin up \/ ~dir[p]) /\ Goes(p, "list") /\ UNCHANGED <<young, faults>>
     \/ Goes(p, "list") /\ Fault /\ UNCHANGED young
     \/ Execd \in up /\ dir[p] /\ Ends(p) /\ UNCHANGED faults
     \/ Ends(p) /\ Fault
  /\ UNCHANGED <<pidfile, others, dir, listed, try, up, broken, meddled>>

ListProcs(p) ==
  /\ pc[p] = "list" /\ Goes(p, "kill")
  /\ listed' = [listed EXCEPT ![p] = IF dir[p] THEN up ELSE {}]
  /\ UNCHANGED <<pidfile, young, others, dir, try, up, broken, meddled, faults>>

(* SIGKILL for one process of the list, whose pid is of no daemon that was *)
(* started later; without the directory for its output, kill is not run.   *)
KillDaemon(p, d) ==
  /\ pc[p] = "kill" /\ d \in listed[p]
  /\ \/ /\ dir[p] /\ up' = up \ {d} /\ broken' = broken \ {d}
        /\ listed' = [q \in Pids |-> listed[q] \ {d}]
     \/ ~dir[p] /\ listed' = [listed EXCEPT ![p] = @ \ {d}] /\ UNCHANGED <<up, broken>>
  /\ UNCHANGED <<pidfile, young, others, pc, dir, try, meddled, faults>>

Killed_Any(p) == TRUE
Killed(p) == listed[p] = {}

Purge(p) ==
  /\ pc[p] = "kill" /\ Killed(p)
  /\ broken' = up
  /\ Goes(p, "start") /\ try' = [try EXCEPT ![p] = 1]
  /\ UNCHANGED <<pidfile, young, others, dir, listed, up, meddled, faults>>

TryAgain(p) ==
  IF try[p] < Tries
  THEN Goes(p, "start") /\ try' = [try EXCEPT ![p] = @ + 1] /\ UNCHANGED young
  ELSE Ends(p) /\ UNCHANGED try

(* The service script stops all daemons and starts them, perhaps not all;  *)
(* without the directory for its output it is not run.                     *)
Restart(p) ==
  /\ pc[p] = "start"
  /\ \/ /\ dir[p] /\ Goes(p, "verify") /\ broken' = {} /\ listed' = [q \in Pids |-> {}]
        /\ \/ up' = Daemons /\ UNCHANGED faults
           \/ up' \in SUBSET Daemons /\ Fault
        /\ UNCHANGED <<young, try>>
     \/ ~dir[p] /\ TryAgain(p) /\ UNCHANGED <<listed, up, broken, faults>>
  /\ UNCHANGED <<pidfile, others, dir, meddled>>

Verify(p) ==
  /\ pc[p] = "verify"
  /\ \/ up = Daemons /\ Ends(p) /\ UNCHANGED <<try, listed, up, broken>>
     \/ /\ up # Daemons /\ TryAgain(p)
        /\ IF dir[p] THEN up' = {} /\ broken' = {} /\ listed' = [q \in Pids |-> {}]
           ELSE UNCHANGED <<up, broken, listed>>
  /\ UNCHANGED <<pidfile, others, dir, meddled, faults>>

-----------------------------------------------------------------------------
(* The trap does not end the script.                                       *)
Signal(p) ==
  /\ pc[p] \in Working /\ Fault
  /\ dir' = [dir EXCEPT ![p] = FALSE] /\ meddled' = TRUE
  /\ UNCHANGED <<pidfile, young, others, pc, listed, try, up, broken>>

Sigkill(p) ==
  /\ pc[p] # "off" /\ Fault /\ Ends(p)
  /\ UNCHANGED <<pidfile, others, dir, listed, try, up, broken, meddled>>

Step(p) ==
  \/ Look(p) \/ Claim(p) \/ Check(p) \/ ListProcs(p) \/ (\E d \in Daemons : KillDaemon(p, d))
  \/ Purge(p) \/ Restart(p) \/ Verify(p)

Next ==
  \/ \E p \in Pids : Cron(p) \/ OtherStarts(p) \/ OtherEnds(p) \/ Step(p) \/ Signal(p) \/ Sigkill(p)
  \/ \E d \in Daemons : DaemonDies(d) \/ StartedElsewhere(d)

Spec == Init /\ [][Next]_vars

Started == \E p \in Pids : Cron(p)
FairSpec == Spec /\ WF_vars(Started) /\ \A p \in Pids : WF_vars(Step(p))

-----------------------------------------------------------------------------
(* Unless two start so close together that neither has written the pid     *)
(* file, one watchdog at a time works, though pids are used again and      *)
(* watchdogs are killed (watchdog.mustache:52-80).                         *)
OneAtATime ==
  ~Overlaps => \A p, q \in Pids : pc[p] \in Working /\ pc[q] \in Working => p = q

(* Databases are purged under no daemon's feet, unless a signal cost the   *)
(* watchdog its list or daemons are started behind its back                *)
(* (watchdog.mustache:263-297).                                            *)
DatabasesFree == ~Overlaps => broken = {} \/ meddled

(* However starts fail, and whatever is signalled or killed, in the end    *)
(* cf-execd stays up (watchdog.mustache:302-315, README.md).               *)
ExecdStays == <>[](Execd \in up)
=============================================================================
