----------------------------- MODULE FRTransport -----------------------------
(***************************************************************************)
(* How a dump gets from a feeder to the drop directory of the superhubs:   *)
(* dump.sh on the feeder, transport.sh (push on the feeder, pull on the    *)
(* superhub) and the pull_dumps_from.sh jobs of a pull, one per feeder.    *)
(*                                                                         *)
(* A dump is its number; 0 is "no file".  On a feeder, its dump file can   *)
(* be at the top of the transport directory or in a superhub's directory   *)
(* below it, and a pull moves it on into <pid>.transporting there.  On a   *)
(* superhub, a pull works in the directory <pid> of the drop directory.    *)
(* The pid in the first name is that of the job, on whatever superhub.     *)
(***************************************************************************)
EXTENDS Integers

CONSTANTS
  Feeders, Superhubs,
  Pids,          \* process ids that a pull may get; they are reused
  JobPids,       \* and those of its jobs
  NoPid,
  Top,           \* the transport directory itself, as against a superhub's
  Known,         \* superhubs whose directories exist from earlier dumps
  Pushers,       \* feeders that push to their superhub; the others are pulled from
  OneWord,       \* is CFE_FR_TRANSPORTER_ARGS a single word
  DirTestAnswered, \* does the ssh that tests for the superhub's directory get an answer
  MaxDump,       \* bound: dumps per feeder
  MaxFaults,     \* bound: failing ssh, rsync, pg_dump and mv commands
  MaxCrashes     \* bound: killed scripts

ASSUME SwitchesAssumption ==
  Pushers \subseteq Feeders /\ OneWord \in BOOLEAN /\ DirTestAnswered \in BOOLEAN
ASSUME NamesAssumption ==
  Top \notin Superhubs /\ NoPid \notin Pids \cup JobPids /\ Known \subseteq Superhubs
ASSUME BoundsAssumption == MaxDump \in Nat /\ MaxFaults \in Nat /\ MaxCrashes \in Nat

Places == Superhubs \cup {Top}
Pulled == Feeders \ Pushers
NoDir == -1

VARIABLES
  taken,         \* number of the last dump that became <feeder>.sql.gz
  file,          \* file[f][p]: dump file of f at place p
  hasDir,        \* superhubs that have a directory on f
  wip,           \* wip[f][p][pid]: file in p/<pid>.transporting, or NoDir
  dumper,        \* dump.sh of each feeder: step, superhubs left to link for
  pusher,        \* transport.sh push of each feeder
  pull,          \* transport.sh pull of each superhub: step, pid, feeders left
  job,           \* its pull_dumps_from.sh of each feeder: step, place, pid, rsync failed
  work,          \* work[s][pid]: does the drop directory have <pid>
  got,           \* got[s][pid][f]: file in <pid>/<f>
  drop,          \* the drop directory
  delivered,     \* the last dump that reached the drop directory
  faults, crashes

feeder == <<taken, file, hasDir, dumper>>
superhub == <<pull, job, work, got>>
vars == <<feeder, wip, pusher, superhub, drop, delivered, faults, crashes>>

JobSteps == {"none", "start", "test", "mkdir", "mv", "rsync", "rm", "ok", "failed"}

TypeOK ==
  /\ taken \in [Feeders -> 0..MaxDump]
  /\ file \in [Feeders -> [Places -> 0..MaxDump]]
  /\ hasDir \in [Feeders -> SUBSET Superhubs]
  /\ wip \in [Feeders -> [Places -> [JobPids -> NoDir..MaxDump]]]
  /\ dumper \in [Feeders -> [step : {"idle", "link", "nolink"}, left : SUBSET Superhubs]]
  /\ pusher \in [Feeders -> [step : {"idle", "rsync", "rm"}, file : 0..MaxDump]]
  /\ pull \in [Superhubs -> [step : {"idle", "jobs", "gather"}, pid : Pids \cup {NoPid},
                             left : SUBSET Feeders]]
  /\ job \in [Superhubs -> [Feeders -> [step : JobSteps, place : Places, pid : JobPids \cup {NoPid},
                                         bad : BOOLEAN]]]
  /\ work \in [Superhubs -> [Pids -> BOOLEAN]]
  /\ got \in [Superhubs -> [Pids -> [Feeders -> 0..MaxDump]]]
  /\ drop \in [Superhubs -> [Feeders -> 0..MaxDump]]
  /\ delivered \in [Superhubs -> [Feeders -> 0..MaxDump]]
  /\ faults \in 0..MaxFaults /\ crashes \in 0..MaxCrashes

NoJob == [step |-> "none", place |-> Top, pid |-> NoPid, bad |-> FALSE]

Init ==
  /\ taken = [f \in Feeders |-> 0]
  /\ file = [f \in Feeders |-> [p \in Places |-> 0]]
  /\ hasDir = [f \in Feeders |-> Known]
  /\ wip = [f \in Feeders |-> [p \in Places |-> [n \in JobPids |-> NoDir]]]
  /\ dumper = [f \in Feeders |-> [step |-> "idle", left |-> {}]]
  /\ pusher = [f \in Feeders |-> [step |-> "idle", file |-> 0]]
  /\ pull = [s \in Superhubs |-> [step |-> "idle", pid |-> NoPid, left |-> {}]]
  /\ job = [s \in Superhubs |-> [f \in Feeders |-> NoJob]]
  /\ work = [s \in Superhubs |-> [n \in Pids |-> FALSE]]
  /\ got = [s \in Superhubs |-> [n \in Pids |-> [f \in Feeders |-> 0]]]
  /\ drop = [s \in Superhubs |-> [f \in Feeders |-> 0]]
  /\ delivered = drop
  /\ faults = 0 /\ crashes = 0

NoFault == UNCHANGED faults
Fault == faults < MaxFaults /\ faults' = faults + 1

-----------------------------------------------------------------------------
(* dump.sh                                                                 *)

(* A failing pg_dump only leaves its name in a list; a good dump replaces  *)
(* the one at the top in one step.                                         *)
Dump(f) ==
  /\ dumper[f].step # "link" /\ taken[f] < MaxDump
  /\ taken' = [taken EXCEPT ![f] = @ + 1]
  /\ file' = [file EXCEPT ![f][Top] = taken[f] + 1]
  /\ dumper' = [dumper EXCEPT ![f] = [step |-> "link", left |-> Superhubs]]
  /\ UNCHANGED <<hasDir, wip, pusher, superhub, drop, delivered, faults, crashes>>

(* ln -f ends the script when the file at the top has gone.                *)
Link(f, s) ==
  /\ dumper[f].step = "link" /\ s \in dumper[f].left
  /\ hasDir' = [hasDir EXCEPT ![f] = @ \cup {s}]
  /\ IF file[f][Top] # 0
     THEN /\ file' = [file EXCEPT ![f][s] = file[f][Top]]
          /\ dumper' = [dumper EXCEPT ![f].left = @ \ {s}]
     ELSE /\ dumper' = [dumper EXCEPT ![f] = [step |-> "nolink", left |-> {}]]
          /\ UNCHANGED file
  /\ UNCHANGED <<taken, wip, pusher, superhub, drop, delivered, faults, crashes>>

DumpDone(f) ==
  /\ dumper[f].step = "link" /\ dumper[f].left = {}
  /\ dumper' = [dumper EXCEPT ![f].step = "idle"]
  /\ UNCHANGED <<taken, file, hasDir, wip, pusher, superhub, drop, delivered, faults, crashes>>

-----------------------------------------------------------------------------
(* transport.sh push                                                       *)

PushMove(f) ==
  /\ f \in Pushers /\ pusher[f].step = "idle" /\ file[f][Top] # 0
  /\ pusher' = [pusher EXCEPT ![f] = [step |-> "rsync", file |-> file[f][Top]]]
  /\ file' = [file EXCEPT ![f][Top] = 0]
  /\ UNCHANGED <<taken, hasDir, dumper, wip, superhub, drop, delivered, faults, crashes>>

(* The arguments are quoted, so rsync takes them as one: several words, as *)
(* in the default of config.sh, are an option it does not know.            *)
PushSend(f) ==
  /\ pusher[f].step = "rsync"
  /\ \/ /\ OneWord /\ NoFault
        /\ \E s \in Superhubs :
             /\ drop' = [drop EXCEPT ![s][f] = pusher[f].file]
             /\ delivered' = [delivered EXCEPT ![s][f] = pusher[f].file]
     \/ /\ IF OneWord THEN Fault ELSE NoFault
        /\ UNCHANGED <<drop, delivered>>
  /\ pusher' = [pusher EXCEPT ![f].step = "rm"]
  /\ UNCHANGED <<feeder, wip, superhub, crashes>>

(* The .transporting file goes whether or not it was sent; a dump taken    *)
(* meanwhile stays.                                                        *)
LeftAtTop(f) == file[f][Top]

PushRemove(f) ==
  /\ pusher[f].step = "rm"
  /\ pusher' = [pusher EXCEPT ![f] = [step |-> "idle", file |-> 0]]
  /\ file' = [file EXCEPT ![f][Top] = LeftAtTop(f)]
  /\ UNCHANGED <<taken, hasDir, dumper, wip, superhub, drop, delivered, faults, crashes>>

-----------------------------------------------------------------------------
(* transport.sh pull                                                       *)

(* mkdir refuses a directory that an earlier pull with this pid left, and  *)
(* the script ends.                                                        *)
MayStart_WithP(s, n) == TRUE
MayStart(s, n) == ~work[s][n]

PullStart(s, n) ==
  /\ Pulled # {} /\ pull[s].step = "idle" /\ MayStart(s, n)
  /\ work' = [work EXCEPT ![s][n] = TRUE]
  /\ pull' = [pull EXCEPT ![s] = [step |-> "jobs", pid |-> n, left |-> Pulled]]
  /\ job' = [job EXCEPT ![s] = [f \in Feeders |->
               IF f \in Pulled THEN [NoJob EXCEPT !.step = "start"] ELSE NoJob]]
  /\ UNCHANGED <<feeder, wip, pusher, got, drop, delivered, faults, crashes>>

JobsDone(s) ==
  /\ pull[s].step = "jobs" /\ \A f \in Pulled : job[s][f].step \in {"ok", "failed"}
  /\ pull' = [pull EXCEPT ![s].step = "gather"]
  /\ UNCHANGED <<feeder, wip, pusher, job, work, got, drop, delivered, faults, crashes>>

Ended == [step |-> "idle", pid |-> NoPid, left |-> {}]

(* Whatever the jobs returned, the files that are there are handed over; a *)
(* failing mv ends the script and leaves its directory.                    *)
Gather(s, f) ==
  LET n == pull[s].pid IN
  /\ pull[s].step = "gather" /\ f \in pull[s].left
  /\ IF got[s][n][f] = 0
     THEN NoFault /\ UNCHANGED <<got, drop, delivered>> /\ pull' = [pull EXCEPT ![s].left = @ \ {f}]
     ELSE \/ /\ NoFault
             /\ drop' = [drop EXCEPT ![s][f] = got[s][n][f]]
             /\ delivered' = [delivered EXCEPT ![s][f] = got[s][n][f]]
             /\ got' = [got EXCEPT ![s][n][f] = 0]
             /\ pull' = [pull EXCEPT ![s].left = @ \ {f}]
          \/ Fault /\ pull' = [pull EXCEPT ![s] = Ended] /\ UNCHANGED <<got, drop, delivered>>
  /\ UNCHANGED <<feeder, wip, pusher, job, work, crashes>>

PullDone(s) ==
  /\ pull[s].step = "gather" /\ pull[s].left = {}
  /\ work' = [work EXCEPT ![s][pull[s].pid] = FALSE]
  /\ pull' = [pull EXCEPT ![s] = Ended]
  /\ UNCHANGED <<feeder, wip, pusher, job, got, drop, delivered, faults, crashes>>

-----------------------------------------------------------------------------
(* pull_dumps_from.sh, step by step: each is one ssh or rsync command.     *)

At(s, f, step) == pull[s].step = "jobs" /\ job[s][f].step = step
JobTo(s, f, step) == job' = [job EXCEPT ![s][f].step = step]

WipOf(s, f) == wip[f][job[s][f].place][job[s][f].pid]
SetWip(s, f, v) == wip' = [wip EXCEPT ![f][job[s][f].place][job[s][f].pid] = v]

(* An unanswered `test -d' looks like a feeder without superhub directories. *)
JobChoose(s, f) ==
  /\ At(s, f, "start")
  /\ \E p \in {s, Top}, n \in JobPids :
       /\ job' = [job EXCEPT ![s][f].step = "test", ![s][f].place = p, ![s][f].pid = n]
       /\ IF p = Top /\ s \in hasDir[f] THEN ~DirTestAnswered /\ Fault
          ELSE NoFault /\ (p = s <=> s \in hasDir[f])
  /\ UNCHANGED <<feeder, wip, pusher, pull, work, got, drop, delivered, crashes>>

JobTest(s, f) ==
  /\ At(s, f, "test")
  /\ \/ NoFault /\ JobTo(s, f, IF file[f][job[s][f].place] # 0 THEN "mkdir" ELSE "ok")
     \/ Fault /\ JobTo(s, f, "ok")
  /\ UNCHANGED <<feeder, wip, pusher, pull, work, got, drop, delivered, crashes>>

(* The directory is this job's because mkdir fails when it exists.         *)
MayMkdir_WithP(s, f) == TRUE
MayMkdir(s, f) == WipOf(s, f) = NoDir

JobMkdir(s, f) ==
  /\ At(s, f, "mkdir")
  /\ \/ NoFault /\ MayMkdir(s, f) /\ SetWip(s, f, IF WipOf(s, f) = NoDir THEN 0 ELSE WipOf(s, f))
                /\ JobTo(s, f, "mv")
     \/ NoFault /\ ~MayMkdir(s, f) /\ UNCHANGED wip /\ JobTo(s, f, "failed")
     \/ Fault /\ UNCHANGED wip /\ JobTo(s, f, "failed")
  /\ UNCHANGED <<feeder, pusher, pull, work, got, drop, delivered, crashes>>

JobMove(s, f) ==
  LET p == job[s][f].place IN
  /\ At(s, f, "mv")
  /\ \/ /\ NoFault /\ file[f][p] # 0
        /\ SetWip(s, f, file[f][p])
        /\ file' = [file EXCEPT ![f][p] = 0]
        /\ JobTo(s, f, "rsync")
     \/ /\ IF file[f][p] = 0 THEN NoFault ELSE Fault
        /\ JobTo(s, f, "failed") /\ UNCHANGED <<wip, file>>
  /\ UNCHANGED <<taken, hasDir, dumper, pusher, pull, work, got, drop, delivered, crashes>>

JobFetch(s, f) ==
  /\ At(s, f, "rsync")
  /\ \/ /\ NoFault
        /\ got' = [got EXCEPT ![s][pull[s].pid][f] = WipOf(s, f)]
        /\ JobTo(s, f, "rm")
     \/ /\ Fault
        /\ job' = [job EXCEPT ![s][f].step = "rm", ![s][f].bad = TRUE]
        /\ UNCHANGED got
  /\ UNCHANGED <<feeder, wip, pusher, pull, work, drop, delivered, crashes>>

AfterRemove_Left(s, f) == WipOf(s, f)
AfterRemove(s, f) == NoDir

JobRemove(s, f) ==
  /\ At(s, f, "rm")
  /\ \/ /\ NoFault /\ SetWip(s, f, AfterRemove(s, f))
        /\ \/ ~job[s][f].bad /\ JobTo(s, f, "ok") /\ UNCHANGED got
           \/ /\ job[s][f].bad /\ JobTo(s, f, "failed")
              /\ got' = [got EXCEPT ![s][pull[s].pid][f] = 0]
     \/ Fault /\ JobTo(s, f, "failed") /\ UNCHANGED <<wip, got>>
  /\ UNCHANGED <<feeder, pusher, pull, work, drop, delivered, crashes>>

-----------------------------------------------------------------------------
(* import.sh takes what is in the drop directory.                          *)
Consume(s, f) ==
  /\ drop[s][f] # 0
  /\ drop' = [drop EXCEPT ![s][f] = 0]
  /\ UNCHANGED <<feeder, wip, pusher, superhub, delivered, faults, crashes>>

(* A script is killed, a pull with its jobs; files stay where they are.    *)
Crash ==
  /\ crashes < MaxCrashes /\ crashes' = crashes + 1
  /\ \/ \E f \in Feeders :
          \/ /\ dumper[f].step = "link"
             /\ dumper' = [dumper EXCEPT ![f] = [step |-> "idle", left |-> {}]]
             /\ UNCHANGED <<pusher, pull, job>>
          \/ /\ pusher[f].step # "idle"
             /\ pusher' = [pusher EXCEPT ![f] = [step |-> "idle", file |-> 0]]
             /\ UNCHANGED <<dumper, pull, job>>
     \/ \E s \in Superhubs :
          /\ pull[s].step # "idle"
          /\ pull' = [pull EXCEPT ![s] = Ended]
          /\ job' = [job EXCEPT ![s] = [f \in Feeders |-> NoJob]]
          /\ UNCHANGED <<dumper, pusher>>
  /\ UNCHANGED <<taken, file, hasDir, wip, work, got, drop, delivered, faults>>

FeederStep(f) ==
  \/ Dump(f) \/ DumpDone(f) \/ PushMove(f) \/ PushSend(f) \/ PushRemove(f)
  \/ \E s \in Superhubs : Link(f, s)

PullStep(s) ==
  \/ JobsDone(s) \/ PullDone(s) \/ \E n \in Pids : PullStart(s, n)
  \/ \E f \in Feeders :
       \/ Gather(s, f) \/ JobChoose(s, f) \/ JobTest(s, f) \/ JobMkdir(s, f)
       \/ JobMove(s, f) \/ JobFetch(s, f) \/ JobRemove(s, f)

Next ==
  \/ \E f \in Feeders : FeederStep(f)
  \/ \E s \in Superhubs : PullStep(s)
  \/ \E s \in Superhubs, f \in Feeders : Consume(s, f)
  \/ Crash

Spec == Init /\ [][Next]_vars

(* cf-agent runs the scripts again and again on every host.                *)
FairSpec ==
  /\ Spec
  /\ \A f \in Feeders : WF_vars(FeederStep(f))
  /\ \A s \in Superhubs : WF_vars(PullStep(s))

-----------------------------------------------------------------------------
(* Properties.                                                             *)

View(s) == INSTANCE FeederView WITH made <- taken, view <- delivered[s]

(* Dumps of a feeder reach a superhub in the order they were taken,        *)
(* whatever is lost, killed or left over: each superhub sees a FeederView  *)
(* of them, which import.sh relies on.  It takes a superhub directory that *)
(* exists already and an answered `test -d' for granted: a job that falls  *)
(* back to the top may leave an older dump in the superhub's directory for *)
(* the next one (pull_dumps_from.sh:36-54, transport.sh:76, 103-112).      *)
InOrder ==
  /\ \A s \in Superhubs : View(s)!Init
  /\ [][\A s \in Superhubs : View(s)!Next \/ UNCHANGED <<taken, delivered[s]>>]_vars

(* A <pid>.transporting directory belongs to one job at a time, also when  *)
(* two superhubs fall back to the same directory with the same pid         *)
(* (pull_dumps_from.sh:48-56).                                             *)
OwnWip ==
  \A s, t \in Superhubs, f \in Feeders :
    LET Uses(r) == \E x \in {"mv", "rsync", "rm"} : At(r, f, x) IN
    /\ Uses(s) /\ Uses(t) /\ job[s][f].place = job[t][f].place /\ job[s][f].pid = job[t][f].pid
    => s = t

OnTheWay(f, d) ==
  \/ \E p \in Places : file[f][p] = d \/ \E n \in JobPids : wip[f][p][n] = d
  \/ \E s \in Superhubs, n \in Pids : got[s][n][f] = d

(* Unless a command fails, no step of any script loses the last dump of a  *)
(* feeder that is pulled from: whoever links, moves and removes files at   *)
(* the same time, also when a superhub robs dump.sh of the file that it is *)
(* linking or scripts are killed, the dump stays in some directory until a *)
(* superhub hands it over (dump.sh:68-79, transport.sh:103-115,            *)
(* pull_dumps_from.sh:48-62).  The model forgets the file of a killed push. *)
NothingLost ==
  [][faults' = 0 =>
       \A f \in Pulled :
         taken[f] > 0 /\ taken'[f] = taken[f] /\ OnTheWay(f, taken[f]) =>
           OnTheWay(f, taken[f])' \/ \E s \in Superhubs : delivered'[s][f] = taken[f]]_vars

(* When no command fails, a pull that has ended leaves nothing behind that *)
(* could stop a later pull with its pid (transport.sh:76, 115;             *)
(* pull_dumps_from.sh:49, 56).                                             *)
NoResidue ==
  faults = 0 /\ crashes = 0 =>
    \A s \in Superhubs : pull[s].step = "idle" =>
      /\ \A n \in Pids : ~work[s][n] /\ \A f \in Feeders : got[s][n][f] = 0
      /\ \A f \in Feeders, n \in JobPids : wip[f][s][n] = NoDir

(* Every superhub gets the last dump in the end, unless a command fails or *)
(* a script is killed (dump.sh, transport.sh and pull_dumps_from.sh); a    *)
(* feeder that pushes needs transporter arguments of one word.             *)
KeepsUp ==
  \A f \in Feeders :
    []<>(\/ faults + crashes > 0
         \/ taken[f] = MaxDump /\ \A s \in Superhubs : delivered[s][f] = MaxDump)
=============================================================================
