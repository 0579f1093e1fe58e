-------------------------- MODULE FRTransportProofs --------------------------
(***************************************************************************)
(* Proofs about FRTransport, for any feeders, superhubs and pids, any      *)
(* number of dumps, faults and kills, and, but for the order of the dumps, *)
(* whatever `test -d' answers.  The argument: a job at work made its       *)
(* .transporting directory itself, in a place where there was none, so no  *)
(* other job has it; it is empty until the job moves a dump into it, and   *)
(* is removed only when the work directory of the pull has the dump.  That *)
(* directory is new when a pull starts in it, so no job overwrites a file  *)
(* there.  As long as jobs stay in the directory of their superhub, a dump *)
(* on its way is never older than what the superhub has, and never newer   *)
(* than what waits there.                                                  *)
(***************************************************************************)
EXTENDS FRTransport, TLAPS

JobRec == [step : JobSteps, place : Places, pid : JobPids \cup {NoPid}, bad : BOOLEAN]
DumperRec == [step : {"idle", "link", "nolink"}, left : SUBSET Superhubs]
PusherRec == [step : {"idle", "rsync", "rm"}, file : 0..MaxDump]
PullRec == [step : {"idle", "jobs", "gather"}, pid : Pids \cup {NoPid}, left : SUBSET Feeders]

(* A job that has chosen its place has a pid, and so has a pull.           *)
Chosen == {"test", "mkdir", "mv", "rsync", "rm"}
PidsKnown ==
  /\ \A s \in Superhubs : pull[s].step # "idle" => pull[s].pid \in Pids
  /\ \A s \in Superhubs, f \in Feeders : job[s][f].step \in Chosen => job[s][f].pid \in JobPids

TypeInv == TypeOK /\ PidsKnown

(* A job at work in a .transporting directory has made it.                 *)
AtWork(s, f) == \E x \in {"mv", "rsync", "rm"} : At(s, f, x)
HasWip == \A s \in Superhubs, f \in Feeders : AtWork(s, f) => WipOf(s, f) # NoDir

WipInv == TypeInv /\ HasWip /\ OwnWip

-----------------------------------------------------------------------------
(* Types                                                                   *)

LEMMA Numbers ==
  /\ MaxDump \in Nat /\ MaxFaults \in Nat /\ MaxCrashes \in Nat
  /\ 0 \in 0..MaxDump /\ NoDir \in NoDir..MaxDump /\ 0..MaxDump \subseteq NoDir..MaxDump
  /\ NoDir \notin 0..MaxDump /\ 0 \in 0..MaxFaults /\ 0 \in 0..MaxCrashes
BY BoundsAssumption DEF NoDir

LEMMA FaultType ==
    ASSUME TypeOK, Fault \/ NoFault PROVE faults' \in 0..MaxFaults
BY BoundsAssumption DEF TypeOK, Fault, NoFault

(* The values of one feeder, one superhub and one job.                     *)
LEMMA FieldsType ==
    ASSUME TypeOK, NEW s \in Superhubs, NEW f \in Feeders
    PROVE  /\ taken[f] \in 0..MaxDump /\ dumper[f].left \in SUBSET Superhubs
           /\ \A p \in Places : file[f][p] \in 0..MaxDump
           /\ pusher[f].file \in 0..MaxDump
           /\ pull[s] \in PullRec /\ job[s][f] \in JobRec
           /\ \A n \in Pids : got[s][n][f] \in 0..MaxDump
           /\ \A p \in Places, n \in JobPids : wip[f][p][n] \in NoDir..MaxDump
BY DEF TypeOK, PullRec, JobRec

LEMMA AtTop == ASSUME TypeOK, NEW f \in Feeders PROVE Top \in Places /\ file[f][Top] \in 0..MaxDump
BY DEF TypeOK, Places

LEMMA Shapes ==
    ASSUME TypeOK
    PROVE  /\ dumper \in [Feeders -> DumperRec] /\ pusher \in [Feeders -> PusherRec]
           /\ pull \in [Superhubs -> PullRec] /\ job \in [Superhubs -> [Feeders -> JobRec]]
BY DEF TypeOK, DumperRec, PusherRec, PullRec, JobRec

LEMMA Update ==
    ASSUME NEW S, NEW V, NEW h \in [S -> V], NEW a \in S, NEW v \in V
    PROVE  /\ [h EXCEPT ![a] = v] \in [S -> V] /\ [h EXCEPT ![a] = v][a] = v
           /\ \A b \in S \ {a} : [h EXCEPT ![a] = v][b] = h[b]
OBVIOUS

LEMMA Update2 ==
    ASSUME NEW S, NEW T, NEW V, NEW h \in [S -> [T -> V]], NEW a \in S, NEW b \in T, NEW v \in V
    PROVE  [h EXCEPT ![a][b] = v] \in [S -> [T -> V]]
OBVIOUS

LEMMA DumperType ==
    ASSUME TypeOK, NEW f \in Feeders, NEW r \in DumperRec, dumper' = [dumper EXCEPT ![f] = r]
    PROVE  dumper' \in [Feeders -> DumperRec]
BY Shapes

LEMMA PusherType ==
    ASSUME TypeOK, NEW f \in Feeders, NEW r \in PusherRec, pusher' = [pusher EXCEPT ![f] = r]
    PROVE  pusher' \in [Feeders -> PusherRec]
BY Shapes

LEMMA PullType ==
    ASSUME TypeOK, NEW s \in Superhubs, NEW r \in PullRec, pull' = [pull EXCEPT ![s] = r]
    PROVE  /\ pull' \in [Superhubs -> PullRec] /\ pull'[s] = r
           /\ \A t \in Superhubs \ {s} : pull'[t] = pull[t]
BY Shapes

LEMMA JobToType ==
    ASSUME TypeOK, NEW s \in Superhubs, NEW f \in Feeders, NEW x \in JobSteps, JobTo(s, f, x)
    PROVE  /\ job' \in [Superhubs -> [Feeders -> JobRec]]
           /\ job'[s][f].step = x /\ job'[s][f].place = job[s][f].place
           /\ job'[s][f].pid = job[s][f].pid /\ job'[s][f].bad = job[s][f].bad
           /\ \A t \in Superhubs, g \in Feeders : t # s \/ g # f => job'[t][g] = job[t][g]
<1>1. job \in [Superhubs -> [Feeders -> JobRec]]
  BY DEF TypeOK, JobRec
<1>0. job[s][f] \in JobRec
  BY <1>1
<1>2. job[s][f] \in JobRec /\ [job[s][f] EXCEPT !.step = x] \in JobRec
  BY <1>0 DEF JobRec
<1>3. job' = [job EXCEPT ![s] = [job[s] EXCEPT ![f] = [job[s][f] EXCEPT !.step = x]]]
  BY DEF JobTo
<1>4. job'[s][f] = [job[s][f] EXCEPT !.step = x]
  BY <1>1, <1>3
<1>5. /\ job'[s][f].step = x /\ job'[s][f].place = job[s][f].place
      /\ job'[s][f].pid = job[s][f].pid /\ job'[s][f].bad = job[s][f].bad
  BY <1>2, <1>4 DEF JobRec
<1>6. [job[s] EXCEPT ![f] = [job[s][f] EXCEPT !.step = x]] \in [Feeders -> JobRec]
  BY <1>1, <1>2
<1>. HIDE DEF JobRec
<1>7. job' \in [Superhubs -> [Feeders -> JobRec]]
  BY <1>1, <1>3, <1>6
<1>8. \A t \in Superhubs, g \in Feeders : t # s \/ g # f => job'[t][g] = job[t][g]
  BY <1>1, <1>3
<1>. QED
  BY <1>5, <1>7, <1>8

LEMMA SetWipType ==
    ASSUME TypeOK, NEW s \in Superhubs, NEW f \in Feeders, NEW v \in NoDir..MaxDump,
           job[s][f].pid \in JobPids, SetWip(s, f, v)
    PROVE  /\ wip' \in [Feeders -> [Places -> [JobPids -> NoDir..MaxDump]]]
           /\ wip'[f][job[s][f].place][job[s][f].pid] = v
           /\ \A g \in Feeders, p \in Places, n \in JobPids :
                g # f \/ p # job[s][f].place \/ n # job[s][f].pid => wip'[g][p][n] = wip[g][p][n]
<1>. DEFINE q == job[s][f].place
            m == job[s][f].pid
<1>1. wip \in [Feeders -> [Places -> [JobPids -> NoDir..MaxDump]]] /\ q \in Places /\ m \in JobPids
  BY FieldsType DEF TypeOK, JobRec
<1>2. wip' = [wip EXCEPT ![f] = [wip[f] EXCEPT ![q] = [wip[f][q] EXCEPT ![m] = v]]]
  BY DEF SetWip
<1>. HIDE DEF q, m
<1>3. [wip[f][q] EXCEPT ![m] = v] \in [JobPids -> NoDir..MaxDump]
  BY <1>1
<1>4. [wip[f] EXCEPT ![q] = [wip[f][q] EXCEPT ![m] = v]] \in [Places -> [JobPids -> NoDir..MaxDump]]
  BY <1>1, <1>3
<1>5. wip' \in [Feeders -> [Places -> [JobPids -> NoDir..MaxDump]]]
  BY <1>1, <1>2, <1>4
<1>6. wip'[f][q][m] = v
  BY <1>1, <1>2
<1>7. \A g \in Feeders, p \in Places, n \in JobPids :
         g # f \/ p # q \/ n # m => wip'[g][p][n] = wip[g][p][n]
  BY <1>1, <1>2
<1>. QED
  BY <1>5, <1>6, <1>7 DEF q, m

(* A file of a feeder, and one in the work directory of a pull.            *)
LEMMA FileType ==
    ASSUME TypeOK, NEW f \in Feeders, NEW p \in Places, NEW v \in 0..MaxDump,
           file' = [file EXCEPT ![f][p] = v]
    PROVE  /\ file' \in [Feeders -> [Places -> 0..MaxDump]]
           /\ file'[f][p] = v
           /\ \A g \in Feeders, q \in Places : g # f \/ q # p => file'[g][q] = file[g][q]
BY DEF TypeOK

LEMMA GotType ==
    ASSUME TypeOK, NEW s \in Superhubs, NEW n \in Pids, NEW f \in Feeders, NEW v \in 0..MaxDump,
           got' = [got EXCEPT ![s][n][f] = v]
    PROVE  /\ got' \in [Superhubs -> [Pids -> [Feeders -> 0..MaxDump]]]
           /\ got'[s][n][f] = v
           /\ \A t \in Superhubs, m \in Pids, g \in Feeders :
                t # s \/ m # n \/ g # f => got'[t][m][g] = got[t][m][g]
<1>1. got \in [Superhubs -> [Pids -> [Feeders -> 0..MaxDump]]]
  BY DEF TypeOK
<1>2. got' = [got EXCEPT ![s] = [got[s] EXCEPT ![n] = [got[s][n] EXCEPT ![f] = v]]]
  OBVIOUS
<1>3. [got[s] EXCEPT ![n] = [got[s][n] EXCEPT ![f] = v]] \in [Pids -> [Feeders -> 0..MaxDump]]
  BY <1>1
<1>. QED
  BY <1>1, <1>2, <1>3

(* A dump has been taken out of a work directory, or there was none.       *)
LEMMA GotCleared ==
    ASSUME TypeOK, NEW s \in Superhubs, NEW n \in Pids, NEW f \in Feeders,
           \/ got' = [got EXCEPT ![s][n][f] = 0]
           \/ got[s][n][f] = 0 /\ UNCHANGED got
    PROVE  /\ got'[s][n][f] = 0
           /\ \A t \in Superhubs, m \in Pids, g \in Feeders :
                t # s \/ m # n \/ g # f => got'[t][m][g] = got[t][m][g]
<1>1. CASE got' = [got EXCEPT ![s][n][f] = 0]
  <2>1. got \in [Superhubs -> [Pids -> [Feeders -> 0..MaxDump]]]
    BY DEF TypeOK
  <2>. QED
    BY <1>1, <2>1
<1>2. CASE got[s][n][f] = 0 /\ UNCHANGED got
  BY <1>2
<1>. QED
  BY <1>1, <1>2

LEMMA TypeInit == ASSUME Init PROVE TypeInv
<1>1. taken \in [Feeders -> 0..MaxDump] /\ file \in [Feeders -> [Places -> 0..MaxDump]]
  BY Numbers DEF Init
<1>2. /\ hasDir \in [Feeders -> SUBSET Superhubs]
      /\ wip \in [Feeders -> [Places -> [JobPids -> NoDir..MaxDump]]]
  BY Numbers, NamesAssumption DEF Init
<1>3. /\ dumper \in [Feeders -> [step : {"idle", "link", "nolink"}, left : SUBSET Superhubs]]
      /\ pusher \in [Feeders -> [step : {"idle", "rsync", "rm"}, file : 0..MaxDump]]
  BY Numbers DEF Init
<1>4. /\ pull \in [Superhubs -> PullRec]
      /\ work \in [Superhubs -> [Pids -> BOOLEAN]]
  BY DEF Init, PullRec
<1>5. job \in [Superhubs -> [Feeders -> JobRec]]
  BY DEF Init, JobRec, NoJob, JobSteps, Places
<1>6. /\ got \in [Superhubs -> [Pids -> [Feeders -> 0..MaxDump]]]
      /\ drop \in [Superhubs -> [Feeders -> 0..MaxDump]] /\ delivered = drop
      /\ faults \in 0..MaxFaults /\ crashes \in 0..MaxCrashes
  BY Numbers DEF Init
<1>7. PidsKnown
  BY DEF Init, PidsKnown, NoJob, Chosen
<1>. QED
  BY <1>1, <1>2, <1>3, <1>4, <1>5, <1>6, <1>7 DEF TypeInv, TypeOK, PullRec, JobRec

LEMMA TypeFeeder ==
    ASSUME TypeInv, NEW f \in Feeders, FeederStep(f) PROVE TypeInv'
<1>. USE DEF TypeInv
<1>1. CASE Dump(f)
  <2>1. taken[f] + 1 \in 0..MaxDump
    BY <1>1, Numbers, FieldsType DEF Dump, TypeOK
  <2>2. taken' \in [Feeders -> 0..MaxDump] /\ file' \in [Feeders -> [Places -> 0..MaxDump]]
    BY <1>1, <2>1 DEF Dump, TypeOK
  <2>3. dumper' \in [Feeders -> DumperRec]
    <3>1. [step |-> "link", left |-> Superhubs] \in DumperRec
      BY DEF DumperRec
    <3>. QED
      BY <1>1, <3>1, DumperType DEF Dump
  <2>. QED
    BY <1>1, <2>2, <2>3 DEF Dump, TypeOK, DumperRec, PidsKnown, superhub
<1>2. CASE \E s \in Superhubs : Link(f, s)
  <2>1. PICK s \in Superhubs : Link(f, s)
    BY <1>2
  <2>2. hasDir' \in [Feeders -> SUBSET Superhubs]
    BY <2>1 DEF Link, TypeOK
  <2>3. dumper' \in [Feeders -> DumperRec]
    <3>1. /\ [dumper[f] EXCEPT !.left = @ \ {s}] \in DumperRec
          /\ [step |-> "nolink", left |-> {}] \in DumperRec
      <4>1. dumper[f] \in DumperRec
        BY Shapes
      <4>. QED
        BY <4>1 DEF DumperRec
    <3>. QED
      BY <2>1, <3>1, DumperType DEF Link
  <2>4. file' \in [Feeders -> [Places -> 0..MaxDump]]
    <3>1. file[f][Top] \in 0..MaxDump /\ s \in Places
      BY AtTop DEF Places
    <3>2. CASE file' = [file EXCEPT ![f][s] = file[f][Top]]
      BY <3>1, <3>2, FileType, Zenon
    <3>3. CASE UNCHANGED file
      BY <3>3 DEF TypeOK
    <3>. QED
      BY <2>1, <3>2, <3>3 DEF Link
  <2>. QED
    BY <2>1, <2>2, <2>3, <2>4 DEF Link, TypeOK, DumperRec, PidsKnown, superhub
<1>3. CASE DumpDone(f)
  <2>1. dumper' \in [Feeders -> DumperRec]
    <3>1. dumper[f] \in DumperRec
      BY Shapes
    <3>2. [dumper[f] EXCEPT !.step = "idle"] \in DumperRec
      BY <3>1 DEF DumperRec
    <3>. QED
      BY <1>3, <3>2, DumperType DEF DumpDone
  <2>. QED
    BY <1>3, <2>1 DEF DumpDone, TypeOK, DumperRec, PidsKnown, superhub
<1>4. CASE PushMove(f)
  <2>1. pusher' \in [Feeders -> PusherRec]
    <3>1. file[f][Top] \in 0..MaxDump
      BY AtTop
    <3>2. [step |-> "rsync", file |-> file[f][Top]] \in PusherRec
      BY <3>1 DEF PusherRec
    <3>. QED
      BY <1>4, <3>2, PusherType DEF PushMove
  <2>2. file' \in [Feeders -> [Places -> 0..MaxDump]]
    BY <1>4, Numbers, FileType DEF PushMove, Places
  <2>. QED
    BY <1>4, <2>1, <2>2 DEF PushMove, TypeOK, PusherRec, PidsKnown, superhub
<1>5. CASE PushSend(f)
  <2>1. pusher' \in [Feeders -> PusherRec]
    <3>1. pusher[f] \in PusherRec
      BY Shapes
    <3>2. [pusher[f] EXCEPT !.step = "rm"] \in PusherRec
      BY <3>1 DEF PusherRec
    <3>. QED
      BY <1>5, <3>2, PusherType DEF PushSend
  <2>2. faults' \in 0..MaxFaults
    BY <1>5, FaultType DEF PushSend
  <2>3. /\ drop' \in [Superhubs -> [Feeders -> 0..MaxDump]]
        /\ delivered' \in [Superhubs -> [Feeders -> 0..MaxDump]]
    <3>1. CASE UNCHANGED <<drop, delivered>>
      BY <3>1 DEF TypeOK
    <3>2. ASSUME NEW s \in Superhubs, drop' = [drop EXCEPT ![s][f] = pusher[f].file],
                 delivered' = [delivered EXCEPT ![s][f] = pusher[f].file]
          PROVE  /\ drop' \in [Superhubs -> [Feeders -> 0..MaxDump]]
                 /\ delivered' \in [Superhubs -> [Feeders -> 0..MaxDump]]
      BY <3>2, FieldsType, Update2 DEF TypeOK
    <3>. QED
      BY <1>5, <3>1, <3>2 DEF PushSend
  <2>. QED
    BY <1>5, <2>1, <2>2, <2>3 DEF PushSend, TypeOK, PusherRec, PidsKnown, superhub, feeder
<1>6. CASE PushRemove(f)
  <2>1. pusher' \in [Feeders -> PusherRec]
    <3>1. [step |-> "idle", file |-> 0] \in PusherRec
      BY Numbers DEF PusherRec
    <3>. QED
      BY <1>6, <3>1, PusherType DEF PushRemove
  <2>2. file' \in [Feeders -> [Places -> 0..MaxDump]]
    <3>. QED
      BY <1>6, AtTop, FileType DEF PushRemove, LeftAtTop
  <2>. QED
    BY <1>6, <2>1, <2>2 DEF PushRemove, TypeOK, PusherRec, PidsKnown, superhub
<1>. QED
  BY <1>1, <1>2, <1>3, <1>4, <1>5, <1>6 DEF FeederStep

LEMMA TypePull ==
    ASSUME TypeInv, NEW s \in Superhubs,
           \/ JobsDone(s) \/ PullDone(s) \/ \E n \in Pids : PullStart(s, n)
           \/ \E f \in Feeders : Gather(s, f)
    PROVE  TypeInv'
<1>. USE DEF TypeInv
<1>0. Ended \in PullRec
  BY DEF Ended, PullRec
<1>1. CASE \E n \in Pids : PullStart(s, n)
  <2>1. PICK n \in Pids : PullStart(s, n)
    BY <1>1
  <2>2. pull' \in [Superhubs -> PullRec] /\ pull'[s].pid = n
        /\ \A t \in Superhubs \ {s} : pull'[t] = pull[t]
    BY <2>1 DEF PullStart, TypeOK, PullRec, Pulled
  <2>3. \A f \in Feeders : (IF f \in Pulled THEN [NoJob EXCEPT !.step = "start"] ELSE NoJob) \in JobRec
    BY DEF NoJob, JobRec, JobSteps, Places
  <2>4. job' \in [Superhubs -> [Feeders -> JobRec]]
    BY <2>1, <2>3 DEF PullStart, TypeOK, JobRec
  <2>5. \A f \in Feeders : job'[s][f].step \notin Chosen
    BY <2>1 DEF PullStart, TypeOK, NoJob, Chosen
  <2>6. \A t \in Superhubs \ {s} : job'[t] = job[t]
    BY <2>1 DEF PullStart, TypeOK
  <2>7. work' \in [Superhubs -> [Pids -> BOOLEAN]]
    BY <2>1 DEF PullStart, TypeOK
  <2>8. PidsKnown'
    BY <2>2, <2>5, <2>6 DEF PidsKnown
  <2>. QED
    BY <2>1, <2>2, <2>4, <2>7, <2>8 DEF PullStart, TypeOK, PullRec, JobRec, feeder
<1>2. CASE JobsDone(s)
  <2>1. [pull[s] EXCEPT !.step = "gather"] \in PullRec
    <3>1. pull[s] \in PullRec
      BY Shapes
    <3>. QED
      BY <3>1 DEF PullRec
  <2>2. pull' \in [Superhubs -> PullRec] /\ pull'[s].pid = pull[s].pid
        /\ \A t \in Superhubs \ {s} : pull'[t] = pull[t]
    BY <1>2, <2>1, PullType, Shapes DEF JobsDone, PullRec
  <2>3. PidsKnown'
    BY <1>2, <2>2 DEF JobsDone, PidsKnown
  <2>. QED
    BY <1>2, <2>2, <2>3 DEF JobsDone, TypeOK, PullRec, feeder
<1>3. CASE PullDone(s)
  <2>1. pull' \in [Superhubs -> PullRec]
    BY <1>3, <1>0 DEF PullDone, TypeOK, PullRec
  <2>2. work' \in [Superhubs -> [Pids -> BOOLEAN]]
    BY <1>3 DEF PullDone, TypeOK
  <2>3. PidsKnown'
    BY <1>3 DEF PullDone, PidsKnown, TypeOK, Ended
  <2>. QED
    BY <1>3, <2>1, <2>2, <2>3 DEF PullDone, TypeOK, PullRec, feeder
<1>4. ASSUME NEW f \in Feeders, Gather(s, f) PROVE TypeInv'
  <2>1. pull[s].step = "gather" /\ pull[s].pid \in Pids /\ pull[s] \in PullRec
    BY <1>4, Shapes DEF Gather, PidsKnown
  <2>2. PICK r \in PullRec : /\ pull' = [pull EXCEPT ![s] = r]
                             /\ r.step # "idle" => r.pid = pull[s].pid
    <3>1. /\ [pull[s] EXCEPT !.left = @ \ {f}] \in PullRec
          /\ [pull[s] EXCEPT !.left = @ \ {f}].pid = pull[s].pid
      BY <2>1 DEF PullRec
    <3>2. Ended.step = "idle"
      BY DEF Ended
    <3>. QED
      BY <1>0, <1>4, <3>1, <3>2 DEF Gather
  <2>3. faults' \in 0..MaxFaults
    BY <1>4, FaultType DEF Gather
  <2>4. got' \in [Superhubs -> [Pids -> [Feeders -> 0..MaxDump]]]
    <3>1. CASE got' = [got EXCEPT ![s][pull[s].pid][f] = 0]
      BY <2>1, <3>1, Numbers, GotType
    <3>2. CASE got' = got
      BY <3>2 DEF TypeOK
    <3>. QED
      BY <1>4, <3>1, <3>2 DEF Gather
  <2>5. /\ drop' \in [Superhubs -> [Feeders -> 0..MaxDump]]
        /\ delivered' \in [Superhubs -> [Feeders -> 0..MaxDump]]
    <3>1. got[s][pull[s].pid][f] \in 0..MaxDump
      BY <2>1, FieldsType
    <3>2. CASE UNCHANGED <<drop, delivered>>
      BY <3>2 DEF TypeOK
    <3>3. CASE /\ drop' = [drop EXCEPT ![s][f] = got[s][pull[s].pid][f]]
               /\ delivered' = [delivered EXCEPT ![s][f] = got[s][pull[s].pid][f]]
      BY <3>1, <3>3, Update2 DEF TypeOK
    <3>. QED
      BY <1>4, <3>2, <3>3 DEF Gather
  <2>6. PidsKnown'
    <3>1. pull'[s] = r /\ \A t \in Superhubs \ {s} : pull'[t] = pull[t]
      BY <2>2, PullType
    <3>2. job' = job
      BY <1>4 DEF Gather
    <3>. QED
      BY <2>1, <2>2, <3>1, <3>2 DEF PidsKnown
  <2>7. pull' \in [Superhubs -> PullRec]
    BY <2>2, PullType
  <2>. QED
    BY <1>4, <2>3, <2>4, <2>5, <2>6, <2>7 DEF Gather, TypeOK, PullRec, feeder
<1>. QED
  BY <1>1, <1>2, <1>3, <1>4

LEMMA TypeOther ==
    ASSUME TypeInv, Crash \/ \E s \in Superhubs, f \in Feeders : Consume(s, f)
    PROVE  TypeInv'
<1>. USE DEF TypeInv
<1>1. ASSUME NEW s \in Superhubs, NEW f \in Feeders, Consume(s, f) PROVE TypeInv'
  <2>1. drop' \in [Superhubs -> [Feeders -> 0..MaxDump]]
    BY <1>1, Numbers, Update2 DEF Consume, TypeOK
  <2>. QED
    BY <1>1, <2>1 DEF Consume, TypeOK, PidsKnown, superhub, feeder
<1>2. CASE Crash
  <2>1. crashes' \in 0..MaxCrashes
    BY <1>2, BoundsAssumption DEF Crash, TypeOK
  <2>2. CASE UNCHANGED <<pull, job>>
    <3>1. dumper' \in [Feeders -> DumperRec] /\ pusher' \in [Feeders -> PusherRec]
      <4>1. [step |-> "idle", left |-> {}] \in DumperRec /\ [step |-> "idle", file |-> 0] \in PusherRec
        BY Numbers DEF DumperRec, PusherRec
      <4>. QED
        BY <1>2, <4>1, Shapes, DumperType, PusherType DEF Crash
    <3>. QED
      BY <1>2, <2>1, <2>2, <3>1 DEF Crash, TypeOK, DumperRec, PusherRec, PidsKnown
  <2>3. ASSUME NEW s \in Superhubs, UNCHANGED <<dumper, pusher>>,
               pull' = [pull EXCEPT ![s] = Ended],
               job' = [job EXCEPT ![s] = [f \in Feeders |-> NoJob]]
        PROVE  TypeInv'
    <3>1. Ended \in PullRec /\ Ended.step = "idle" /\ NoJob \in JobRec /\ NoJob.step \notin Chosen
      BY DEF Ended, PullRec, NoJob, JobRec, JobSteps, Places, Chosen
    <3>2. /\ pull' \in [Superhubs -> PullRec] /\ pull'[s] = Ended
          /\ \A t \in Superhubs \ {s} : pull'[t] = pull[t]
      BY <2>3, <3>1, PullType
    <3>3. /\ job' \in [Superhubs -> [Feeders -> JobRec]] /\ job'[s] = [f \in Feeders |-> NoJob]
          /\ \A t \in Superhubs \ {s} : job'[t] = job[t]
      BY <2>3, <3>1, Shapes
    <3>4. PidsKnown'
      <4>1. \A t \in Superhubs : pull'[t].step # "idle" => t # s /\ pull'[t] = pull[t]
        BY <3>1, <3>2
      <4>2. \A t \in Superhubs, f \in Feeders : job'[t][f].step \in Chosen => job'[t][f] = job[t][f]
        BY <3>1, <3>3
      <4>. QED
        BY <4>1, <4>2 DEF PidsKnown
    <3>. QED
      BY <1>2, <2>1, <2>3, <3>2, <3>3, <3>4 DEF Crash, TypeOK, PullRec, JobRec
  <2>. QED
    BY <1>2, <2>2, <2>3 DEF Crash
<1>. QED
  BY <1>1, <1>2

(* What a step of one job leaves alone.                                    *)
OneJob(s, f) ==
  /\ job' \in [Superhubs -> [Feeders -> JobRec]]
  /\ \A t \in Superhubs, g \in Feeders : t # s \/ g # f => job'[t][g] = job[t][g]
  /\ UNCHANGED <<taken, hasDir, dumper, pusher, pull, work, drop, delivered, crashes>>

LEMMA ChooseEffect ==
    ASSUME TypeInv, NEW s \in Superhubs, NEW f \in Feeders, JobChoose(s, f)
    PROVE  /\ OneJob(s, f) /\ UNCHANGED <<file, wip, got>>
           /\ job'[s][f].step = "test" /\ job'[s][f].pid \in JobPids
           /\ job'[s][f].bad = job[s][f].bad /\ At(s, f, "start")
<1>1. PICK p \in {s, Top}, n \in JobPids :
        job' = [job EXCEPT ![s][f].step = "test", ![s][f].place = p, ![s][f].pid = n]
  BY DEF JobChoose
<1>2. job[s][f] \in JobRec /\ job \in [Superhubs -> [Feeders -> JobRec]]
  BY Shapes DEF TypeInv
<1>. DEFINE r == [job[s][f] EXCEPT !.step = "test", !.place = p, !.pid = n]
<1>3. r \in JobRec /\ r.step = "test" /\ r.pid = n /\ r.bad = job[s][f].bad
  BY <1>2 DEF JobRec, JobSteps, Places
<1>4. job' = [job EXCEPT ![s][f] = r]
  BY <1>1, <1>2
<1>. HIDE DEF r
<1>5. /\ job' \in [Superhubs -> [Feeders -> JobRec]] /\ job'[s][f] = r
      /\ \A t \in Superhubs, g \in Feeders : t # s \/ g # f => job'[t][g] = job[t][g]
  BY <1>2, <1>3, <1>4, Update2
<1>. QED
  BY <1>1, <1>3, <1>5 DEF JobChoose, OneJob, feeder

LEMMA TypeJob ==
    ASSUME TypeInv, NEW s \in Superhubs, NEW f \in Feeders, OneJob(s, f),
           job'[s][f].step \in Chosen => job'[s][f].pid \in JobPids,
           file' \in [Feeders -> [Places -> 0..MaxDump]],
           wip' \in [Feeders -> [Places -> [JobPids -> NoDir..MaxDump]]],
           got' \in [Superhubs -> [Pids -> [Feeders -> 0..MaxDump]]],
           faults' \in 0..MaxFaults
    PROVE  TypeInv'
<1>1. PidsKnown'
  BY DEF TypeInv, OneJob, PidsKnown
<1>. QED
  BY <1>1 DEF TypeInv, OneJob, TypeOK, JobRec

-----------------------------------------------------------------------------
(* Who has a .transporting directory                                       *)

LEMMA OwnWipIs ==
  OwnWip <=> \A s, t \in Superhubs, f \in Feeders :
               /\ AtWork(s, f) /\ AtWork(t, f)
               /\ job[s][f].place = job[t][f].place /\ job[s][f].pid = job[t][f].pid
               => s = t
BY DEF OwnWip, AtWork

LEMMA AtWorkIs ==
    ASSUME NEW s \in Superhubs, NEW f \in Feeders
    PROVE  AtWork(s, f) <=> pull[s].step = "jobs" /\ job[s][f].step \in {"mv", "rsync", "rm"}
BY DEF AtWork, At

(* A step of one job leaves the directories of the others alone.           *)
LEMMA OthersWip ==
    ASSUME WipInv, NEW s \in Superhubs, NEW f \in Feeders, OneJob(s, f),
           \A g \in Feeders, p \in Places, n \in JobPids :
             g # f \/ p # job[s][f].place \/ n # job[s][f].pid => wip'[g][p][n] = wip[g][p][n],
           AtWork(s, f) \/ WipOf(s, f) = NoDir \/ wip' = wip,
           NEW t \in Superhubs, NEW g \in Feeders, t # s \/ g # f, AtWork(t, g)
    PROVE  WipOf(t, g)' = WipOf(t, g)
<1>1. job'[t][g] = job[t][g] /\ job[t][g].place \in Places /\ job[t][g].pid \in JobPids
  <2>1. job[t][g] \in JobRec /\ job[t][g].step \in Chosen
    BY Shapes, AtWorkIs DEF WipInv, TypeInv, Chosen
  <2>. QED
    BY <2>1 DEF WipInv, TypeInv, PidsKnown, OneJob, JobRec
<1>2. g # f \/ job[t][g].place # job[s][f].place \/ job[t][g].pid # job[s][f].pid \/ wip' = wip
  <2>. SUFFICES ASSUME g = f, job[t][g].place = job[s][f].place, job[t][g].pid = job[s][f].pid
                PROVE  wip' = wip
    OBVIOUS
  <2>1. t # s /\ AtWork(t, f) /\ job[t][f].place = job[s][f].place /\ job[t][f].pid = job[s][f].pid
    OBVIOUS
  <2>2. ~AtWork(s, f)
    BY <2>1, OwnWipIs, Zenon DEF WipInv
  <2>3. WipOf(t, f) # NoDir
    BY <2>1, Zenon DEF WipInv, HasWip
  <2>4. WipOf(s, f) # NoDir
    BY <2>1, <2>3, Zenon DEF WipOf
  <2>. QED
    BY <2>2, <2>4
<1>. QED
  BY <1>1, <1>2 DEF WipOf

(* The job itself enters a directory only where there was none.            *)
LEMMA OwnWipKept ==
    ASSUME WipInv, NEW s \in Superhubs, NEW f \in Feeders, OneJob(s, f),
           AtWork(s, f)' => /\ AtWork(s, f) \/ WipOf(s, f) = NoDir
                            /\ job'[s][f].place = job[s][f].place
                            /\ job'[s][f].pid = job[s][f].pid
    PROVE  OwnWip'
<1>. SUFFICES ASSUME NEW a \in Superhubs, NEW b \in Superhubs, NEW g \in Feeders,
                     AtWork(a, g)', AtWork(b, g)', a # b,
                     job'[a][g].place = job'[b][g].place, job'[a][g].pid = job'[b][g].pid
              PROVE  FALSE
  BY DEF OwnWip, AtWork
<1>1. \A r \in Superhubs : r # s \/ g # f => job'[r][g] = job[r][g] /\ (AtWork(r, g)' => AtWork(r, g))
  BY DEF OneJob, AtWork, At
<1>2. CASE g = f /\ a = s
  <2>1. b # s /\ AtWork(b, f) /\ job'[b][f] = job[b][f]
    BY <1>1, <1>2
  <2>2. /\ AtWork(s, f) \/ WipOf(s, f) = NoDir
        /\ job[b][f].place = job[s][f].place /\ job[b][f].pid = job[s][f].pid
    BY <1>2, <2>1
  <2>3. ~AtWork(s, f)
    BY <2>1, <2>2, OwnWipIs, Zenon DEF WipInv
  <2>4. WipOf(b, f) # NoDir
    BY <2>1, Zenon DEF WipInv, HasWip
  <2>5. WipOf(s, f) # NoDir
    BY <2>2, <2>4, Zenon DEF WipOf
  <2>. QED
    BY <2>2, <2>3, <2>5
<1>3. CASE g = f /\ b = s
  <2>1. a # s /\ AtWork(a, f) /\ job'[a][f] = job[a][f]
    BY <1>1, <1>3
  <2>2. /\ AtWork(s, f) \/ WipOf(s, f) = NoDir
        /\ job[a][f].place = job[s][f].place /\ job[a][f].pid = job[s][f].pid
    BY <1>3, <2>1
  <2>3. ~AtWork(s, f)
    BY <2>1, <2>2, OwnWipIs, Zenon DEF WipInv
  <2>4. WipOf(a, f) # NoDir
    BY <2>1, Zenon DEF WipInv, HasWip
  <2>5. WipOf(s, f) # NoDir
    BY <2>2, <2>4, Zenon DEF WipOf
  <2>. QED
    BY <2>2, <2>3, <2>5
<1>4. CASE g # f \/ (a # s /\ b # s)
  BY <1>1, <1>4, OwnWipIs DEF WipInv
<1>. QED
  BY <1>2, <1>3, <1>4

LEMMA HasWipKept ==
    ASSUME WipInv, NEW s \in Superhubs, NEW f \in Feeders, OneJob(s, f),
           \A g \in Feeders, p \in Places, n \in JobPids :
             g # f \/ p # job[s][f].place \/ n # job[s][f].pid => wip'[g][p][n] = wip[g][p][n],
           AtWork(s, f) \/ WipOf(s, f) = NoDir \/ wip' = wip,
           AtWork(s, f)' => WipOf(s, f)' # NoDir
    PROVE  HasWip'
<1>. SUFFICES ASSUME NEW t \in Superhubs, NEW g \in Feeders, AtWork(t, g)', t # s \/ g # f
              PROVE  WipOf(t, g)' # NoDir
  BY DEF HasWip
<1>1. AtWork(t, g)
  BY DEF OneJob, AtWork, At
<1>. QED
  BY <1>1, OthersWip DEF WipInv, HasWip

-----------------------------------------------------------------------------
(* What each step of a job does                                            *)

SameNames(s, f) ==
  /\ job[s][f].pid \in JobPids
  /\ job'[s][f].place = job[s][f].place /\ job'[s][f].pid = job[s][f].pid

(* The directory of the job gets v, and the others stay.                   *)
WipGets(s, f, v) ==
  /\ wip' \in [Feeders -> [Places -> [JobPids -> NoDir..MaxDump]]]
  /\ wip'[f][job[s][f].place][job[s][f].pid] = v
  /\ \A g \in Feeders, p \in Places, n \in JobPids :
       g # f \/ p # job[s][f].place \/ n # job[s][f].pid => wip'[g][p][n] = wip[g][p][n]

LEMMA JobKnown ==
    ASSUME TypeInv, NEW s \in Superhubs, NEW f \in Feeders, NEW x \in Chosen, At(s, f, x)
    PROVE  /\ pull[s].step = "jobs" /\ job[s][f].step = x
           /\ pull[s].pid \in Pids /\ job[s][f].pid \in JobPids /\ job[s][f].place \in Places
           /\ WipOf(s, f) \in NoDir..MaxDump
<1>1. pull[s].step = "jobs" /\ job[s][f].step = x
  BY DEF At
<1>2. pull[s].pid \in Pids /\ job[s][f].pid \in JobPids
  BY <1>1 DEF TypeInv, PidsKnown
<1>3. job[s][f] \in JobRec
  BY Shapes DEF TypeInv
<1>. QED
  BY <1>1, <1>2, <1>3, FieldsType DEF TypeInv, JobRec, WipOf

LEMMA TestEffect ==
    ASSUME TypeInv, NEW s \in Superhubs, NEW f \in Feeders, JobTest(s, f)
    PROVE  /\ OneJob(s, f) /\ SameNames(s, f) /\ UNCHANGED <<file, wip, got>>
           /\ At(s, f, "test") /\ job'[s][f].step \in {"mkdir", "ok"} /\ job'[s][f].bad = job[s][f].bad
<1>1. At(s, f, "test") /\ \E x \in {"mkdir", "ok"} : JobTo(s, f, x)
  BY DEF JobTest
<1>. QED
  BY <1>1, JobToType, JobKnown DEF JobTest, OneJob, SameNames, feeder, TypeInv, JobSteps, Chosen

LEMMA MkdirEffect ==
    ASSUME TypeInv, NEW s \in Superhubs, NEW f \in Feeders, JobMkdir(s, f)
    PROVE  /\ OneJob(s, f) /\ SameNames(s, f) /\ UNCHANGED <<file, got>> /\ At(s, f, "mkdir")
           /\ job'[s][f].bad = job[s][f].bad
           /\ \/ job'[s][f].step = "mv" /\ WipOf(s, f) = NoDir /\ WipGets(s, f, 0)
              \/ job'[s][f].step = "failed" /\ UNCHANGED wip
<1>0. At(s, f, "mkdir") /\ UNCHANGED <<feeder, pusher, pull, work, got, drop, delivered, crashes>>
  BY DEF JobMkdir
<1>1. CASE WipOf(s, f) = NoDir /\ SetWip(s, f, 0) /\ JobTo(s, f, "mv")
  <2>1. WipGets(s, f, 0)
    BY <1>0, <1>1, SetWipType, JobKnown, Numbers DEF WipGets, TypeInv, Chosen
  <2>. QED
    BY <1>0, <1>1, <2>1, JobToType, JobKnown DEF OneJob, SameNames, feeder, TypeInv, JobSteps, Chosen
<1>2. CASE UNCHANGED wip /\ JobTo(s, f, "failed")
  BY <1>0, <1>2, JobToType, JobKnown DEF OneJob, SameNames, feeder, TypeInv, JobSteps, Chosen
<1>. QED
  BY <1>1, <1>2 DEF JobMkdir, MayMkdir

LEMMA MoveEffect ==
    ASSUME TypeInv, NEW s \in Superhubs, NEW f \in Feeders, JobMove(s, f)
    PROVE  /\ OneJob(s, f) /\ SameNames(s, f) /\ UNCHANGED got /\ At(s, f, "mv")
           /\ faults' \in 0..MaxFaults /\ job'[s][f].bad = job[s][f].bad
           /\ \/ /\ job'[s][f].step = "rsync"
                 /\ file[f][job[s][f].place] \in 0..MaxDump
                 /\ WipGets(s, f, file[f][job[s][f].place])
                 /\ file' = [file EXCEPT ![f][job[s][f].place] = 0]
              \/ job'[s][f].step = "failed" /\ UNCHANGED <<wip, file>>
<1>. DEFINE p == job[s][f].place
<1>0. /\ At(s, f, "mv") /\ UNCHANGED <<taken, hasDir, dumper, pusher, pull, work, got, drop, delivered, crashes>>
      /\ faults' \in 0..MaxFaults
  BY FaultType DEF JobMove, TypeInv
<1>1. CASE SetWip(s, f, file[f][p]) /\ file' = [file EXCEPT ![f][p] = 0] /\ JobTo(s, f, "rsync")
  <2>1. file[f][p] \in 0..MaxDump
    BY <1>0, JobKnown, FieldsType DEF TypeInv, Chosen
  <2>2. WipGets(s, f, file[f][p])
    <3>1. /\ TypeOK /\ job[s][f].pid \in JobPids /\ file[f][p] \in NoDir..MaxDump
          /\ SetWip(s, f, file[f][p])
      BY <1>0, <1>1, <2>1, JobKnown, Numbers DEF TypeInv, Chosen
    <3>. HIDE DEF p
    <3>. QED
      BY <3>1, SetWipType, Zenon DEF WipGets
  <2>. QED
    BY <1>0, <1>1, <2>1, <2>2, JobToType, JobKnown DEF OneJob, SameNames, TypeInv, JobSteps, Chosen
<1>2. CASE UNCHANGED <<wip, file>> /\ JobTo(s, f, "failed")
  BY <1>0, <1>2, JobToType, JobKnown DEF OneJob, SameNames, TypeInv, JobSteps, Chosen
<1>. QED
  BY <1>1, <1>2 DEF JobMove

LEMMA FetchEffect ==
    ASSUME TypeInv, NEW s \in Superhubs, NEW f \in Feeders, JobFetch(s, f)
    PROVE  /\ OneJob(s, f) /\ SameNames(s, f) /\ UNCHANGED <<file, wip>> /\ At(s, f, "rsync")
           /\ job'[s][f].step = "rm" /\ faults' \in 0..MaxFaults
           /\ \/ /\ NoFault /\ got' = [got EXCEPT ![s][pull[s].pid][f] = WipOf(s, f)]
                 /\ job'[s][f].bad = job[s][f].bad
              \/ Fault /\ UNCHANGED got
<1>0. /\ At(s, f, "rsync") /\ UNCHANGED <<feeder, wip, pusher, pull, work, drop, delivered, crashes>>
      /\ faults' \in 0..MaxFaults
  BY FaultType DEF JobFetch, TypeInv
<1>1. CASE /\ NoFault /\ got' = [got EXCEPT ![s][pull[s].pid][f] = WipOf(s, f)] /\ JobTo(s, f, "rm")
  BY <1>0, <1>1, JobToType, JobKnown DEF OneJob, SameNames, feeder, TypeInv, JobSteps, Chosen
<1>2. CASE /\ Fault /\ UNCHANGED got
           /\ job' = [job EXCEPT ![s][f].step = "rm", ![s][f].bad = TRUE]
  <2>1. job[s][f] \in JobRec /\ job \in [Superhubs -> [Feeders -> JobRec]]
    BY Shapes DEF TypeInv
  <2>. DEFINE r == [job[s][f] EXCEPT !.step = "rm", !.bad = TRUE]
  <2>2. r \in JobRec /\ r.step = "rm" /\ r.pid = job[s][f].pid /\ r.place = job[s][f].place
    BY <2>1 DEF JobRec, JobSteps
  <2>3. job' = [job EXCEPT ![s][f] = r]
    BY <1>2, <2>1
  <2>. HIDE DEF r
  <2>4. /\ job' \in [Superhubs -> [Feeders -> JobRec]] /\ job'[s][f] = r
        /\ \A t \in Superhubs, g \in Feeders : t # s \/ g # f => job'[t][g] = job[t][g]
    BY <2>1, <2>2, <2>3, Update2
  <2>. QED
    BY <1>0, <1>2, <2>2, <2>4, JobKnown DEF OneJob, SameNames, feeder, Chosen
<1>. QED
  BY <1>0, <1>1, <1>2 DEF JobFetch

LEMMA RemoveEffect ==
    ASSUME TypeInv, NEW s \in Superhubs, NEW f \in Feeders, JobRemove(s, f)
    PROVE  /\ OneJob(s, f) /\ SameNames(s, f) /\ UNCHANGED file /\ At(s, f, "rm")
           /\ job'[s][f].step \in {"ok", "failed"} /\ faults' \in 0..MaxFaults
           /\ job'[s][f].bad = job[s][f].bad
           /\ \/ WipGets(s, f, NoDir) /\ NoFault
              \/ UNCHANGED wip
           /\ \/ UNCHANGED got
              \/ job[s][f].bad /\ got' = [got EXCEPT ![s][pull[s].pid][f] = 0]
<1>0. /\ At(s, f, "rm") /\ UNCHANGED <<feeder, pusher, pull, work, drop, delivered, crashes>>
      /\ faults' \in 0..MaxFaults
  BY FaultType DEF JobRemove, TypeInv
<1>1. \E x \in {"ok", "failed"} : JobTo(s, f, x)
  BY DEF JobRemove
<1>2. OneJob(s, f) /\ SameNames(s, f) /\ UNCHANGED file /\ job'[s][f].step \in {"ok", "failed"}
      /\ job'[s][f].bad = job[s][f].bad
  BY <1>0, <1>1, JobToType, JobKnown DEF OneJob, SameNames, feeder, TypeInv, JobSteps, Chosen
<1>3. (WipGets(s, f, NoDir) /\ NoFault) \/ UNCHANGED wip
  <2>1. CASE NoFault /\ SetWip(s, f, NoDir)
    BY <1>0, <2>1, SetWipType, JobKnown, Numbers DEF WipGets, TypeInv, Chosen
  <2>. QED
    BY <2>1 DEF JobRemove, AfterRemove
<1>4. UNCHANGED got \/ (job[s][f].bad /\ got' = [got EXCEPT ![s][pull[s].pid][f] = 0])
  BY DEF JobRemove
<1>. QED
  BY <1>0, <1>2, <1>3, <1>4

-----------------------------------------------------------------------------
(* Types and directories through every step                                *)

JobStep(s, f) ==
  \/ JobChoose(s, f) \/ JobTest(s, f) \/ JobMkdir(s, f)
  \/ JobMove(s, f) \/ JobFetch(s, f) \/ JobRemove(s, f)

(* Got files are dumps: a job that fetches has a directory.                *)
LEMMA FetchType ==
    ASSUME WipInv, NEW s \in Superhubs, NEW f \in Feeders, JobFetch(s, f)
    PROVE  /\ WipOf(s, f) \in 0..MaxDump /\ pull[s].pid \in Pids
           /\ got' \in [Superhubs -> [Pids -> [Feeders -> 0..MaxDump]]]
<1>1. AtWork(s, f) /\ At(s, f, "rsync")
  BY FetchEffect DEF WipInv, AtWork
<1>2. WipOf(s, f) \in NoDir..MaxDump /\ pull[s].pid \in Pids /\ WipOf(s, f) # NoDir
  BY <1>1, JobKnown DEF WipInv, HasWip, Chosen
<1>3. WipOf(s, f) \in 0..MaxDump
  BY <1>2, Numbers DEF NoDir
<1>4. TypeInv /\ TypeOK /\ got \in [Superhubs -> [Pids -> [Feeders -> 0..MaxDump]]]
  BY DEF WipInv, TypeInv, TypeOK
<1>5. CASE got' = [got EXCEPT ![s][pull[s].pid][f] = WipOf(s, f)]
  BY <1>2, <1>3, <1>4, <1>5, GotType
<1>6. CASE UNCHANGED got
  BY <1>2, <1>3, <1>4, <1>6
<1>. QED
  BY <1>4, <1>5, <1>6, FetchEffect

LEMMA TypeJobs ==
    ASSUME WipInv, NEW s \in Superhubs, NEW f \in Feeders, JobStep(s, f) PROVE TypeInv'
<1>0. /\ TypeInv /\ TypeOK
      /\ file \in [Feeders -> [Places -> 0..MaxDump]]
      /\ wip \in [Feeders -> [Places -> [JobPids -> NoDir..MaxDump]]]
      /\ got \in [Superhubs -> [Pids -> [Feeders -> 0..MaxDump]]]
  BY DEF WipInv, TypeInv, TypeOK
<1>1. CASE JobChoose(s, f)
  <2>1. faults' \in 0..MaxFaults
    BY <1>0, <1>1, FaultType DEF JobChoose
  <2>. QED
    BY <1>0, <1>1, <2>1, ChooseEffect, TypeJob
<1>2. CASE JobTest(s, f)
  <2>1. faults' \in 0..MaxFaults
    BY <1>0, <1>2, FaultType DEF JobTest
  <2>. QED
    BY <1>0, <1>2, <2>1, TestEffect, TypeJob DEF SameNames
<1>3. CASE JobMkdir(s, f)
  <2>1. faults' \in 0..MaxFaults
    BY <1>0, <1>3, FaultType DEF JobMkdir
  <2>2. wip' \in [Feeders -> [Places -> [JobPids -> NoDir..MaxDump]]]
    BY <1>0, <1>3, MkdirEffect DEF WipGets
  <2>3. OneJob(s, f) /\ SameNames(s, f) /\ UNCHANGED <<file, got>>
    BY <1>0, <1>3, MkdirEffect
  <2>. QED
    BY <1>0, <2>1, <2>2, <2>3, TypeJob DEF SameNames
<1>4. CASE JobMove(s, f)
  <2>1. wip' \in [Feeders -> [Places -> [JobPids -> NoDir..MaxDump]]]
    BY <1>0, <1>4, MoveEffect DEF WipGets
  <2>2. OneJob(s, f) /\ SameNames(s, f) /\ UNCHANGED got /\ At(s, f, "mv") /\ faults' \in 0..MaxFaults
    BY <1>0, <1>4, MoveEffect
  <2>3. job[s][f].place \in Places
    BY <1>0, <2>2, JobKnown DEF Chosen
  <2>4. file' \in [Feeders -> [Places -> 0..MaxDump]]
    <3>1. CASE file' = [file EXCEPT ![f][job[s][f].place] = 0]
      BY <1>0, <2>3, <3>1, Numbers, FileType
    <3>. QED
      BY <1>0, <1>4, <3>1, MoveEffect
  <2>. QED
    BY <1>0, <2>1, <2>2, <2>4, TypeJob DEF SameNames
<1>5. CASE JobFetch(s, f)
  <2>1. OneJob(s, f) /\ SameNames(s, f) /\ UNCHANGED <<file, wip>> /\ faults' \in 0..MaxFaults
    BY <1>0, <1>5, FetchEffect
  <2>. QED
    BY <1>0, <1>5, <2>1, FetchType, TypeJob DEF SameNames
<1>6. CASE JobRemove(s, f)
  <2>1. /\ OneJob(s, f) /\ SameNames(s, f) /\ UNCHANGED file /\ At(s, f, "rm")
        /\ faults' \in 0..MaxFaults
    BY <1>0, <1>6, RemoveEffect
  <2>2. wip' \in [Feeders -> [Places -> [JobPids -> NoDir..MaxDump]]]
    BY <1>0, <1>6, RemoveEffect DEF WipGets
  <2>3. got' \in [Superhubs -> [Pids -> [Feeders -> 0..MaxDump]]]
    <3>1. pull[s].pid \in Pids
      BY <1>0, <2>1, JobKnown DEF Chosen
    <3>2. CASE got' = [got EXCEPT ![s][pull[s].pid][f] = 0]
      BY <1>0, <3>1, <3>2, Numbers, GotType
    <3>. QED
      BY <1>0, <1>6, <3>2, RemoveEffect
  <2>. QED
    BY <1>0, <2>1, <2>2, <2>3, TypeJob DEF SameNames
<1>. QED
  BY <1>1, <1>2, <1>3, <1>4, <1>5, <1>6 DEF JobStep

LEMMA WipJobs ==
    ASSUME WipInv, NEW s \in Superhubs, NEW f \in Feeders, JobStep(s, f) PROVE WipInv'
<1>0. TypeInv
  BY DEF WipInv
<1>1. CASE JobChoose(s, f)
  <2>1. ~AtWork(s, f)' /\ OneJob(s, f) /\ UNCHANGED wip
    BY <1>0, <1>1, ChooseEffect DEF AtWork, At
  <2>. QED
    BY <2>1, TypeJobs, OwnWipKept, HasWipKept DEF WipInv, JobStep
<1>2. CASE JobTest(s, f)
  <2>1. ~AtWork(s, f)' /\ OneJob(s, f) /\ UNCHANGED wip
    BY <1>0, <1>2, TestEffect DEF AtWork, At
  <2>. QED
    BY <1>2, <2>1, TypeJobs, OwnWipKept, HasWipKept DEF WipInv, JobStep
<1>3. CASE JobMkdir(s, f)
  <2>1. CASE WipOf(s, f) = NoDir /\ WipGets(s, f, 0)
    <3>1. WipOf(s, f)' = 0
      BY <1>0, <1>3, <2>1, MkdirEffect DEF WipGets, WipOf, SameNames
    <3>2. HasWip'
      BY <1>0, <1>3, <2>1, <3>1, MkdirEffect, HasWipKept DEF WipGets, NoDir
    <3>3. OwnWip'
      BY <1>0, <1>3, <2>1, MkdirEffect, OwnWipKept DEF SameNames
    <3>. QED
      BY <1>3, <3>2, <3>3, TypeJobs DEF WipInv, JobStep
  <2>2. CASE UNCHANGED wip /\ job'[s][f].step = "failed"
    <3>1. ~AtWork(s, f)' /\ OneJob(s, f)
      BY <1>0, <1>3, <2>2, MkdirEffect DEF AtWork, At
    <3>. QED
      BY <1>3, <2>2, <3>1, TypeJobs, OwnWipKept, HasWipKept DEF WipInv, JobStep
  <2>. QED
    BY <1>0, <1>3, <2>1, <2>2, MkdirEffect
<1>4. CASE JobMove(s, f)
  <2>0. AtWork(s, f) /\ OneJob(s, f) /\ SameNames(s, f)
    BY <1>0, <1>4, MoveEffect DEF AtWork
  <2>1. OwnWip'
    BY <2>0, OwnWipKept DEF SameNames
  <2>2. CASE WipGets(s, f, file[f][job[s][f].place]) /\ file[f][job[s][f].place] \in 0..MaxDump
    <3>1. WipOf(s, f)' # NoDir
      BY <2>0, <2>2, Numbers DEF WipGets, WipOf, SameNames
    <3>2. HasWip'
      BY <2>0, <2>2, <3>1, HasWipKept DEF WipGets
    <3>. QED
      BY <1>4, <2>1, <3>2, TypeJobs DEF WipInv, JobStep
  <2>3. CASE UNCHANGED wip /\ job'[s][f].step = "failed"
    <3>1. ~AtWork(s, f)'
      BY <2>3 DEF AtWork, At
    <3>. QED
      BY <1>4, <2>0, <2>1, <2>3, <3>1, TypeJobs, HasWipKept DEF WipInv, JobStep
  <2>. QED
    BY <1>0, <1>4, <2>2, <2>3, MoveEffect
<1>5. CASE JobFetch(s, f)
  <2>1. AtWork(s, f) /\ OneJob(s, f) /\ SameNames(s, f) /\ UNCHANGED wip
    BY <1>0, <1>5, FetchEffect DEF AtWork
  <2>2. WipOf(s, f)' # NoDir
    BY <2>1 DEF WipInv, HasWip, WipOf, SameNames
  <2>. QED
    BY <1>5, <2>1, <2>2, TypeJobs, OwnWipKept, HasWipKept DEF WipInv, JobStep, SameNames
<1>6. CASE JobRemove(s, f)
  <2>1. AtWork(s, f) /\ ~AtWork(s, f)' /\ OneJob(s, f)
    BY <1>0, <1>6, RemoveEffect DEF AtWork, At
  <2>2. \A g \in Feeders, p \in Places, n \in JobPids :
          g # f \/ p # job[s][f].place \/ n # job[s][f].pid => wip'[g][p][n] = wip[g][p][n]
    BY <1>0, <1>6, RemoveEffect DEF WipGets
  <2>. QED
    BY <1>6, <2>1, <2>2, TypeJobs, OwnWipKept, HasWipKept DEF WipInv, JobStep
<1>. QED
  BY <1>1, <1>2, <1>3, <1>4, <1>5, <1>6 DEF JobStep

(* No other step touches a .transporting directory or brings a job there.  *)
LEMMA WipSame ==
    ASSUME WipInv, TypeInv', UNCHANGED wip,
           \A s \in Superhubs, f \in Feeders :
             AtWork(s, f)' => AtWork(s, f) /\ job'[s][f] = job[s][f]
    PROVE  WipInv'
<1>1. HasWip'
  BY DEF WipInv, HasWip, WipOf
<1>2. OwnWip'
  <2>. SUFFICES ASSUME NEW a \in Superhubs, NEW b \in Superhubs, NEW g \in Feeders,
                       AtWork(a, g)', AtWork(b, g)',
                       job'[a][g].place = job'[b][g].place, job'[a][g].pid = job'[b][g].pid
                PROVE  a = b
    BY DEF OwnWip, AtWork
  <2>. QED
    BY OwnWipIs DEF WipInv
<1>. QED
  BY <1>1, <1>2 DEF WipInv

LEMMA WipNext == ASSUME WipInv, [Next]_vars PROVE WipInv'
<1>0. TypeInv /\ TypeOK
  BY DEF WipInv, TypeInv
<1>1. ASSUME NEW f \in Feeders, FeederStep(f) PROVE WipInv'
  <2>1. UNCHANGED <<wip, pull, job>>
    BY <1>1 DEF FeederStep, Dump, DumpDone, PushMove, PushSend, PushRemove, Link, superhub
  <2>. QED
    BY <1>0, <1>1, <2>1, TypeFeeder, WipSame DEF AtWork, At
<1>2. ASSUME NEW s \in Superhubs,
             \/ JobsDone(s) \/ PullDone(s) \/ \E n \in Pids : PullStart(s, n)
             \/ \E f \in Feeders : Gather(s, f)
      PROVE  WipInv'
  <2>0. TypeInv' /\ UNCHANGED wip
    BY <1>0, <1>2, TypePull DEF JobsDone, PullDone, PullStart, Gather
  <2>1. CASE \E n \in Pids : PullStart(s, n)
    <3>1. \A f \in Feeders : job'[s][f].step \in {"start", "none"}
      BY <1>0, <2>1 DEF PullStart, TypeOK, NoJob
    <3>2. \A t \in Superhubs \ {s} : job'[t] = job[t] /\ pull'[t] = pull[t]
      BY <1>0, <2>1, Shapes DEF PullStart
    <3>. QED
      BY <2>0, <3>1, <3>2, WipSame DEF AtWork, At
  <2>2. CASE JobsDone(s) \/ PullDone(s) \/ \E f \in Feeders : Gather(s, f)
    <3>1. UNCHANGED job
      BY <2>2 DEF JobsDone, PullDone, Gather
    <3>2. pull'[s].step # "jobs" /\ \A t \in Superhubs \ {s} : pull'[t] = pull[t]
      <4>1. pull[s] \in PullRec /\ pull \in [Superhubs -> PullRec]
        BY <1>0, Shapes
      <4>2. \E r : pull' = [pull EXCEPT ![s] = r] /\ r.step # "jobs"
        BY <2>2, <4>1 DEF JobsDone, PullDone, Gather, Ended, PullRec
      <4>. QED
        BY <4>1, <4>2
    <3>. QED
      BY <2>0, <3>1, <3>2, WipSame DEF AtWork, At
  <2>. QED
    BY <1>2, <2>1, <2>2
<1>3. ASSUME Crash \/ \E s \in Superhubs, f \in Feeders : Consume(s, f) PROVE WipInv'
  <2>1. CASE \E s \in Superhubs, f \in Feeders : Consume(s, f)
    BY <1>0, <2>1, TypeOther, WipSame DEF Consume, superhub, AtWork, At
  <2>2. CASE Crash
    <3>1. UNCHANGED wip /\ TypeInv'
      BY <1>0, <2>2, TypeOther DEF Crash
    <3>2. CASE UNCHANGED <<pull, job>>
      BY <3>1, <3>2, WipSame DEF AtWork, At
    <3>3. ASSUME NEW s \in Superhubs, pull' = [pull EXCEPT ![s] = Ended],
                 job' = [job EXCEPT ![s] = [f \in Feeders |-> NoJob]]
          PROVE  WipInv'
      <4>1. pull'[s].step # "jobs" /\ \A t \in Superhubs \ {s} : pull'[t] = pull[t] /\ job'[t] = job[t]
        BY <1>0, <3>3, Shapes DEF Ended
      <4>. QED
        BY <3>1, <4>1, WipSame DEF AtWork, At
    <3>. QED
      BY <2>2, <3>2, <3>3 DEF Crash
  <2>. QED
    BY <1>3, <2>1, <2>2
<1>4. CASE UNCHANGED vars
  BY <1>0, <1>4, WipSame DEF vars, feeder, superhub, TypeInv, TypeOK, PidsKnown, AtWork, At
<1>. QED
  BY <1>1, <1>2, <1>3, <1>4, WipJobs DEF Next, PullStep, JobStep

LEMMA WipInit == ASSUME Init PROVE WipInv
<1>1. \A s \in Superhubs, f \in Feeders : ~AtWork(s, f)
  BY DEF Init, AtWork, At
<1>2. HasWip
  BY <1>1 DEF HasWip
<1>3. OwnWip
  BY <1>1, OwnWipIs
<1>. QED
  BY <1>2, <1>3, TypeInit DEF WipInv

(* Every variable of feeders and superhubs keeps its type (dump.sh,        *)
(* transport.sh and pull_dumps_from.sh).                                   *)
THEOREM TypeCorrect == Spec => []TypeOK
<1>1. Init => WipInv
  BY WipInit
<1>2. WipInv /\ [Next]_vars => WipInv'
  BY WipNext
<1>3. WipInv => TypeOK
  BY DEF WipInv, TypeInv
<1>. QED
  BY <1>1, <1>2, <1>3, PTL DEF Spec

(* Two jobs never work in one .transporting directory, for any superhubs   *)
(* and pids (pull_dumps_from.sh:48-56).                                    *)
THEOREM OwnDirectory == Spec => []OwnWip
<1>1. Init => WipInv
  BY WipInit
<1>2. WipInv /\ [Next]_vars => WipInv'
  BY WipNext
<1>3. WipInv => OwnWip
  BY DEF WipInv
<1>. QED
  BY <1>1, <1>2, <1>3, PTL DEF Spec

-----------------------------------------------------------------------------
(* The work directory of a pull                                            *)

Before == {"none", "start", "test", "mkdir", "mv", "rsync"}

(* A directory that is not there is empty, that of a pull is there, it has *)
(* no dump whose job has not come to fetch it, and none is left behind by  *)
(* the hand over.                                                          *)
WorkDirs ==
  /\ \A s \in Superhubs, n \in Pids, f \in Feeders : ~work[s][n] => got[s][n][f] = 0
  /\ \A s \in Superhubs : pull[s].step # "idle" => work[s][pull[s].pid]
  /\ \A s \in Superhubs : pull[s].step = "jobs" => pull[s].left = Pulled
  /\ \A s \in Superhubs, f \in Feeders :
       pull[s].step = "jobs" =>
         /\ f \notin Pulled => job[s][f].step = "none"
         /\ job[s][f].step \in Before => got[s][pull[s].pid][f] = 0
  /\ \A s \in Superhubs, f \in Feeders :
       pull[s].step = "gather" /\ f \notin pull[s].left => got[s][pull[s].pid][f] = 0

LEMMA WorkInit == ASSUME Init PROVE WorkDirs
BY DEF Init, WorkDirs

(* Steps that end a pull or do not touch it.                               *)
LEMMA WorkSame ==
    ASSUME WorkDirs, UNCHANGED <<work, got>>, NEW S, S \subseteq Superhubs,
           \A s \in S : pull'[s] = pull[s] /\ job'[s] = job[s],
           \A s \in Superhubs \ S : pull'[s].step = "idle"
    PROVE  WorkDirs'
BY DEF WorkDirs

LEMMA WorkPull ==
    ASSUME TypeInv, WorkDirs, NEW s \in Superhubs,
           \/ JobsDone(s) \/ PullDone(s) \/ \E n \in Pids : PullStart(s, n)
           \/ \E f \in Feeders : Gather(s, f)
    PROVE  WorkDirs'
<1>0. TypeOK /\ pull[s] \in PullRec /\ pull \in [Superhubs -> PullRec]
  BY Shapes DEF TypeInv
<1>1. ASSUME NEW n \in Pids, PullStart(s, n) PROVE WorkDirs'
  <2>1. /\ pull'[s].step = "jobs" /\ pull'[s].pid = n /\ pull'[s].left = Pulled
        /\ \A t \in Superhubs \ {s} : pull'[t] = pull[t]
    BY <1>0, <1>1 DEF PullStart
  <2>2. /\ \A f \in Feeders : f \notin Pulled => job'[s][f].step = "none"
        /\ \A t \in Superhubs \ {s} : job'[t] = job[t]
    BY <1>0, <1>1, Shapes DEF PullStart, NoJob
  <2>3. /\ work'[s][n] /\ \A t \in Superhubs, m \in Pids : work[t][m] => work'[t][m]
        /\ ~work[s][n]
    BY <1>0, <1>1 DEF PullStart, MayStart, TypeOK
  <2>4. UNCHANGED got
    BY <1>1 DEF PullStart
  <2>5. \A t \in Superhubs : pull[t].step # "idle" => pull[t].pid \in Pids
    BY DEF TypeInv, PidsKnown
  <2>. QED
    BY <2>1, <2>2, <2>3, <2>4, <2>5 DEF WorkDirs
<1>2. CASE JobsDone(s)
  <2>1. /\ pull'[s].step = "gather" /\ pull'[s].pid = pull[s].pid /\ pull'[s].left = pull[s].left
        /\ \A t \in Superhubs \ {s} : pull'[t] = pull[t]
    BY <1>0, <1>2 DEF JobsDone, PullRec
  <2>2. pull[s].step = "jobs" /\ UNCHANGED <<work, got, job>>
    BY <1>2 DEF JobsDone
  <2>. QED
    BY <2>1, <2>2 DEF WorkDirs, Before
<1>3. CASE PullDone(s)
  <2>1. pull'[s].step = "idle" /\ \A t \in Superhubs \ {s} : pull'[t] = pull[t]
    BY <1>0, <1>3 DEF PullDone, Ended
  <2>2. pull[s].step = "gather" /\ pull[s].left = {} /\ UNCHANGED <<got, job>>
    BY <1>3 DEF PullDone
  <2>3. pull[s].pid \in Pids
    BY <2>2 DEF TypeInv, PidsKnown
  <2>4. \A t \in Superhubs, n \in Pids :
          t # s \/ n # pull[s].pid => (work'[t][n] <=> work[t][n])
    BY <1>0, <1>3, <2>3 DEF PullDone, TypeOK
  <2>5. \A t \in Superhubs : pull[t].step # "idle" => pull[t].pid \in Pids
    BY DEF TypeInv, PidsKnown
  <2>6. \A f \in Feeders : got[s][pull[s].pid][f] = 0
    BY <2>2 DEF WorkDirs
  <2>7. \A t \in Superhubs, n \in Pids, f \in Feeders : ~work'[t][n] => got'[t][n][f] = 0
    BY <2>2, <2>4, <2>6 DEF WorkDirs
  <2>8. \A t \in Superhubs : pull'[t].step # "idle" => work'[t][pull'[t].pid]
    BY <2>1, <2>4, <2>5 DEF WorkDirs
  <2>. QED
    BY <2>1, <2>2, <2>7, <2>8 DEF WorkDirs
<1>4. ASSUME NEW f \in Feeders, Gather(s, f) PROVE WorkDirs'
  <2>1. pull[s].step = "gather" /\ pull[s].pid \in Pids /\ UNCHANGED <<work, job>>
    BY <1>4 DEF Gather, TypeInv, PidsKnown
  <2>2. CASE pull' = [pull EXCEPT ![s] = Ended] /\ UNCHANGED got
    <3>1. pull'[s].step = "idle" /\ \A t \in Superhubs \ {s} : pull'[t] = pull[t]
      BY <1>0, <2>2 DEF Ended
    <3>. QED
      BY <2>1, <2>2, <3>1, WorkSame
  <2>3. CASE /\ pull' = [pull EXCEPT ![s].left = @ \ {f}]
             /\ \/ got' = [got EXCEPT ![s][pull[s].pid][f] = 0]
                \/ got[s][pull[s].pid][f] = 0 /\ UNCHANGED got
    <3>1. /\ pull'[s].step = "gather" /\ pull'[s].pid = pull[s].pid /\ pull'[s].left = pull[s].left \ {f}
          /\ \A t \in Superhubs \ {s} : pull'[t] = pull[t]
      BY <1>0, <2>1, <2>3 DEF PullRec
    <3>2. /\ got'[s][pull[s].pid][f] = 0
          /\ \A t \in Superhubs, n \in Pids, g \in Feeders :
               t # s \/ n # pull[s].pid \/ g # f => got'[t][n][g] = got[t][n][g]
      <4>1. TypeOK /\ pull[s].pid \in Pids
        BY <1>0, <2>1
      <4>. QED
        BY <2>3, <4>1, GotCleared
    <3>3. \A t \in Superhubs : pull[t].step # "idle" => pull[t].pid \in Pids
      BY DEF TypeInv, PidsKnown
    <3>4. /\ \A t \in Superhubs, n \in Pids, g \in Feeders : ~work'[t][n] => got'[t][n][g] = 0
          /\ \A t \in Superhubs : pull'[t].step # "idle" => work'[t][pull'[t].pid]
      BY <2>1, <3>1, <3>2 DEF WorkDirs
    <3>5. \A t \in Superhubs : pull'[t].step = "jobs" =>
             /\ t # s /\ pull'[t] = pull[t] /\ pull[t].pid \in Pids
             /\ job'[t] = job[t] /\ \A g \in Feeders : got'[t][pull[t].pid][g] = got[t][pull[t].pid][g]
      BY <2>1, <3>1, <3>2, <3>3
    <3>6. \A t \in Superhubs, g \in Feeders :
             pull'[t].step = "gather" /\ g \notin pull'[t].left => got'[t][pull'[t].pid][g] = 0
      <4>. SUFFICES ASSUME NEW t \in Superhubs, NEW g \in Feeders,
                           pull'[t].step = "gather", g \notin pull'[t].left
                    PROVE  got'[t][pull'[t].pid][g] = 0
        OBVIOUS
      <4>1. CASE t = s
        BY <2>1, <3>1, <3>2, <4>1 DEF WorkDirs
      <4>2. CASE t # s
        BY <3>1, <3>2, <3>3, <4>2 DEF WorkDirs
      <4>. QED
        BY <4>1, <4>2
    <3>. QED
      BY <3>4, <3>5, <3>6 DEF WorkDirs
  <2>. QED
    BY <1>4, <2>2, <2>3 DEF Gather
<1>. QED
  BY <1>1, <1>2, <1>3, <1>4

(* A job that had not fetched and now still has not leaves nothing there.  *)
LEMMA WorkJobs ==
    ASSUME WipInv, WorkDirs, NEW s \in Superhubs, NEW f \in Feeders, JobStep(s, f)
    PROVE  WorkDirs'
<1>0. TypeInv /\ TypeOK
  BY DEF WipInv, TypeInv
<1>1. /\ OneJob(s, f) /\ \E x \in Chosen \cup {"start"} : At(s, f, x)
      /\ job'[s][f].step \in Before =>
           UNCHANGED got /\ job[s][f].step \in Before \ {"none"}
      /\ job'[s][f].step # "none"
  <2>1. CASE JobChoose(s, f)
    BY <1>0, <2>1, ChooseEffect DEF Before, At
  <2>2. CASE JobTest(s, f)
    BY <1>0, <2>2, TestEffect DEF Before, Chosen, At
  <2>3. CASE JobMkdir(s, f)
    BY <1>0, <2>3, MkdirEffect DEF Before, Chosen, At
  <2>4. CASE JobMove(s, f)
    BY <1>0, <2>4, MoveEffect DEF Before, Chosen, At
  <2>5. CASE JobFetch(s, f)
    BY <1>0, <2>5, FetchEffect DEF Before, Chosen, At
  <2>6. CASE JobRemove(s, f)
    BY <1>0, <2>6, RemoveEffect DEF Before, Chosen, At
  <2>. QED
    BY <2>1, <2>2, <2>3, <2>4, <2>5, <2>6 DEF JobStep
<1>2. pull[s].step = "jobs" /\ pull[s].pid \in Pids /\ job[s][f].step # "none"
  BY <1>0, <1>1 DEF At, Chosen, TypeInv, PidsKnown
<1>3. \A t \in Superhubs, n \in Pids, g \in Feeders :
        t # s \/ n # pull[s].pid \/ g # f => got'[t][n][g] = got[t][n][g]
  <2>1. CASE JobFetch(s, f)
    <3>1. CASE got' = [got EXCEPT ![s][pull[s].pid][f] = WipOf(s, f)]
      BY <1>0, <1>2, <2>1, <3>1, FetchType, GotType
    <3>. QED
      BY <1>0, <2>1, <3>1, FetchEffect
  <2>2. CASE JobRemove(s, f)
    <3>1. CASE got' = [got EXCEPT ![s][pull[s].pid][f] = 0]
      BY <1>0, <1>2, <3>1, Numbers, GotType
    <3>. QED
      BY <1>0, <2>2, <3>1, RemoveEffect
  <2>. QED
    BY <1>0, <2>1, <2>2, ChooseEffect, TestEffect, MkdirEffect, MoveEffect DEF JobStep
<1>4. UNCHANGED <<pull, work>>
  BY <1>1 DEF OneJob
<1>5. \A t \in Superhubs : pull[t].step # "idle" => pull[t].pid \in Pids
  BY <1>0 DEF TypeInv, PidsKnown
<1>6. \A t \in Superhubs, n \in Pids, g \in Feeders : ~work'[t][n] => got'[t][n][g] = 0
  BY <1>2, <1>3, <1>4 DEF WorkDirs
<1>7. f \in Pulled
  BY <1>2 DEF WorkDirs
<1>8. \A t \in Superhubs, g \in Feeders :
        pull'[t].step = "jobs" =>
          /\ g \notin Pulled => job'[t][g].step = "none"
          /\ job'[t][g].step \in Before => got'[t][pull'[t].pid][g] = 0
  <2>. SUFFICES ASSUME NEW t \in Superhubs, NEW g \in Feeders, pull[t].step = "jobs"
                PROVE  /\ g \notin Pulled => job'[t][g].step = "none"
                       /\ job'[t][g].step \in Before => got'[t][pull[t].pid][g] = 0
    BY <1>4
  <2>1. CASE t # s \/ g # f
    <3>1. job'[t][g] = job[t][g] /\ got'[t][pull[t].pid][g] = got[t][pull[t].pid][g]
      BY <1>1, <1>3, <1>5, <2>1 DEF OneJob
    <3>. QED
      BY <3>1 DEF WorkDirs
  <2>2. CASE t = s /\ g = f
    BY <1>1, <1>2, <1>7, <2>2 DEF WorkDirs
  <2>. QED
    BY <2>1, <2>2
<1>9. \A t \in Superhubs, g \in Feeders :
        pull'[t].step = "gather" /\ g \notin pull'[t].left => got'[t][pull'[t].pid][g] = 0
  BY <1>2, <1>3, <1>4, <1>5 DEF WorkDirs
<1>. QED
  BY <1>4, <1>6, <1>8, <1>9 DEF WorkDirs

LEMMA WorkNext == ASSUME WipInv, WorkDirs, [Next]_vars PROVE WorkDirs'
<1>0. TypeInv /\ TypeOK
  BY DEF WipInv, TypeInv
<1>1. CASE UNCHANGED <<pull, job, work, got>>
  BY <1>1 DEF WorkDirs
<1>2. ASSUME NEW f \in Feeders, FeederStep(f) PROVE UNCHANGED <<pull, job, work, got>>
  BY <1>2 DEF FeederStep, Dump, DumpDone, PushMove, PushSend, PushRemove, Link, superhub
<1>3. ASSUME NEW s \in Superhubs, PullStep(s) PROVE WorkDirs'
  BY <1>0, <1>3, WorkPull, WorkJobs DEF PullStep, JobStep
<1>4. ASSUME NEW s \in Superhubs, NEW f \in Feeders, Consume(s, f) PROVE UNCHANGED <<pull, job, work, got>>
  BY <1>4 DEF Consume, superhub
<1>5. CASE Crash
  <2>1. UNCHANGED <<work, got>>
    BY <1>5 DEF Crash
  <2>2. ASSUME NEW s \in Superhubs, pull' = [pull EXCEPT ![s] = Ended],
               job' = [job EXCEPT ![s] = [f \in Feeders |-> NoJob]]
        PROVE  WorkDirs'
    <3>1. pull'[s].step = "idle" /\ \A t \in Superhubs \ {s} : pull'[t] = pull[t] /\ job'[t] = job[t]
      BY <1>0, <2>2, Shapes DEF Ended
    <3>. QED
      BY <2>1, <3>1, WorkSame
  <2>. QED
    BY <1>1, <1>5, <2>1, <2>2 DEF Crash
<1>6. CASE UNCHANGED vars
  BY <1>1, <1>6 DEF vars, superhub
<1>. QED
  BY <1>1, <1>2, <1>3, <1>4, <1>5, <1>6 DEF Next

-----------------------------------------------------------------------------
(* Where the last dump is                                                  *)

NewestAtTop == \A f \in Feeders : file[f][Top] \in {0, taken[f]}
MovesToEmpty == \A s \in Superhubs, f \in Feeders : At(s, f, "mv") => WipOf(s, f) = 0

(* While no command has failed, a directory that is about to be removed is *)
(* also in the work directory of the pull.                                 *)
Fetched ==
  faults = 0 =>
    \A s \in Superhubs, f \in Feeders :
      /\ ~job[s][f].bad
      /\ At(s, f, "rm") => got[s][pull[s].pid][f] = WipOf(s, f)

WhereInv == WipInv /\ WorkDirs /\ NewestAtTop /\ MovesToEmpty /\ Fetched

LEMMA WhereInit == ASSUME Init PROVE WhereInv
<1>1. NewestAtTop
  BY AtTop, TypeInit DEF TypeInv, Init, NewestAtTop, Pulled
<1>2. MovesToEmpty /\ Fetched
  BY DEF Init, MovesToEmpty, Fetched, At, NoJob
<1>. QED
  BY <1>1, <1>2, WipInit, WorkInit DEF WhereInv

LEMMA FaultCounts ==
    ASSUME TypeOK
    PROVE  /\ Fault => faults' # 0
           /\ (Fault \/ NoFault) /\ faults' = 0 => faults = 0
BY DEF TypeOK, Fault, NoFault

LEMMA TopNext == ASSUME WhereInv, [Next]_vars PROVE NewestAtTop'
<1>0. TypeInv /\ TypeOK
  BY DEF WhereInv, WipInv, TypeInv
<1>1. CASE UNCHANGED <<taken, file>>
  BY <1>1 DEF WhereInv, NewestAtTop
<1>2. ASSUME NEW f \in Feeders, FeederStep(f) PROVE NewestAtTop'
  <2>1. CASE Dump(f)
    <3>1. taken'[f] = taken[f] + 1 /\ \A g \in Feeders \ {f} : taken'[g] = taken[g]
      BY <1>0, <2>1 DEF Dump, TypeOK
    <3>2. file'[f][Top] = taken[f] + 1 /\ \A g \in Feeders \ {f} : file'[g] = file[g]
      BY <1>0, <2>1, AtTop DEF Dump, TypeOK
    <3>. QED
      BY <3>1, <3>2 DEF WhereInv, NewestAtTop, Pulled
  <2>2. ASSUME NEW s \in Superhubs, Link(f, s) PROVE NewestAtTop'
    <3>1. s # Top /\ s \in Places /\ Top \in Places
      BY NamesAssumption DEF Places
    <3>2. \A g \in Feeders : file'[g][Top] = file[g][Top]
      <4>1. CASE file' = [file EXCEPT ![f][s] = file[f][Top]]
        BY <1>0, <3>1, <4>1, AtTop, FileType
      <4>. QED
        BY <2>2, <4>1 DEF Link
    <3>. QED
      BY <2>2, <3>2 DEF Link, WhereInv, NewestAtTop, Pulled
  <2>3. CASE DumpDone(f) \/ PushSend(f)
    BY <1>1, <2>3 DEF DumpDone, PushSend, feeder
  <2>4. CASE PushMove(f) \/ PushRemove(f)
    <3>1. /\ \A g \in Feeders : file'[g][Top] \in {0, file[g][Top]}
          /\ UNCHANGED taken
      <4>1. ASSUME NEW v \in {0, file[f][Top]}, file' = [file EXCEPT ![f][Top] = v]
            PROVE  \A g \in Feeders : file'[g][Top] \in {0, file[g][Top]}
        <5>1. Top \in Places /\ v \in 0..MaxDump
          BY <1>0, AtTop, Numbers
        <5>. QED
          BY <1>0, <4>1, <5>1, FileType
      <4>. QED
        BY <2>4, <4>1 DEF PushMove, PushRemove, LeftAtTop
    <3>. QED
      BY <3>1 DEF WhereInv, NewestAtTop, Pulled
  <2>. QED
    BY <1>2, <2>1, <2>2, <2>3, <2>4 DEF FeederStep
<1>3. ASSUME NEW s \in Superhubs, PullStep(s) PROVE NewestAtTop'
  <2>1. ASSUME NEW f \in Feeders, JobMove(s, f) PROVE NewestAtTop'
    <3>1. UNCHANGED taken /\ job[s][f].place \in Places
      BY <1>0, <2>1, JobKnown DEF JobMove, Chosen
    <3>2. \A g \in Feeders : file'[g][Top] \in {0, file[g][Top]}
      <4>1. CASE file' = [file EXCEPT ![f][job[s][f].place] = 0]
        BY <1>0, <3>1, <4>1, AtTop DEF TypeOK
      <4>. QED
        BY <2>1, <4>1 DEF JobMove
    <3>. QED
      BY <3>1, <3>2 DEF WhereInv, NewestAtTop, Pulled
  <2>2. CASE ~\E f \in Feeders : JobMove(s, f)
    <3>1. UNCHANGED <<taken, file>>
      BY <1>3, <2>2 DEF PullStep, JobsDone, PullDone, PullStart, Gather, JobChoose, JobTest,
                        JobMkdir, JobFetch, JobRemove, feeder
    <3>. QED
      BY <1>1, <3>1
  <2>. QED
    BY <2>1, <2>2
<1>4. ASSUME Crash \/ (\E s \in Superhubs, f \in Feeders : Consume(s, f)) \/ UNCHANGED vars
      PROVE  NewestAtTop'
  BY <1>1, <1>4 DEF Crash, Consume, vars, feeder
<1>. QED
  BY <1>2, <1>3, <1>4 DEF Next

(* Steps that leave directories and the jobs in them alone.                *)
LEMMA WhereSame ==
    ASSUME WhereInv, UNCHANGED wip, faults' = 0 => faults = 0,
           \A s \in Superhubs, f \in Feeders :
             /\ AtWork(s, f)' => /\ AtWork(s, f) /\ job'[s][f] = job[s][f] /\ pull'[s] = pull[s]
                                 /\ got'[s][pull[s].pid][f] = got[s][pull[s].pid][f]
             /\ job'[s][f].bad => job[s][f].bad
    PROVE  MovesToEmpty' /\ Fetched'
<1>1. MovesToEmpty'
  <2>. SUFFICES ASSUME NEW s \in Superhubs, NEW f \in Feeders, At(s, f, "mv")'
                PROVE  WipOf(s, f)' = 0
    BY DEF MovesToEmpty
  <2>1. AtWork(s, f)'
    BY DEF AtWork
  <2>. QED
    BY <2>1 DEF WhereInv, MovesToEmpty, WipOf, At
<1>2. Fetched'
  <2>. SUFFICES ASSUME faults' = 0, NEW s \in Superhubs, NEW f \in Feeders
                PROVE  /\ ~job'[s][f].bad
                       /\ At(s, f, "rm")' => got'[s][pull'[s].pid][f] = WipOf(s, f)'
    BY DEF Fetched
  <2>1. ~job'[s][f].bad
    BY DEF WhereInv, Fetched
  <2>2. ASSUME At(s, f, "rm")' PROVE got'[s][pull'[s].pid][f] = WipOf(s, f)'
    <3>1. AtWork(s, f)'
      BY <2>2 DEF AtWork
    <3>2. At(s, f, "rm")
      BY <2>2, <3>1 DEF At
    <3>3. job'[s][f] = job[s][f] /\ pull'[s] = pull[s]
          /\ got'[s][pull[s].pid][f] = got[s][pull[s].pid][f]
      BY <3>1
    <3>4. WipOf(s, f)' = WipOf(s, f)
      BY <3>3 DEF WipOf
    <3>5. got[s][pull[s].pid][f] = WipOf(s, f)
      BY <3>2 DEF WhereInv, Fetched
    <3>. QED
      BY <3>3, <3>4, <3>5
  <2>. QED
    BY <2>1, <2>2
<1>. QED
  BY <1>1, <1>2

(* What a step of one job may do to the directories.                       *)
LEMMA JobTouches ==
    ASSUME WipInv, NEW s \in Superhubs, NEW f \in Feeders, JobStep(s, f)
    PROVE  /\ OneJob(s, f)
           /\ \A g \in Feeders, p \in Places, n \in JobPids :
                g # f \/ p # job[s][f].place \/ n # job[s][f].pid => wip'[g][p][n] = wip[g][p][n]
           /\ AtWork(s, f) \/ WipOf(s, f) = NoDir \/ wip' = wip
           /\ pull[s].step = "jobs" /\ pull[s].pid \in Pids
           /\ \A t \in Superhubs, n \in Pids, g \in Feeders :
                t # s \/ n # pull[s].pid \/ g # f => got'[t][n][g] = got[t][n][g]
           /\ faults' = 0 => faults = 0
           /\ job'[s][f].bad => job[s][f].bad \/ faults' # 0
<1>0. TypeInv /\ TypeOK
  BY DEF WipInv, TypeInv
<1>1. pull[s].step = "jobs" /\ pull[s].pid \in Pids
  <2>1. pull[s].step = "jobs"
    BY DEF JobStep, JobChoose, JobTest, JobMkdir, JobMove, JobFetch, JobRemove, At
  <2>. QED
    BY <1>0, <2>1 DEF TypeInv, PidsKnown
<1>2. faults' = 0 => faults = 0
  BY <1>0, FaultCounts DEF JobStep, JobChoose, JobTest, JobMkdir, JobMove, JobFetch, JobRemove
<1>3. CASE JobChoose(s, f)
  BY <1>0, <1>1, <1>2, <1>3, ChooseEffect
<1>4. CASE JobTest(s, f)
  BY <1>0, <1>1, <1>2, <1>4, TestEffect
<1>5. CASE JobMkdir(s, f)
  BY <1>0, <1>1, <1>2, <1>5, MkdirEffect DEF WipGets
<1>6. CASE JobMove(s, f)
  BY <1>0, <1>1, <1>2, <1>6, MoveEffect DEF WipGets, AtWork
<1>7. CASE JobFetch(s, f)
  <2>1. \A t \in Superhubs, n \in Pids, g \in Feeders :
          t # s \/ n # pull[s].pid \/ g # f => got'[t][n][g] = got[t][n][g]
    <3>1. CASE got' = [got EXCEPT ![s][pull[s].pid][f] = WipOf(s, f)]
      BY <1>0, <1>7, <3>1, FetchType, GotType
    <3>. QED
      BY <1>0, <1>7, <3>1, FetchEffect
  <2>. QED
    BY <1>0, <1>1, <1>2, <1>7, <2>1, FetchEffect, FaultCounts
<1>8. CASE JobRemove(s, f)
  <2>1. \A t \in Superhubs, n \in Pids, g \in Feeders :
          t # s \/ n # pull[s].pid \/ g # f => got'[t][n][g] = got[t][n][g]
    <3>1. CASE got' = [got EXCEPT ![s][pull[s].pid][f] = 0]
      BY <1>0, <1>1, <3>1, Numbers, GotType
    <3>. QED
      BY <1>0, <1>8, <3>1, RemoveEffect
  <2>2. \A g \in Feeders, p \in Places, n \in JobPids :
          g # f \/ p # job[s][f].place \/ n # job[s][f].pid => wip'[g][p][n] = wip[g][p][n]
    BY <1>0, <1>8, RemoveEffect DEF WipGets
  <2>3. OneJob(s, f) /\ AtWork(s, f) /\ job'[s][f].bad = job[s][f].bad
    BY <1>0, <1>8, RemoveEffect DEF AtWork
  <2>. QED
    BY <1>1, <1>2, <2>1, <2>2, <2>3
<1>. QED
  BY <1>3, <1>4, <1>5, <1>6, <1>7, <1>8 DEF JobStep

LEMMA StepAfter ==
    ASSUME TypeInv, NEW s \in Superhubs, NEW f \in Feeders, JobStep(s, f)
    PROVE  /\ job'[s][f].step = "mv" => JobMkdir(s, f)
           /\ job'[s][f].step = "rm" => JobFetch(s, f)
<1>1. CASE JobChoose(s, f)
  BY <1>1, ChooseEffect
<1>2. CASE JobTest(s, f)
  BY <1>2, TestEffect
<1>3. CASE JobMkdir(s, f)
  BY <1>3, MkdirEffect
<1>4. CASE JobMove(s, f)
  BY <1>4, MoveEffect
<1>5. CASE JobFetch(s, f)
  BY <1>5, FetchEffect
<1>6. CASE JobRemove(s, f)
  BY <1>6, RemoveEffect
<1>. QED
  BY <1>1, <1>2, <1>3, <1>4, <1>5, <1>6 DEF JobStep

LEMMA WhereJobs ==
    ASSUME WhereInv, NEW s \in Superhubs, NEW f \in Feeders, JobStep(s, f)
    PROVE  MovesToEmpty' /\ Fetched'
<1>0. TypeInv /\ TypeOK /\ WipInv
  BY DEF WhereInv, WipInv, TypeInv
<1>1. \A t \in Superhubs, g \in Feeders :
        (t # s \/ g # f) /\ AtWork(t, g)' =>
          /\ AtWork(t, g) /\ job'[t][g] = job[t][g] /\ WipOf(t, g)' = WipOf(t, g)
  <2>. SUFFICES ASSUME NEW t \in Superhubs, NEW g \in Feeders, t # s \/ g # f, AtWork(t, g)'
                PROVE  AtWork(t, g) /\ job'[t][g] = job[t][g] /\ WipOf(t, g)' = WipOf(t, g)
    OBVIOUS
  <2>1. AtWork(t, g) /\ job'[t][g] = job[t][g]
    BY <1>0, JobTouches DEF OneJob, AtWork, At
  <2>. QED
    BY <1>0, <2>1, JobTouches, OthersWip
<1>2. At(s, f, "mv")' => WipOf(s, f)' = 0
  <2>1. CASE JobMkdir(s, f)
    <3>1. At(s, f, "mv")' => WipGets(s, f, 0) /\ SameNames(s, f)
      BY <1>0, <2>1, MkdirEffect DEF At
    <3>. QED
      BY <3>1 DEF WipGets, WipOf, SameNames
  <2>2. CASE ~JobMkdir(s, f)
    BY <1>0, <2>2, StepAfter DEF At
  <2>. QED
    BY <2>1, <2>2
<1>3. faults' = 0 /\ At(s, f, "rm")' => got'[s][pull'[s].pid][f] = WipOf(s, f)'
  <2>1. CASE JobFetch(s, f)
    <3>1. CASE NoFault /\ got' = [got EXCEPT ![s][pull[s].pid][f] = WipOf(s, f)]
      <4>1. got'[s][pull[s].pid][f] = WipOf(s, f)
        BY <1>0, <2>1, <3>1, FetchType, GotType
      <4>2. WipOf(s, f)' = WipOf(s, f) /\ pull' = pull
        BY <1>0, <2>1, FetchEffect DEF WipOf, SameNames, OneJob
      <4>. QED
        BY <4>1, <4>2
    <3>. QED
      BY <1>0, <2>1, <3>1, FetchEffect, FaultCounts
  <2>2. CASE ~JobFetch(s, f)
    BY <1>0, <2>2, StepAfter DEF At
  <2>. QED
    BY <2>1, <2>2
<1>4. MovesToEmpty'
  <2>. SUFFICES ASSUME NEW t \in Superhubs, NEW g \in Feeders, At(t, g, "mv")', t # s \/ g # f
                PROVE  WipOf(t, g)' = 0
    BY <1>2 DEF MovesToEmpty
  <2>1. AtWork(t, g)'
    BY DEF AtWork
  <2>2. job'[t][g] = job[t][g] /\ WipOf(t, g)' = WipOf(t, g) /\ UNCHANGED pull
    BY <1>0, <1>1, <2>1, JobTouches DEF OneJob
  <2>. QED
    BY <2>2 DEF WhereInv, MovesToEmpty, At
<1>5. Fetched'
  <2>. SUFFICES ASSUME faults' = 0, NEW t \in Superhubs, NEW g \in Feeders
                PROVE  /\ ~job'[t][g].bad
                       /\ At(t, g, "rm")' => got'[t][pull'[t].pid][g] = WipOf(t, g)'
    BY DEF Fetched
  <2>1. ~job'[t][g].bad
    BY <1>0, JobTouches DEF WhereInv, Fetched, OneJob
  <2>2. ASSUME At(t, g, "rm")', t # s \/ g # f PROVE got'[t][pull'[t].pid][g] = WipOf(t, g)'
    <3>1. AtWork(t, g)'
      BY <2>2 DEF AtWork
    <3>2. job'[t][g] = job[t][g] /\ WipOf(t, g)' = WipOf(t, g) /\ UNCHANGED pull /\ faults = 0
      BY <1>0, <1>1, <2>2, <3>1, JobTouches DEF OneJob
    <3>3. At(t, g, "rm") /\ pull[t].pid \in Pids
      BY <1>0, <2>2, <3>2, JobKnown DEF At, TypeInv, PidsKnown
    <3>4. got'[t][pull[t].pid][g] = got[t][pull[t].pid][g]
      BY <1>0, <2>2, <3>3, JobTouches
    <3>. QED
      BY <3>2, <3>3, <3>4 DEF WhereInv, Fetched
  <2>. QED
    BY <1>3, <2>1, <2>2
<1>. QED
  BY <1>4, <1>5

LEMMA WhereNext == ASSUME WhereInv, [Next]_vars PROVE WhereInv'
<1>0. TypeInv /\ TypeOK /\ WipInv
  BY DEF WhereInv, WipInv, TypeInv
<1>1. ASSUME UNCHANGED <<wip, pull, job, got>>, faults' = 0 => faults = 0
      PROVE  MovesToEmpty' /\ Fetched'
  BY <1>1, WhereSame DEF AtWork, At
<1>2. ASSUME NEW f \in Feeders, FeederStep(f) PROVE MovesToEmpty' /\ Fetched'
  <2>1. UNCHANGED <<wip, pull, job, got>>
    BY <1>2 DEF FeederStep, Dump, DumpDone, PushMove, PushSend, PushRemove, Link, superhub
  <2>2. faults' = 0 => faults = 0
    BY <1>0, <1>2, FaultCounts DEF FeederStep, Dump, DumpDone, PushMove, PushSend, PushRemove, Link
  <2>. QED
    BY <1>1, <2>1, <2>2
<1>3. ASSUME NEW s \in Superhubs,
             \/ JobsDone(s) \/ PullDone(s) \/ \E n \in Pids : PullStart(s, n)
             \/ \E f \in Feeders : Gather(s, f)
      PROVE  MovesToEmpty' /\ Fetched'
  <2>1. UNCHANGED wip /\ (faults' = 0 => faults = 0)
    BY <1>0, <1>3, FaultCounts DEF JobsDone, PullDone, PullStart, Gather
  <2>2. \A t \in Superhubs \ {s} : job'[t] = job[t] /\ pull'[t] = pull[t] /\ got'[t] = got[t]
    <3>1. CASE JobsDone(s)
      BY <1>0, <3>1, Shapes DEF JobsDone, TypeOK
    <3>2. CASE PullDone(s)
      BY <1>0, <3>2, Shapes DEF PullDone, TypeOK
    <3>3. CASE \E n \in Pids : PullStart(s, n)
      BY <1>0, <3>3, Shapes DEF PullStart, TypeOK
    <3>4. CASE \E f \in Feeders : Gather(s, f)
      BY <1>0, <3>4, Shapes DEF Gather, TypeOK
    <3>. QED
      BY <1>3, <3>1, <3>2, <3>3, <3>4
  <2>3. \A f \in Feeders : ~AtWork(s, f)' /\ (job'[s][f].bad => job[s][f].bad)
    <3>1. CASE \E n \in Pids : PullStart(s, n)
      <4>1. \A f \in Feeders : job'[s][f].step \in {"start", "none"} /\ ~job'[s][f].bad
        BY <1>0, <3>1, Shapes DEF PullStart, NoJob
      <4>. QED
        BY <4>1 DEF AtWork, At
    <3>2. CASE JobsDone(s) \/ PullDone(s) \/ \E f \in Feeders : Gather(s, f)
      <4>1. UNCHANGED job
        BY <3>2 DEF JobsDone, PullDone, Gather
      <4>2. pull[s] \in PullRec /\ pull \in [Superhubs -> PullRec]
        BY <1>0, Shapes
      <4>3. \E r : pull' = [pull EXCEPT ![s] = r] /\ r.step # "jobs"
        BY <3>2, <4>2 DEF JobsDone, PullDone, Gather, Ended, PullRec
      <4>. QED
        BY <4>1, <4>2, <4>3 DEF AtWork, At
    <3>. QED
      BY <1>3, <3>1, <3>2
  <2>4. \A t \in Superhubs \ {s}, f \in Feeders : AtWork(t, f)' => AtWork(t, f)
    BY <2>2 DEF AtWork, At
  <2>. QED
    BY <2>1, <2>2, <2>3, <2>4, WhereSame
<1>4. ASSUME NEW s \in Superhubs, NEW f \in Feeders, Consume(s, f) PROVE MovesToEmpty' /\ Fetched'
  BY <1>1, <1>4 DEF Consume, superhub
<1>5. ASSUME Crash PROVE MovesToEmpty' /\ Fetched'
  <2>1. UNCHANGED <<wip, got, faults>>
    BY <1>5 DEF Crash
  <2>2. ASSUME NEW s \in Superhubs, pull' = [pull EXCEPT ![s] = Ended],
               job' = [job EXCEPT ![s] = [f \in Feeders |-> NoJob]]
        PROVE  MovesToEmpty' /\ Fetched'
    <3>1. pull'[s].step # "jobs" /\ \A t \in Superhubs \ {s} : pull'[t] = pull[t] /\ job'[t] = job[t]
      BY <1>0, <2>2, Shapes DEF Ended
    <3>2. \A f \in Feeders : ~AtWork(s, f)' /\ ~job'[s][f].bad
      BY <1>0, <2>2, <3>1, Shapes DEF AtWork, At, NoJob
    <3>3. \A t \in Superhubs \ {s}, f \in Feeders : AtWork(t, f)' => AtWork(t, f)
      BY <3>1 DEF AtWork, At
    <3>. QED
      BY <2>1, <3>1, <3>2, <3>3, WhereSame
  <2>3. CASE UNCHANGED <<pull, job>>
    <3>1. UNCHANGED <<wip, pull, job, got>> /\ (faults' = 0 => faults = 0)
      BY <2>1, <2>3
    <3>. QED
      BY <1>1, <3>1
  <2>. QED
    BY <1>5, <2>2, <2>3 DEF Crash
<1>6. ASSUME UNCHANGED vars PROVE MovesToEmpty' /\ Fetched'
  <2>1. UNCHANGED <<wip, pull, job, got>> /\ (faults' = 0 => faults = 0)
    BY <1>6 DEF vars, superhub
  <2>. QED
    BY <1>1, <2>1
<1>7. ASSUME NEW s \in Superhubs, PullStep(s) PROVE MovesToEmpty' /\ Fetched'
  <2>1. ASSUME NEW f \in Feeders, JobStep(s, f) PROVE MovesToEmpty' /\ Fetched'
    BY <2>1, WhereJobs
  <2>. QED
    BY <1>3, <1>7, <2>1 DEF PullStep, JobStep
<1>8. MovesToEmpty' /\ Fetched'
  BY <1>2, <1>4, <1>5, <1>6, <1>7 DEF Next
<1>. QED
  BY <1>0, <1>8, WipNext, WorkNext, TopNext DEF WhereInv

-----------------------------------------------------------------------------
(* The last dump stays                                                     *)

LEMMA StaysThere ==
    ASSUME NEW f \in Feeders, NEW d,
           OnTheWay(f, d),
           \A p \in Places : file[f][p] = d => OnTheWay(f, d)',
           \A p \in Places, n \in JobPids : wip[f][p][n] = d => OnTheWay(f, d)',
           \A s \in Superhubs, n \in Pids : got[s][n][f] = d => OnTheWay(f, d)'
    PROVE  OnTheWay(f, d)'
BY DEF OnTheWay

LEMMA StaysInJobs ==
    ASSUME WhereInv, NEW s \in Superhubs, NEW g \in Feeders, JobStep(s, g), faults' = 0,
           NEW f \in Feeders, NEW d \in Nat \ {0}, OnTheWay(f, d)
    PROVE  OnTheWay(f, d)'
<1>0. TypeInv /\ TypeOK /\ WipInv /\ faults = 0
  BY JobTouches DEF WhereInv, WipInv, TypeInv
<1>. DEFINE q == job[s][g].place
            m == job[s][g].pid
<1>1. \A p \in Places : file[f][p] = d => OnTheWay(f, d)'
  <2>1. CASE JobMove(s, g) /\ WipGets(s, g, file[g][q]) /\ file' = [file EXCEPT ![g][q] = 0]
    <3>1. q \in Places /\ m \in JobPids
      BY <1>0, <2>1, MoveEffect, JobKnown DEF Chosen
    <3>2. \A p \in Places : f # g \/ p # q => file'[f][p] = file[f][p]
      BY <1>0, <2>1, <3>1, Numbers, FileType
    <3>3. wip'[g][q][m] = file[g][q]
      BY <2>1 DEF WipGets
    <3>. QED
      BY <3>1, <3>2, <3>3 DEF OnTheWay
  <2>2. CASE UNCHANGED file
    BY <2>2 DEF OnTheWay
  <2>. QED
    BY <1>0, <2>1, <2>2, ChooseEffect, TestEffect, MkdirEffect, MoveEffect, FetchEffect, RemoveEffect
       DEF JobStep
<1>2. \A p \in Places, n \in JobPids : wip[f][p][n] = d => OnTheWay(f, d)'
  <2>. SUFFICES ASSUME NEW p \in Places, NEW n \in JobPids, wip[f][p][n] = d, wip'[f][p][n] # d
                PROVE  OnTheWay(f, d)'
    BY DEF OnTheWay
  <2>1. f = g /\ p = q /\ n = m /\ WipOf(s, g) = d
    BY <1>0, JobTouches DEF WipOf
  <2>2. d # NoDir /\ d # 0
    BY DEF NoDir
  <2>3. ~JobMkdir(s, g)
    BY <1>0, <2>1, <2>2, MkdirEffect
  <2>4. ~JobMove(s, g)
    BY <1>0, <2>1, <2>2, MoveEffect DEF WhereInv, MovesToEmpty
  <2>5. JobRemove(s, g)
    BY <1>0, <2>3, <2>4, ChooseEffect, TestEffect, FetchEffect DEF JobStep
  <2>6. At(s, g, "rm") /\ UNCHANGED got /\ pull[s].pid \in Pids
    BY <1>0, <2>5, RemoveEffect, JobTouches DEF WhereInv, Fetched
  <2>7. got'[s][pull[s].pid][f] = d
    BY <1>0, <2>1, <2>6 DEF WhereInv, Fetched
  <2>. QED
    BY <2>6, <2>7 DEF OnTheWay
<1>3. \A t \in Superhubs, n \in Pids : got[t][n][f] = d => OnTheWay(f, d)'
  <2>. SUFFICES ASSUME NEW t \in Superhubs, NEW n \in Pids, got[t][n][f] = d, got'[t][n][f] # d
                PROVE  FALSE
    BY DEF OnTheWay
  <2>1. t = s /\ n = pull[s].pid /\ f = g /\ pull[s].step = "jobs"
    BY <1>0, JobTouches
  <2>2. CASE JobFetch(s, g)
    <3>1. job[s][g].step \in Before
      BY <1>0, <2>2, FetchEffect DEF At, Before
    <3>. QED
      BY <2>1, <3>1 DEF WhereInv, WorkDirs
  <2>3. CASE JobRemove(s, g)
    BY <1>0, <2>3, RemoveEffect DEF WhereInv, Fetched
  <2>. QED
    BY <1>0, <2>2, <2>3, ChooseEffect, TestEffect, MkdirEffect, MoveEffect DEF JobStep
<1>. QED
  BY <1>1, <1>2, <1>3, StaysThere

LEMMA LinkEffect ==
    ASSUME TypeOK, NEW h \in Feeders, NEW s \in Superhubs, Link(h, s)
    PROVE  \/ UNCHANGED file
           \/ /\ file[h][Top] # 0 /\ file'[h][s] = file[h][Top]
              /\ \A g \in Feeders, p \in Places : g # h \/ p # s => file'[g][p] = file[g][p]
<1>1. file[h][Top] \in 0..MaxDump /\ s \in Places
  BY AtTop DEF Places
<1>2. ASSUME NEW v \in 0..MaxDump, file' = [file EXCEPT ![h][s] = v]
      PROVE  /\ file'[h][s] = v
             /\ \A g \in Feeders, p \in Places : g # h \/ p # s => file'[g][p] = file[g][p]
  BY <1>1, <1>2 DEF TypeOK
<1>. QED
  BY <1>1, <1>2 DEF Link

LEMMA StaysOrDelivered ==
    ASSUME WhereInv, [Next]_vars, faults' = 0, NEW f \in Pulled,
           NEW d \in Nat \ {0}, taken[f] = d, taken'[f] = d, OnTheWay(f, d)
    PROVE  OnTheWay(f, d)' \/ \E s \in Superhubs : delivered'[s][f] = d
<1>0. TypeInv /\ TypeOK /\ WipInv /\ f \in Feeders
  BY DEF WhereInv, WipInv, TypeInv, Pulled
<1>1. CASE UNCHANGED <<file, wip, got>>
  BY <1>1 DEF OnTheWay
<1>2. ASSUME NEW h \in Feeders, FeederStep(h) PROVE OnTheWay(f, d)'
  <2>1. UNCHANGED <<wip, got>>
    BY <1>2 DEF FeederStep, Dump, DumpDone, PushMove, PushSend, PushRemove, Link, superhub
  <2>2. \A p \in Places : file[f][p] = d => file'[f][p] = d
    <3>1. CASE Dump(h)
      <4>1. h # f
        BY <1>0, <3>1 DEF Dump, TypeOK
      <4>. QED
        BY <1>0, <3>1, <4>1 DEF Dump, TypeOK
    <3>2. ASSUME NEW s \in Superhubs, Link(h, s)
          PROVE  \A p \in Places : file[f][p] = d => file'[f][p] = d
      <4>1. h = f => file[h][Top] \in {0, d}
        BY DEF WhereInv, NewestAtTop
      <4>. QED
        BY <1>0, <3>2, <4>1, LinkEffect
    <3>3. CASE DumpDone(h) \/ PushSend(h)
      BY <3>3 DEF DumpDone, PushSend, feeder
    <3>4. CASE PushMove(h)
      <4>1. h # f
        BY <3>4 DEF PushMove, Pulled
      <4>. QED
        BY <1>0, <3>4, <4>1, AtTop, Numbers, FileType DEF PushMove
    <3>5. CASE PushRemove(h)
      <4>1. file' = [file EXCEPT ![h][Top] = file[h][Top]]
        BY <3>5 DEF PushRemove, LeftAtTop
      <4>. QED
        BY <1>0, <4>1, AtTop, FileType
    <3>. QED
      BY <1>2, <3>1, <3>2, <3>3, <3>4, <3>5 DEF FeederStep
  <2>. QED
    BY <2>1, <2>2 DEF OnTheWay
<1>3. ASSUME NEW s \in Superhubs, NEW g \in Feeders, Gather(s, g)
      PROVE  OnTheWay(f, d)' \/ \E r \in Superhubs : delivered'[r][f] = d
  <2>1. UNCHANGED <<file, wip>> /\ pull[s].pid \in Pids
    BY <1>0, <1>3 DEF Gather, feeder, TypeInv, PidsKnown
  <2>2. CASE UNCHANGED got
    BY <1>1, <2>1, <2>2
  <2>3. CASE /\ got' = [got EXCEPT ![s][pull[s].pid][g] = 0]
             /\ delivered' = [delivered EXCEPT ![s][g] = got[s][pull[s].pid][g]]
    <3>1. \A t \in Superhubs, n \in Pids :
            t # s \/ n # pull[s].pid \/ f # g => got'[t][n][f] = got[t][n][f]
      BY <1>0, <2>1, <2>3, Numbers, GotType
    <3>2. delivered'[s][g] = got[s][pull[s].pid][g]
      BY <1>0, <2>3 DEF TypeOK
    <3>. QED
      BY <2>1, <3>1, <3>2 DEF OnTheWay
  <2>. QED
    BY <1>3, <2>2, <2>3 DEF Gather
<1>4. ASSUME NEW s \in Superhubs, PullStep(s)
      PROVE  OnTheWay(f, d)' \/ \E r \in Superhubs : delivered'[r][f] = d
  <2>1. CASE JobsDone(s) \/ PullDone(s) \/ \E n \in Pids : PullStart(s, n)
    BY <1>1, <2>1 DEF JobsDone, PullDone, PullStart, feeder
  <2>2. ASSUME NEW g \in Feeders, JobStep(s, g) PROVE OnTheWay(f, d)'
    BY <1>0, <2>2, StaysInJobs
  <2>. QED
    BY <1>3, <1>4, <2>1, <2>2 DEF PullStep, JobStep
<1>5. CASE Crash \/ (\E s \in Superhubs, g \in Feeders : Consume(s, g)) \/ UNCHANGED vars
  BY <1>1, <1>5 DEF Crash, Consume, vars, feeder, superhub
<1>. QED
  BY <1>2, <1>4, <1>5 DEF Next

(* While no command fails, no step of any script loses the last dump of a  *)
(* feeder that is pulled from, for any feeders, superhubs, places and      *)
(* kills: it stays in some directory until a superhub hands it over        *)
(* (dump.sh:68-79, transport.sh:103-115, pull_dumps_from.sh:48-62).        *)
THEOREM LastDumpStays == Spec => NothingLost
<1>. DEFINE Stays ==
              faults' = 0 =>
                \A f \in Pulled :
                  taken[f] > 0 /\ taken'[f] = taken[f] /\ OnTheWay(f, taken[f]) =>
                    OnTheWay(f, taken[f])' \/ \E s \in Superhubs : delivered'[s][f] = taken[f]
<1>1. Init => WhereInv
  BY WhereInit
<1>2. WhereInv /\ [Next]_vars => WhereInv'
  BY WhereNext
<1>3. WhereInv /\ [Next]_vars => [Stays]_vars
  <2>. SUFFICES ASSUME WhereInv, Next, faults' = 0, NEW f \in Pulled,
                       taken[f] > 0, taken'[f] = taken[f], OnTheWay(f, taken[f])
                PROVE  OnTheWay(f, taken[f])' \/ \E s \in Superhubs : delivered'[s][f] = taken[f]
    OBVIOUS
  <2>1. PICK d : d = taken[f]
    OBVIOUS
  <2>2. d \in Nat \ {0}
    BY <2>1, BoundsAssumption DEF WhereInv, WipInv, TypeInv, TypeOK, Pulled
  <2>3. OnTheWay(f, d) /\ taken'[f] = d
    BY <2>1 DEF OnTheWay
  <2>4. OnTheWay(f, d)' \/ \E s \in Superhubs : delivered'[s][f] = d
    BY <2>1, <2>2, <2>3, StaysOrDelivered
  <2>. QED
    BY <2>1, <2>3, <2>4 DEF OnTheWay
<1>4. Spec => [][Stays]_vars
  BY <1>1, <1>2, <1>3, PTL DEF Spec
<1>. QED
  BY <1>4 DEF NothingLost

-----------------------------------------------------------------------------
(* What a pull leaves behind                                               *)

(* A job works in its superhub's directory or at the top, and the dump it  *)
(* found in the directory of the superhub stays there until it is moved.   *)
OwnPlace ==
  \A s \in Superhubs, f \in Feeders :
    pull[s].step = "jobs" /\ job[s][f].step \in Chosen => job[s][f].place \in {s, Top}

StillThere ==
  \A s \in Superhubs, f \in Feeders :
    /\ pull[s].step = "jobs" /\ job[s][f].step \in {"mkdir", "mv"} /\ job[s][f].place = s
    => file[f][s] # 0

(* When nothing has failed, every directory is that of a pull or job that  *)
(* is at work; at the top, a superhub may rob another's job of its dump,   *)
(* and then the job leaves its directory.                                  *)
OnlyAtWork ==
  faults = 0 /\ crashes = 0 =>
    /\ \A s \in Superhubs, n \in Pids : work[s][n] => pull[s].step # "idle" /\ pull[s].pid = n
    /\ \A s \in Superhubs, f \in Feeders, n \in JobPids :
         wip[f][s][n] # NoDir => AtWork(s, f) /\ job[s][f].place = s /\ job[s][f].pid = n

ResidueInv == OwnPlace /\ StillThere /\ OnlyAtWork

LEMMA ResidueInit == ASSUME Init PROVE ResidueInv
BY DEF Init, ResidueInv, OwnPlace, StillThere, OnlyAtWork, Places

LEMMA ChoosePlace ==
    ASSUME TypeInv, NEW s \in Superhubs, NEW f \in Feeders, JobChoose(s, f)
    PROVE  /\ job'[s][f].place \in {s, Top}
           /\ DirTestAnswered /\ s \in hasDir[f] => job'[s][f].place = s
<1>1. PICK p \in {s, Top}, n \in JobPids :
        /\ job' = [job EXCEPT ![s][f].step = "test", ![s][f].place = p, ![s][f].pid = n]
        /\ IF p = Top /\ s \in hasDir[f] THEN ~DirTestAnswered /\ Fault
           ELSE NoFault /\ (p = s <=> s \in hasDir[f])
  BY DEF JobChoose
<1>2. job[s][f] \in JobRec /\ job \in [Superhubs -> [Feeders -> JobRec]]
  BY Shapes DEF TypeInv
<1>3. job'[s][f].place = p
  BY <1>1, <1>2 DEF JobRec
<1>. QED  BY <1>1, <1>3

LEMMA OthersSame ==
    ASSUME NEW s \in Superhubs, NEW f \in Feeders, OneJob(s, f),
           NEW t \in Superhubs, NEW g \in Feeders, t # s \/ g # f
    PROVE  job'[t][g] = job[t][g] /\ pull'[t] = pull[t] /\ (AtWork(t, g)' <=> AtWork(t, g))
BY DEF OneJob, AtWork, At

LEMMA JobGoesOn ==
    ASSUME TypeInv, NEW s \in Superhubs, NEW f \in Feeders, JobStep(s, f)
    PROVE  /\ JobChoose(s, f) \/ (SameNames(s, f) /\ pull[s].step = "jobs" /\ job[s][f].step \in Chosen)
           /\ job'[s][f].step = "mkdir" => JobTest(s, f)
           /\ job'[s][f].step = "rsync" => JobMove(s, f)
<1>1. CASE JobChoose(s, f)
  BY <1>1, ChooseEffect
<1>2. CASE JobTest(s, f)
  BY <1>2, TestEffect DEF At, Chosen
<1>3. CASE JobMkdir(s, f)
  BY <1>3, MkdirEffect DEF At, Chosen
<1>4. CASE JobMove(s, f)
  BY <1>4, MoveEffect DEF At, Chosen
<1>5. CASE JobFetch(s, f)
  BY <1>5, FetchEffect DEF At, Chosen
<1>6. CASE JobRemove(s, f)
  BY <1>6, RemoveEffect DEF At, Chosen
<1>. QED  BY <1>1, <1>2, <1>3, <1>4, <1>5, <1>6 DEF JobStep

LEMMA PlaceJobs ==
    ASSUME WhereInv, ResidueInv, NEW s \in Superhubs, NEW f \in Feeders, JobStep(s, f)
    PROVE  OwnPlace' /\ StillThere'
<1>0. TypeInv /\ TypeOK /\ WipInv
  BY DEF WhereInv, WipInv, TypeInv
<1>1. OneJob(s, f) /\ pull[s].step = "jobs" /\ pull' = pull
  BY <1>0, JobTouches DEF OneJob
<1>2. OwnPlace'
  <2>1. job'[s][f].step \in Chosen => job'[s][f].place \in {s, Top}
    <3>1. CASE JobChoose(s, f)
      BY <1>0, <3>1, ChoosePlace
    <3>2. CASE ~JobChoose(s, f)
      BY <1>0, <3>2, JobGoesOn DEF SameNames, ResidueInv, OwnPlace
    <3>. QED  BY <3>1, <3>2
  <2>. QED  BY <1>1, <2>1, OthersSame DEF ResidueInv, OwnPlace
<1>3. StillThere'
  <2>. SUFFICES ASSUME NEW t \in Superhubs, NEW g \in Feeders, pull[t].step = "jobs",
                       job'[t][g].step \in {"mkdir", "mv"}, job'[t][g].place = t
                PROVE  file'[g][t] # 0
    BY <1>1 DEF StillThere
  <2>1. t # Top /\ t \in Places
    BY NamesAssumption DEF Places
  <2>2. CASE t # s \/ g # f
    <3>1. file[g][t] # 0
      BY <1>1, <2>2, OthersSame DEF ResidueInv, StillThere
    <3>2. CASE JobMove(s, f) /\ file' = [file EXCEPT ![f][job[s][f].place] = 0]
      <4>1. job[s][f].place \in {s, Top} /\ job[s][f].place \in Places
        BY <1>0, <1>1, <3>2, MoveEffect, JobKnown DEF ResidueInv, OwnPlace, At, Chosen
      <4>. QED  BY <1>0, <2>1, <2>2, <3>1, <3>2, <4>1, FileType, Numbers
    <3>3. CASE UNCHANGED file
      BY <3>1, <3>3
    <3>. QED
      BY <1>0, <3>2, <3>3, ChooseEffect, TestEffect, MkdirEffect, MoveEffect, FetchEffect,
         RemoveEffect DEF JobStep
  <2>3. CASE t = s /\ g = f
    <3>1. CASE JobTest(s, f)
      <4>1. SameNames(s, f) /\ UNCHANGED file
        BY <1>0, <3>1, TestEffect
      <4>2. JobTo(s, f, IF file[f][job[s][f].place] # 0 THEN "mkdir" ELSE "ok") \/ JobTo(s, f, "ok")
        BY <3>1 DEF JobTest
      <4>3. file[f][job[s][f].place] = 0 => JobTo(s, f, "ok")
        BY <4>2
      <4>4. JobTo(s, f, "ok") => job'[s][f].step = "ok"
        BY <1>0, JobToType DEF JobSteps
      <4>. QED  BY <2>3, <4>1, <4>3, <4>4 DEF SameNames
    <3>2. CASE JobMkdir(s, f)
      BY <1>0, <1>1, <2>3, <3>2, MkdirEffect DEF SameNames, At, ResidueInv, StillThere
    <3>3. CASE ~JobTest(s, f) /\ ~JobMkdir(s, f)
      BY <1>0, <2>3, <3>3, JobGoesOn, StepAfter
    <3>. QED  BY <3>1, <3>2, <3>3
  <2>. QED  BY <2>2, <2>3
<1>. QED  BY <1>2, <1>3

LEMMA ResidueJobs ==
    ASSUME WhereInv, ResidueInv, NEW s \in Superhubs, NEW f \in Feeders, JobStep(s, f)
    PROVE  OnlyAtWork'
<1>0. TypeInv /\ TypeOK /\ WipInv
  BY DEF WhereInv, WipInv, TypeInv
<1>1. OneJob(s, f) /\ pull[s].step = "jobs" /\ UNCHANGED <<pull, work, crashes>>
  BY <1>0, JobTouches DEF OneJob
<1>. SUFFICES ASSUME faults' = 0, crashes = 0
              PROVE  OnlyAtWork'
  BY <1>1 DEF OnlyAtWork
<1>2. faults = 0
  BY <1>0, JobTouches
<1>3. \A t \in Superhubs, n \in Pids : work'[t][n] => pull'[t].step # "idle" /\ pull'[t].pid = n
  BY <1>1, <1>2 DEF ResidueInv, OnlyAtWork
<1>. DEFINE q == job[s][f].place
            m == job[s][f].pid
<1>4. ASSUME NEW t \in Superhubs, NEW g \in Feeders, NEW n \in JobPids, wip'[g][t][n] # NoDir
      PROVE  AtWork(t, g)' /\ job'[t][g].place = t /\ job'[t][g].pid = n
  <2>1. t # Top /\ t \in Places
    BY NamesAssumption DEF Places
  <2>2. CASE g = f /\ t = q /\ n = m
    <3>1. CASE JobChoose(s, f) \/ JobTest(s, f)
      <4>1. UNCHANGED wip /\ ~AtWork(s, f)
        BY <1>0, <3>1, ChooseEffect, TestEffect, AtWorkIs DEF At
      <4>2. AtWork(t, g) /\ job[t][g].place = t /\ job[t][g].pid = n
        BY <1>2, <1>4, <4>1 DEF ResidueInv, OnlyAtWork
      <4>3. t # s \/ g # f
        BY <4>1, <4>2
      <4>. QED  BY <1>1, <4>2, <4>3, OthersSame
    <3>2. CASE ~JobChoose(s, f) /\ ~JobTest(s, f)
      <4>1. SameNames(s, f) /\ q \in {s, Top}
        BY <1>0, <3>2, JobGoesOn DEF ResidueInv, OwnPlace
      <4>2. t = s
        BY <2>1, <2>2, <4>1
      <4>3. SUFFICES job'[s][f].step \in {"mv", "rsync", "rm"}
        BY <1>1, <2>2, <4>1, <4>2 DEF SameNames, AtWork, At
      <4>4. CASE JobMkdir(s, f)
        <5>1. ~AtWork(s, f) /\ (job'[s][f].step = "mv" \/ UNCHANGED wip)
          BY <1>0, <4>4, MkdirEffect, AtWorkIs DEF At
        <5>. QED  BY <1>2, <1>4, <2>2, <4>2, <5>1 DEF ResidueInv, OnlyAtWork
      <4>5. CASE JobMove(s, f)
        <5>1. file[f][q] # 0
          BY <1>1, <2>2, <4>2, <4>5 DEF JobMove, At, ResidueInv, StillThere
        <5>2. JobTo(s, f, "rsync")
          BY <1>0, <4>5, <5>1, FaultCounts DEF JobMove
        <5>. QED  BY <1>0, <5>2, JobToType DEF JobSteps
      <4>6. CASE JobFetch(s, f)
        BY <1>0, <4>6, FetchEffect
      <4>7. CASE JobRemove(s, f)
        <5>1. SetWip(s, f, NoDir)
          BY <1>0, <4>7, FaultCounts DEF JobRemove, AfterRemove
        <5>2. NoDir \in NoDir..MaxDump /\ m \in JobPids
          BY <4>1, BoundsAssumption DEF SameNames, NoDir
        <5>3. wip'[f][q][m] = NoDir
          BY <1>0, <5>1, <5>2, SetWipType
        <5>. QED  BY <1>4, <2>2, <5>3
      <4>. QED  BY <3>2, <4>4, <4>5, <4>6, <4>7 DEF JobStep
    <3>. QED  BY <3>1, <3>2
  <2>3. CASE ~(g = f /\ t = q /\ n = m)
    <3>1. wip'[g][t][n] = wip[g][t][n]
      BY <1>0, <2>1, <2>3, JobTouches
    <3>2. AtWork(t, g) /\ job[t][g].place = t /\ job[t][g].pid = n
      BY <1>2, <1>4, <3>1 DEF ResidueInv, OnlyAtWork
    <3>3. t # s \/ g # f
      BY <2>3, <3>2
    <3>. QED  BY <1>1, <3>2, <3>3, OthersSame
  <2>. QED  BY <2>2, <2>3
<1>. QED  BY <1>3, <1>4 DEF OnlyAtWork

LEMMA ResidueElsewhere ==
    ASSUME ResidueInv, UNCHANGED wip, NEW s \in Superhubs,
           \A t \in Superhubs \ {s} : pull'[t] = pull[t] /\ job'[t] = job[t] /\ work'[t] = work[t],
           faults' = 0 /\ crashes' = 0 => faults = 0 /\ crashes = 0,
           \A g \in Feeders, p \in Places : file'[g][p] = 0 => file[g][p] = 0,
           \A g \in Feeders : pull'[s].step = "jobs" => job'[s][g].step \in {"start", "none"},
           faults' = 0 /\ crashes' = 0 =>
             /\ \A n \in Pids : work'[s][n] => pull'[s].step # "idle" /\ pull'[s].pid = n
             /\ \A g \in Feeders : ~AtWork(s, g)
    PROVE  ResidueInv'
<1>1. OwnPlace'
  BY DEF ResidueInv, OwnPlace, Chosen
<1>2. StillThere'
  <2>1. \A t \in Superhubs : t \in Places
    BY DEF Places
  <2>. QED  BY <2>1 DEF ResidueInv, StillThere
<1>3. OnlyAtWork'
  BY DEF ResidueInv, OnlyAtWork, AtWork, At
<1>. QED  BY <1>1, <1>2, <1>3 DEF ResidueInv

LEMMA ResiduePull ==
    ASSUME WhereInv, ResidueInv, NEW s \in Superhubs,
           \/ JobsDone(s) \/ PullDone(s) \/ \E n \in Pids : PullStart(s, n)
           \/ \E f \in Feeders : Gather(s, f)
    PROVE  ResidueInv'
<1>0. TypeInv /\ TypeOK /\ pull[s] \in PullRec /\ pull \in [Superhubs -> PullRec]
  BY Shapes DEF WhereInv, WipInv, TypeInv
<1>1. UNCHANGED <<wip, file, crashes>> /\ (faults' = 0 => faults = 0)
  BY <1>0, FaultCounts DEF JobsDone, PullDone, PullStart, Gather, feeder
<1>2. \A t \in Superhubs \ {s} : pull'[t] = pull[t] /\ job'[t] = job[t] /\ work'[t] = work[t]
  <2>1. CASE JobsDone(s)
    BY <1>0, <2>1, Shapes DEF JobsDone, TypeOK
  <2>2. CASE PullDone(s)
    BY <1>0, <2>2, Shapes DEF PullDone, TypeOK
  <2>3. CASE \E n \in Pids : PullStart(s, n)
    BY <1>0, <2>3, Shapes DEF PullStart, TypeOK
  <2>4. CASE \E f \in Feeders : Gather(s, f)
    BY <1>0, <2>4, Shapes DEF Gather, TypeOK
  <2>. QED
    BY <2>1, <2>2, <2>3, <2>4
<1>3. faults = 0 /\ crashes = 0 =>
        \A n \in Pids : work[s][n] => pull[s].step # "idle" /\ pull[s].pid = n
  BY DEF ResidueInv, OnlyAtWork
<1>4. ASSUME NEW n \in Pids, PullStart(s, n) PROVE ResidueInv'
  <2>1. pull[s].step = "idle" /\ pull'[s].step = "jobs" /\ pull'[s].pid = n
    BY <1>0, <1>4 DEF PullStart
  <2>2. \A g \in Feeders : job'[s][g].step \in {"start", "none"}
    BY <1>0, <1>4, Shapes DEF PullStart, NoJob
  <2>3. \A m \in Pids : m # n => (work'[s][m] <=> work[s][m])
    BY <1>0, <1>4 DEF PullStart, TypeOK
  <2>4. \A g \in Feeders : ~AtWork(s, g)
    BY <2>1 DEF AtWork, At
  <2>. QED  BY <1>1, <1>2, <1>3, <2>1, <2>2, <2>3, <2>4, ResidueElsewhere
<1>5. CASE JobsDone(s)
  <2>1. pull[s].step = "jobs" /\ pull'[s].step = "gather" /\ pull'[s].pid = pull[s].pid /\ UNCHANGED work
    BY <1>0, <1>5 DEF JobsDone, PullRec
  <2>2. \A g \in Feeders : job[s][g].step \in {"ok", "failed", "none"}
    BY <1>5, <2>1 DEF JobsDone, WhereInv, WorkDirs
  <2>3. \A g \in Feeders : ~AtWork(s, g)
    BY <2>2 DEF AtWork, At
  <2>. QED  BY <1>1, <1>2, <1>3, <2>1, <2>3, ResidueElsewhere
<1>6. CASE PullDone(s)
  <2>1. pull[s].step = "gather" /\ pull'[s].step = "idle" /\ pull[s].pid \in Pids
    BY <1>0, <1>6 DEF PullDone, Ended, TypeInv, PidsKnown
  <2>2. /\ ~work'[s][pull[s].pid]
        /\ \A m \in Pids : m # pull[s].pid => (work'[s][m] <=> work[s][m])
    BY <1>0, <1>6, <2>1 DEF PullDone, TypeOK
  <2>3. \A g \in Feeders : ~AtWork(s, g)
    BY <2>1 DEF AtWork, At
  <2>. QED  BY <1>1, <1>2, <1>3, <2>1, <2>2, <2>3, ResidueElsewhere
<1>7. ASSUME NEW f \in Feeders, Gather(s, f) PROVE ResidueInv'
  <2>1. pull[s].step = "gather" /\ UNCHANGED work
    BY <1>7 DEF Gather
  <2>2. \A g \in Feeders : ~AtWork(s, g)
    BY <2>1 DEF AtWork, At
  <2>3. pull'[s].step # "jobs" /\ (faults' = 0 => pull'[s].step = "gather" /\ pull'[s].pid = pull[s].pid)
    <3>1. CASE pull' = [pull EXCEPT ![s] = Ended] /\ Fault
      BY <1>0, <3>1, FaultCounts DEF Ended
    <3>2. CASE pull' = [pull EXCEPT ![s].left = @ \ {f}]
      BY <1>0, <2>1, <3>2 DEF PullRec
    <3>. QED  BY <1>7, <3>1, <3>2 DEF Gather
  <2>. QED  BY <1>1, <1>2, <1>3, <2>1, <2>2, <2>3, ResidueElsewhere
<1>. QED  BY <1>4, <1>5, <1>6, <1>7

LEMMA ResidueNext == ASSUME WhereInv, ResidueInv, [Next]_vars PROVE ResidueInv'
<1>0. TypeInv /\ TypeOK
  BY DEF WhereInv, WipInv, TypeInv
<1>1. ASSUME UNCHANGED <<wip, pull, job, work>>,
             faults' = 0 /\ crashes' = 0 => faults = 0 /\ crashes = 0,
             \A s \in Superhubs, g \in Feeders : file'[g][s] = 0 => file[g][s] = 0
      PROVE  ResidueInv'
  BY <1>1 DEF ResidueInv, OwnPlace, StillThere, OnlyAtWork, AtWork, At
<1>2. ASSUME NEW f \in Feeders, FeederStep(f) PROVE ResidueInv'
  <2>1. UNCHANGED <<wip, pull, job, work, crashes>>
    BY <1>2 DEF FeederStep, Dump, DumpDone, PushMove, PushSend, PushRemove, Link, superhub
  <2>2. faults' = 0 => faults = 0
    BY <1>0, <1>2, FaultCounts DEF FeederStep, Dump, DumpDone, PushMove, PushSend, PushRemove, Link
  <2>3. \A s \in Superhubs : s # Top /\ s \in Places
    BY NamesAssumption DEF Places
  <2>4. \A s \in Superhubs, g \in Feeders : file'[g][s] = 0 => file[g][s] = 0
    <3>1. CASE UNCHANGED file
      BY <3>1
    <3>2. ASSUME NEW v \in Nat, file' = [file EXCEPT ![f][Top] = v]
          PROVE  \A s \in Superhubs, g \in Feeders : file'[g][s] = file[g][s]
      BY <1>0, <2>3, <3>2 DEF TypeOK
    <3>3. ASSUME NEW s \in Superhubs, Link(f, s)
          PROVE  \A t \in Superhubs, g \in Feeders : file'[g][t] = 0 => file[g][t] = 0
      BY <1>0, <2>3, <3>3, LinkEffect
    <3>4. taken[f] + 1 \in Nat /\ 0 \in Nat /\ file[f][Top] \in Nat
      <4>1. taken[f] \in 0..MaxDump /\ file[f][Top] \in 0..MaxDump
        BY <1>0, AtTop DEF TypeOK
      <4>2. MaxDump \in Nat
        BY BoundsAssumption
      <4>. QED  BY <4>1, <4>2
    <3>. QED
      BY <1>2, <3>1, <3>2, <3>3, <3>4
         DEF FeederStep, Dump, DumpDone, PushMove, PushSend, PushRemove, LeftAtTop, feeder
  <2>. QED  BY <1>1, <2>1, <2>2, <2>4
<1>3. ASSUME NEW s \in Superhubs, PullStep(s) PROVE ResidueInv'
  <2>1. ASSUME NEW f \in Feeders, JobStep(s, f) PROVE ResidueInv'
    BY <2>1, PlaceJobs, ResidueJobs DEF ResidueInv
  <2>. QED  BY <1>3, <2>1, ResiduePull DEF PullStep, JobStep
<1>4. ASSUME NEW s \in Superhubs, NEW f \in Feeders, Consume(s, f) PROVE ResidueInv'
  BY <1>1, <1>4 DEF Consume, feeder, superhub
<1>5. CASE Crash
  <2>1. UNCHANGED <<wip, work, file>> /\ crashes' # 0
    BY <1>0, <1>5 DEF Crash, TypeOK
  <2>2. ASSUME NEW s \in Superhubs, pull' = [pull EXCEPT ![s] = Ended],
               job' = [job EXCEPT ![s] = [f \in Feeders |-> NoJob]]
        PROVE  ResidueInv'
    <3>1. pull'[s].step = "idle" /\ \A t \in Superhubs \ {s} : pull'[t] = pull[t] /\ job'[t] = job[t]
      BY <1>0, <2>2, Shapes DEF Ended
    <3>. QED  BY <2>1, <3>1, ResidueElsewhere
  <2>. QED  BY <1>1, <1>5, <2>1, <2>2 DEF Crash
<1>6. CASE UNCHANGED vars
  BY <1>1, <1>6 DEF vars, feeder, superhub
<1>. QED  BY <1>2, <1>3, <1>4, <1>5, <1>6 DEF Next

(* When nothing fails, a pull that has ended leaves no work directory, no  *)
(* dump and no .transporting directory in its superhub's directory, so a   *)
(* later pull or job with the same pid is not stopped, for any superhubs   *)
(* that pull at the same time (transport.sh:76, 115;                       *)
(* pull_dumps_from.sh:49, 56).                                             *)
THEOREM NothingStays == Spec => []NoResidue
<1>1. Init => WhereInv /\ ResidueInv
  BY WhereInit, ResidueInit
<1>2. WhereInv /\ ResidueInv /\ [Next]_vars => (WhereInv /\ ResidueInv)'
  BY WhereNext, ResidueNext
<1>3. WhereInv /\ ResidueInv => NoResidue
  BY DEF WhereInv, WorkDirs, ResidueInv, OnlyAtWork, AtWork, At, NoResidue
<1>. QED  BY <1>1, <1>2, <1>3, PTL DEF Spec

-----------------------------------------------------------------------------
(* The order in which dumps arrive                                         *)

(* Every superhub has its directory on every feeder.                       *)
KnownDirs == \A f \in Feeders : Superhubs \subseteq hasDir[f]
InOwnDir ==
  \A s \in Superhubs, f \in Feeders :
    pull[s].step = "jobs" /\ job[s][f].step \in Chosen => job[s][f].place = s

(* A dump d of f that superhub s may still deliver: not older than what it *)
(* has delivered, and not newer than what waits for it on the feeder.      *)
May(s, f, d) ==
  /\ delivered[s][f] <= d /\ d <= taken[f]
  /\ file[f][s] # 0 => d <= file[f][s]

PulledInOrder ==
  \A s \in Superhubs, f \in Pulled :
    /\ May(s, f, delivered[s][f])
    /\ At(s, f, "rsync") => May(s, f, WipOf(s, f))
    /\ pull[s].step # "idle" /\ got[s][pull[s].pid][f] # 0 => May(s, f, got[s][pull[s].pid][f])

PushedInOrder ==
  \A s \in Superhubs, f \in Pushers :
    pusher[f].step = "rsync" => delivered[s][f] <= pusher[f].file /\ pusher[f].file <= taken[f]

TakenFirst ==
  /\ \A s \in Superhubs : pull[s].left \subseteq Pulled
  /\ \A f \in Feeders : pusher[f].step # "idle" => f \in Pushers
  /\ \A s \in Superhubs, f \in Feeders : delivered[s][f] <= taken[f] /\ file[f][s] <= taken[f]

OrderInv == KnownDirs /\ InOwnDir /\ TakenFirst /\ PulledInOrder /\ PushedInOrder

LEMMA OrderNumbers ==
    ASSUME TypeOK, NEW s \in Superhubs, NEW f \in Feeders
    PROVE  /\ taken[f] \in Nat /\ delivered[s][f] \in Nat /\ file[f][s] \in Nat
           /\ file[f][Top] \in Nat /\ pusher[f].file \in Nat
           /\ \A n \in Pids : got[s][n][f] \in Nat
           /\ s \in Places /\ s # Top
<1>1. s \in Places /\ s # Top
  BY NamesAssumption DEF Places
<1>2. delivered[s][f] \in 0..MaxDump
  BY DEF TypeOK
<1>3. /\ taken[f] \in 0..MaxDump /\ file[f][s] \in 0..MaxDump /\ file[f][Top] \in 0..MaxDump
      /\ pusher[f].file \in 0..MaxDump /\ \A n \in Pids : got[s][n][f] \in 0..MaxDump
  BY <1>1, FieldsType, AtTop
<1>. QED  BY <1>1, <1>2, <1>3, BoundsAssumption

LEMMA NextNumbers ==
    ASSUME TypeOK', NEW s \in Superhubs, NEW f \in Feeders
    PROVE  taken'[f] \in Nat /\ file'[f][s] \in Nat /\ pusher'[f].file \in Nat
<1>1. s \in Places
  BY DEF Places
<1>2. /\ taken'[f] \in 0..MaxDump /\ file'[f][s] \in 0..MaxDump
      /\ pusher'[f].file \in 0..MaxDump
  BY <1>1 DEF TypeOK
<1>. QED  BY <1>2, BoundsAssumption

LEMMA OrderInit == ASSUME Superhubs \subseteq Known, Init PROVE OrderInv
<1>1. TypeOK
  BY TypeInit DEF TypeInv
<1>2. \A s \in Superhubs, f \in Feeders : delivered[s][f] = 0 /\ taken[f] = 0 /\ file[f][s] = 0
  BY OrderNumbers, <1>1 DEF Init
<1>3. KnownDirs /\ InOwnDir
  BY DEF Init, KnownDirs, InOwnDir
<1>4. TakenFirst
  <2>1. \A s \in Superhubs : pull[s].left = {}
    BY DEF Init
  <2>2. \A f \in Feeders : pusher[f].step = "idle"
    BY DEF Init
  <2>. QED  BY <1>2, <2>1, <2>2 DEF TakenFirst
<1>5. PulledInOrder /\ PushedInOrder
  <2>1. \A s \in Superhubs : pull[s].step = "idle"
    BY DEF Init
  <2>2. \A f \in Feeders : pusher[f].step = "idle"
    BY DEF Init
  <2>. QED
    BY <1>2, <2>1, <2>2, SwitchesAssumption DEF PulledInOrder, PushedInOrder, Pulled, May, At
<1>. QED  BY <1>3, <1>4, <1>5 DEF OrderInv

(* A step takes dumps, moves them away or links the last one.              *)
FilesMoveOn ==
  \A s \in Superhubs, f \in Feeders :
    /\ taken[f] <= taken'[f]
    /\ file'[f][s] \in {file[f][s], 0, taken[f]}

LEMMA MayKept ==
    ASSUME TypeOK, TypeOK', FilesMoveOn, NEW s \in Superhubs, NEW f \in Feeders,
           delivered'[s][f] = delivered[s][f], NEW d \in Int, May(s, f, d)
    PROVE  May(s, f, d)'
<1>1. taken[f] \in Nat /\ delivered[s][f] \in Nat /\ file[f][s] \in Nat
  BY OrderNumbers
<1>2. taken'[f] \in Nat /\ file'[f][s] \in Nat
  BY NextNumbers
<1>. QED  BY <1>1, <1>2 DEF May, FilesMoveOn

LEMMA OrderKept ==
    ASSUME TypeOK, TypeOK', OrderInv, FilesMoveOn, UNCHANGED delivered, KnownDirs', InOwnDir',
           \A s \in Superhubs : pull'[s].left \subseteq Pulled,
           \A f \in Feeders : pusher'[f].step # "idle" => f \in Pushers,
           \A s \in Superhubs, f \in Pushers :
             pusher'[f].step = "rsync" =>
               delivered[s][f] <= pusher'[f].file /\ pusher'[f].file <= taken[f],
           \A s \in Superhubs, f \in Pulled :
             /\ At(s, f, "rsync")' => \E d \in Int : WipOf(s, f)' = d /\ May(s, f, d)
             /\ pull'[s].step # "idle" /\ got'[s][pull'[s].pid][f] # 0 =>
                  \E d \in Int : got'[s][pull'[s].pid][f] = d /\ May(s, f, d)
    PROVE  OrderInv'
<1>1. \A s \in Superhubs, f \in Feeders :
        /\ taken[f] \in Nat /\ delivered[s][f] \in Nat /\ file[f][s] \in Nat
        /\ taken'[f] \in Nat /\ file'[f][s] \in Nat
  BY OrderNumbers, NextNumbers
<1>2. Pushers \subseteq Feeders /\ Pulled \subseteq Feeders
  BY SwitchesAssumption DEF Pulled
<1>3. TakenFirst'
  BY <1>1 DEF OrderInv, TakenFirst, FilesMoveOn
<1>4. PushedInOrder'
  <2>. SUFFICES ASSUME NEW s \in Superhubs, NEW f \in Pushers, pusher'[f].step = "rsync"
                PROVE  delivered'[s][f] <= pusher'[f].file /\ pusher'[f].file <= taken'[f]
    BY DEF PushedInOrder
  <2>1. f \in Feeders /\ pusher'[f].file \in Nat
    BY <1>2, NextNumbers
  <2>. QED  BY <1>1, <2>1 DEF FilesMoveOn
<1>5. PulledInOrder'
  <2>. SUFFICES ASSUME NEW s \in Superhubs, NEW f \in Pulled
                PROVE  /\ May(s, f, delivered[s][f])'
                       /\ At(s, f, "rsync")' => May(s, f, WipOf(s, f))'
                       /\ pull'[s].step # "idle" /\ got'[s][pull'[s].pid][f] # 0
                            => May(s, f, got[s][pull[s].pid][f])'
    BY DEF PulledInOrder
  <2>1. f \in Feeders
    BY <1>2
  <2>2. ASSUME NEW d \in Int, May(s, f, d)
        PROVE  /\ delivered'[s][f] <= d /\ d <= taken'[f]
               /\ file'[f][s] # 0 => d <= file'[f][s]
    BY <2>1, <2>2, MayKept DEF May
  <2>3. May(s, f, delivered[s][f])
    BY DEF OrderInv, PulledInOrder
  <2>4. delivered[s][f] \in Int
    BY <1>1, <2>1
  <2>5. PICK e \in Int : e = delivered[s][f]
    BY <2>4
  <2>6. May(s, f, e)
    BY <2>3, <2>5 DEF May
  <2>7. May(s, f, delivered[s][f])'
    BY <2>2, <2>5, <2>6 DEF May
  <2>8. At(s, f, "rsync")' => May(s, f, WipOf(s, f))'
    BY <2>2 DEF May
  <2>9. pull'[s].step # "idle" /\ got'[s][pull'[s].pid][f] # 0
          => May(s, f, got[s][pull[s].pid][f])'
    BY <2>2 DEF May
  <2>. QED  BY <2>7, <2>8, <2>9
<1>. QED  BY <1>3, <1>4, <1>5 DEF OrderInv

(* Steps that leave the pulls and what they have alone.                    *)
LEMMA OrderQuiet ==
    ASSUME WhereInv, TypeOK', OrderInv, FilesMoveOn,
           UNCHANGED <<delivered, pull, job, wip, got>>,
           \A f \in Feeders : hasDir[f] \subseteq hasDir'[f],
           \A f \in Feeders : pusher'[f].step # "idle" => f \in Pushers,
           \A s \in Superhubs, f \in Pushers :
             pusher'[f].step = "rsync" =>
               delivered[s][f] <= pusher'[f].file /\ pusher'[f].file <= taken[f]
    PROVE  OrderInv'
<1>0. TypeInv /\ TypeOK
  BY DEF WhereInv, WipInv, TypeInv
<1>1. KnownDirs' /\ InOwnDir'
  BY DEF OrderInv, KnownDirs, InOwnDir
<1>2. \A s \in Superhubs : pull'[s].left \subseteq Pulled
  BY DEF OrderInv, TakenFirst
<1>3. ASSUME NEW s \in Superhubs, NEW f \in Pulled
      PROVE  /\ At(s, f, "rsync")' => \E d \in Int : WipOf(s, f)' = d /\ May(s, f, d)
             /\ pull'[s].step # "idle" /\ got'[s][pull'[s].pid][f] # 0 =>
                  \E d \in Int : got'[s][pull'[s].pid][f] = d /\ May(s, f, d)
  <2>1. f \in Feeders
    BY DEF Pulled
  <2>2. ASSUME At(s, f, "rsync")' PROVE \E d \in Int : WipOf(s, f)' = d /\ May(s, f, d)
    <3>1. At(s, f, "rsync") /\ WipOf(s, f)' = WipOf(s, f)
      BY <2>2 DEF At, WipOf
    <3>2. WipOf(s, f) \in Int
      BY <1>0, <2>1, <3>1, JobKnown DEF Chosen
    <3>. QED  BY <3>1, <3>2 DEF OrderInv, PulledInOrder, May
  <2>3. ASSUME pull'[s].step # "idle", got'[s][pull'[s].pid][f] # 0
        PROVE  \E d \in Int : got'[s][pull'[s].pid][f] = d /\ May(s, f, d)
    <3>1. pull[s].pid \in Pids
      BY <1>0, <2>3 DEF TypeInv, PidsKnown
    <3>2. got[s][pull[s].pid][f] \in Int
      BY <1>0, <2>1, <3>1, OrderNumbers
    <3>. QED  BY <2>3, <3>2 DEF OrderInv, PulledInOrder, May
  <2>. QED  BY <2>2, <2>3
<1>. QED  BY <1>0, <1>1, <1>2, <1>3, OrderKept

LEMMA OrderPush ==
    ASSUME WhereInv, TypeOK', OrderInv, NEW s \in Superhubs, NEW f \in Feeders,
           pusher[f].step = "rsync", UNCHANGED <<feeder, wip, superhub>>,
           pusher' = [pusher EXCEPT ![f].step = "rm"],
           delivered' = [delivered EXCEPT ![s][f] = pusher[f].file]
    PROVE  OrderInv'
<1>0. TypeOK
  BY DEF WhereInv, WipInv, TypeInv
<1>1. f \in Pushers /\ f \notin Pulled /\ Pulled \subseteq Feeders /\ Pushers \subseteq Feeders
  BY SwitchesAssumption DEF OrderInv, TakenFirst, Pulled
<1>2. /\ delivered'[s][f] = pusher[f].file /\ pusher[f].file <= taken[f]
      /\ \A t \in Superhubs, g \in Feeders : t # s \/ g # f => delivered'[t][g] = delivered[t][g]
  BY <1>0, <1>1 DEF TypeOK, OrderInv, PushedInOrder
<1>3. pusher'[f].step = "rm" /\ \A g \in Feeders \ {f} : pusher'[g] = pusher[g]
  BY <1>0 DEF TypeOK
<1>4. UNCHANGED <<taken, file, hasDir, wip, pull, job, got>>
  BY DEF feeder, superhub
<1>5. KnownDirs' /\ InOwnDir'
  BY <1>4 DEF OrderInv, KnownDirs, InOwnDir
<1>6. TakenFirst'
  BY <1>1, <1>2, <1>3, <1>4 DEF OrderInv, TakenFirst
<1>7. PushedInOrder'
  BY <1>1, <1>2, <1>3, <1>4 DEF OrderInv, PushedInOrder
<1>8. PulledInOrder'
  <2>1. \A t \in Superhubs, g \in Pulled : delivered'[t][g] = delivered[t][g] /\ g \in Feeders
    BY <1>1, <1>2
  <2>2. \A t \in Superhubs, g \in Pulled : At(t, g, "rsync")' = At(t, g, "rsync") /\ WipOf(t, g)' = WipOf(t, g)
    BY <1>4 DEF At, WipOf
  <2>3. \A t \in Superhubs, g \in Pulled : \A d : May(t, g, d) => May(t, g, d)'
    BY <1>4, <2>1 DEF May
  <2>. QED
    BY <1>4, <2>1, <2>2, <2>3 DEF OrderInv, PulledInOrder
<1>. QED  BY <1>5, <1>6, <1>7, <1>8 DEF OrderInv

LEMMA OrderFeeder ==
    ASSUME WhereInv, TypeOK', OrderInv, NEW f \in Feeders, FeederStep(f)
    PROVE  OrderInv'
<1>0. TypeInv /\ TypeOK
  BY DEF WhereInv, WipInv, TypeInv
<1>1. /\ \A g \in Feeders : pusher[g].step # "idle" => g \in Pushers
      /\ \A s \in Superhubs, g \in Pushers :
           pusher[g].step = "rsync" => delivered[s][g] <= pusher[g].file /\ pusher[g].file <= taken[g]
  BY DEF OrderInv, TakenFirst, PushedInOrder
<1>2. /\ \A g \in Feeders : taken[g] <= taken[g]
      /\ \A s \in Superhubs : s # Top /\ s \in Places
  <2>1. \A g \in Feeders : taken[g] \in 0..MaxDump
    BY <1>0 DEF TypeOK
  <2>. QED  BY <2>1, NamesAssumption, BoundsAssumption DEF Places
<1>3. ASSUME NEW v, file' = [file EXCEPT ![f][Top] = v]
      PROVE  \A s \in Superhubs, g \in Feeders : file'[g][s] = file[g][s]
  BY <1>0, <1>2, <1>3 DEF TypeOK
<1>4. CASE Dump(f)
  <2>1. \A g \in Feeders : taken[g] <= taken'[g]
    <3>1. \A g \in Feeders : taken[g] \in Nat
      BY <1>0, BoundsAssumption DEF TypeOK
    <3>. QED  BY <1>0, <1>4, <3>1 DEF Dump, TypeOK
  <2>2. FilesMoveOn
    BY <1>3, <1>4, <2>1 DEF Dump, FilesMoveOn
  <2>. QED  BY <1>1, <1>4, <2>2, OrderQuiet DEF Dump, superhub
<1>5. ASSUME NEW s \in Superhubs, Link(f, s) PROVE OrderInv'
  <2>1. FilesMoveOn
    <3>1. file[f][Top] \in {0, taken[f]}
      BY DEF WhereInv, NewestAtTop
    <3>2. UNCHANGED taken
      BY <1>5 DEF Link
    <3>3. \A t \in Superhubs, g \in Feeders :
            file'[g][t] = file[g][t] \/ (g = f /\ file'[g][t] = file[f][Top] /\ file[f][Top] # 0)
      BY <1>0, <1>2, <1>5, LinkEffect
    <3>. QED  BY <1>2, <3>1, <3>2, <3>3 DEF FilesMoveOn
  <2>2. \A g \in Feeders : hasDir[g] \subseteq hasDir'[g]
    BY <1>0, <1>5 DEF Link, TypeOK
  <2>. QED  BY <1>1, <1>5, <2>1, <2>2, OrderQuiet DEF Link, superhub
<1>6. CASE DumpDone(f)
  <2>1. FilesMoveOn
    BY <1>2, <1>6 DEF DumpDone, FilesMoveOn
  <2>. QED  BY <1>1, <1>6, <2>1, OrderQuiet DEF DumpDone, superhub
<1>7. CASE PushMove(f)
  <2>1. FilesMoveOn
    BY <1>2, <1>3, <1>7 DEF PushMove, FilesMoveOn
  <2>2. f \in Pushers /\ file[f][Top] = taken[f]
    BY <1>7 DEF PushMove, WhereInv, NewestAtTop
  <2>3. /\ pusher'[f].file = taken[f]
        /\ \A g \in Feeders \ {f} : pusher'[g] = pusher[g]
    BY <1>0, <1>7, <2>2 DEF PushMove, TypeOK
  <2>4. \A s \in Superhubs : delivered[s][f] <= taken[f]
    BY DEF OrderInv, TakenFirst
  <2>. QED
    BY <1>1, <1>2, <1>7, <2>1, <2>2, <2>3, <2>4, SwitchesAssumption, OrderQuiet
       DEF PushMove, superhub
<1>8. CASE PushRemove(f)
  <2>1. FilesMoveOn
    BY <1>2, <1>3, <1>8 DEF PushRemove, FilesMoveOn
  <2>2. pusher'[f].step = "idle" /\ \A g \in Feeders \ {f} : pusher'[g] = pusher[g]
    BY <1>0, <1>8 DEF PushRemove, TypeOK
  <2>. QED
    BY <1>1, <1>8, <2>1, <2>2, SwitchesAssumption, OrderQuiet DEF PushRemove, superhub
<1>9. CASE PushSend(f)
  <2>1. CASE UNCHANGED delivered
    <3>1. FilesMoveOn
      BY <1>2, <1>9 DEF PushSend, FilesMoveOn, feeder
    <3>2. pusher'[f].step = "rm" /\ \A g \in Feeders \ {f} : pusher'[g] = pusher[g]
      BY <1>0, <1>9 DEF PushSend, TypeOK
    <3>. QED
      BY <1>1, <1>9, <2>1, <3>1, <3>2, SwitchesAssumption, OrderQuiet
         DEF PushSend, feeder, superhub
  <2>2. ASSUME NEW s \in Superhubs, delivered' = [delivered EXCEPT ![s][f] = pusher[f].file]
        PROVE  OrderInv'
    BY <1>9, <2>2, OrderPush DEF PushSend
  <2>. QED  BY <1>9, <2>1, <2>2 DEF PushSend
<1>. QED  BY <1>4, <1>5, <1>6, <1>7, <1>8, <1>9 DEF FeederStep

LEMMA OrderJobs ==
    ASSUME WhereInv, TypeOK', DirTestAnswered, OrderInv,
           NEW s \in Superhubs, NEW f \in Feeders, JobStep(s, f)
    PROVE  OrderInv'
<1>0. TypeInv /\ TypeOK /\ WipInv
  BY DEF WhereInv, WipInv, TypeInv
<1>1. /\ OneJob(s, f) /\ pull[s].step = "jobs" /\ pull[s].pid \in Pids
      /\ UNCHANGED <<taken, hasDir, pusher, pull, delivered>>
  BY <1>0, JobTouches DEF OneJob
<1>2. KnownDirs' /\ \A t \in Superhubs : pull'[t].left \subseteq Pulled
  BY <1>1 DEF OrderInv, KnownDirs, TakenFirst
<1>3. InOwnDir'
  <2>1. job'[s][f].step \in Chosen => job'[s][f].place = s
    <3>1. CASE JobChoose(s, f)
      BY <1>0, <3>1, ChoosePlace DEF OrderInv, KnownDirs
    <3>2. CASE ~JobChoose(s, f)
      BY <1>0, <3>2, JobGoesOn DEF SameNames, OrderInv, InOwnDir
    <3>. QED  BY <3>1, <3>2
  <2>. QED  BY <1>1, <2>1, OthersSame DEF OrderInv, InOwnDir
<1>4. FilesMoveOn
  <2>1. \A t \in Superhubs, g \in Feeders : file'[g][t] \in {file[g][t], 0}
    <3>1. CASE JobMove(s, f) /\ file' = [file EXCEPT ![f][job[s][f].place] = 0]
      <4>1. job[s][f].place \in Places
        BY <1>0, <3>1, MoveEffect, JobKnown DEF Chosen
      <4>. QED  BY <1>0, <3>1, <4>1, OrderNumbers, Numbers, FileType
    <3>2. CASE UNCHANGED file
      BY <3>2
    <3>. QED
      BY <1>0, <3>1, <3>2, ChooseEffect, TestEffect, MkdirEffect, MoveEffect, FetchEffect,
         RemoveEffect DEF JobStep
  <2>2. \A g \in Feeders : taken[g] <= taken[g]
    BY <1>0, OrderNumbers
  <2>. QED  BY <1>1, <2>1, <2>2 DEF FilesMoveOn
<1>5. ASSUME NEW t \in Superhubs, NEW g \in Pulled, At(t, g, "rsync")'
      PROVE  \E d \in Int : WipOf(t, g)' = d /\ May(t, g, d)
  <2>1. g \in Feeders
    BY DEF Pulled
  <2>2. CASE t # s \/ g # f
    <3>1. At(t, g, "rsync") /\ AtWork(t, g)
      BY <1>1, <1>5, <2>1, <2>2, OthersSame DEF At, AtWork
    <3>2. WipOf(t, g)' = WipOf(t, g)
      BY <1>0, <1>1, <2>1, <2>2, <3>1, JobTouches, OthersWip
    <3>3. WipOf(t, g) \in Int
      BY <1>0, <2>1, <3>1, JobKnown DEF Chosen
    <3>. QED  BY <3>1, <3>2, <3>3 DEF OrderInv, PulledInOrder, May
  <2>3. CASE t = s /\ g = f
    <3>1. JobMove(s, f) /\ job'[s][f].step = "rsync"
      BY <1>0, <1>5, <2>3, JobGoesOn DEF At
    <3>2. WipGets(s, f, file[f][job[s][f].place]) /\ SameNames(s, f) /\ job[s][f].place = s
      BY <1>0, <1>1, <3>1, MoveEffect DEF OrderInv, InOwnDir, At, Chosen
    <3>3. WipOf(s, f)' = file[f][s]
      BY <3>2 DEF WipGets, SameNames, WipOf
    <3>4. file[f][s] # 0
      <4>1. JobTo(s, f, "failed") => job'[s][f].step = "failed"
        BY <1>0, JobToType DEF JobSteps
      <4>. QED  BY <3>1, <3>2, <4>1 DEF JobMove
    <3>5. file[f][s] \in Int /\ file[f][s] <= taken[f] /\ file[f][s] <= file[f][s]
      BY <1>0, OrderNumbers DEF OrderInv, TakenFirst
    <3>6. delivered[s][f] <= file[f][s]
      BY <2>3, <3>4 DEF OrderInv, PulledInOrder, May
    <3>. QED  BY <2>3, <3>3, <3>5, <3>6 DEF May
  <2>. QED  BY <2>2, <2>3
<1>6. ASSUME NEW t \in Superhubs, NEW g \in Pulled,
             pull'[t].step # "idle", got'[t][pull'[t].pid][g] # 0
      PROVE  \E d \in Int : got'[t][pull'[t].pid][g] = d /\ May(t, g, d)
  <2>1. g \in Feeders /\ pull[t].pid \in Pids /\ pull[t].step # "idle"
    BY <1>0, <1>1, <1>6 DEF Pulled, TypeInv, PidsKnown
  <2>2. got[t][pull[t].pid][g] \in Int
    BY <1>0, <2>1, OrderNumbers
  <2>3. CASE got'[t][pull[t].pid][g] = got[t][pull[t].pid][g]
    BY <1>1, <1>6, <2>1, <2>2, <2>3 DEF OrderInv, PulledInOrder, May
  <2>4. CASE got'[t][pull[t].pid][g] # got[t][pull[t].pid][g]
    <3>1. t = s /\ g = f
      BY <1>0, <2>1, <2>4, JobTouches
    <3>2. ~UNCHANGED got
      BY <2>4
    <3>3. JobFetch(s, f) \/ JobRemove(s, f)
      BY <1>0, <3>2, ChooseEffect, TestEffect, MkdirEffect, MoveEffect DEF JobStep
    <3>4. CASE JobFetch(s, f)
      <4>1. got' = [got EXCEPT ![s][pull[s].pid][f] = WipOf(s, f)] /\ At(s, f, "rsync")
        BY <1>0, <3>2, <3>4, FetchEffect
      <4>2. WipOf(s, f) \in 0..MaxDump
        BY <1>0, <3>4, FetchType
      <4>3. got'[s][pull[s].pid][f] = WipOf(s, f)
        BY <1>0, <3>4, <4>1, FetchType, GotType
      <4>4. May(s, f, WipOf(s, f)) /\ WipOf(s, f) \in Int
        BY <3>1, <4>1, <4>2 DEF OrderInv, PulledInOrder
      <4>5. got'[t][pull'[t].pid][g] = WipOf(s, f)
        BY <1>1, <3>1, <4>3
      <4>6. May(t, g, WipOf(s, f))
        BY <3>1, <4>4 DEF May
      <4>. QED  BY <4>4, <4>5, <4>6
    <3>5. CASE JobRemove(s, f)
      <4>1. got' = [got EXCEPT ![s][pull[s].pid][f] = 0]
        BY <1>0, <3>2, <3>5, RemoveEffect
      <4>2. got'[s][pull[s].pid][f] = 0
        <5>1. /\ 0 \in 0..MaxDump /\ pull[s].pid \in Pids
              /\ got \in [Superhubs -> [Pids -> [Feeders -> 0..MaxDump]]]
          BY <1>0, <1>1, Numbers DEF TypeOK
        <5>. QED  BY <4>1, <5>1
      <4>. QED  BY <1>1, <1>6, <3>1, <4>2
    <3>. QED  BY <3>3, <3>4, <3>5
  <2>. QED  BY <2>3, <2>4
<1>7. /\ \A g \in Feeders : pusher'[g].step # "idle" => g \in Pushers
      /\ \A t \in Superhubs, g \in Pushers :
           pusher'[g].step = "rsync" =>
             delivered[t][g] <= pusher'[g].file /\ pusher'[g].file <= taken[g]
  BY <1>1 DEF OrderInv, TakenFirst, PushedInOrder
<1>. QED  BY <1>0, <1>1, <1>2, <1>3, <1>4, <1>5, <1>6, <1>7, OrderKept

(* Steps of a pull that start it, end it or leave its jobs behind.         *)
LEMMA OrderElsewhere ==
    ASSUME WhereInv, TypeOK', OrderInv, NEW s \in Superhubs,
           UNCHANGED <<taken, file, hasDir, wip, delivered, pusher>>,
           \A t \in Superhubs \ {s} : pull'[t] = pull[t] /\ job'[t] = job[t] /\ got'[t] = got[t],
           \A g \in Feeders : ~At(s, g, "rsync")' /\ (pull'[s].step = "jobs" => job'[s][g].step \notin Chosen),
           pull'[s].left \subseteq Pulled,
           \A g \in Pulled :
             pull'[s].step # "idle" /\ got'[s][pull'[s].pid][g] # 0 =>
               /\ pull[s].step # "idle" /\ pull'[s].pid = pull[s].pid
               /\ got'[s][pull[s].pid][g] = got[s][pull[s].pid][g]
    PROVE  OrderInv'
<1>0. TypeInv /\ TypeOK
  BY DEF WhereInv, WipInv, TypeInv
<1>1. KnownDirs' /\ InOwnDir'
  BY DEF OrderInv, KnownDirs, InOwnDir
<1>2. \A t \in Superhubs : pull'[t].left \subseteq Pulled
  BY DEF OrderInv, TakenFirst
<1>3. FilesMoveOn
  BY <1>0, OrderNumbers DEF FilesMoveOn
<1>4. /\ \A g \in Feeders : pusher'[g].step # "idle" => g \in Pushers
      /\ \A t \in Superhubs, g \in Pushers :
           pusher'[g].step = "rsync" => delivered[t][g] <= pusher'[g].file /\ pusher'[g].file <= taken[g]
  BY DEF OrderInv, TakenFirst, PushedInOrder
<1>5. ASSUME NEW t \in Superhubs, NEW g \in Pulled
      PROVE  /\ At(t, g, "rsync")' => \E d \in Int : WipOf(t, g)' = d /\ May(t, g, d)
             /\ pull'[t].step # "idle" /\ got'[t][pull'[t].pid][g] # 0 =>
                  \E d \in Int : got'[t][pull'[t].pid][g] = d /\ May(t, g, d)
  <2>1. g \in Feeders
    BY DEF Pulled
  <2>2. ASSUME At(t, g, "rsync")' PROVE \E d \in Int : WipOf(t, g)' = d /\ May(t, g, d)
    <3>1. t # s /\ At(t, g, "rsync") /\ WipOf(t, g)' = WipOf(t, g)
      BY <2>1, <2>2 DEF At, WipOf
    <3>2. WipOf(t, g) \in Int
      BY <1>0, <2>1, <3>1, JobKnown DEF Chosen
    <3>. QED  BY <3>1, <3>2 DEF OrderInv, PulledInOrder, May
  <2>3. ASSUME pull'[t].step # "idle", got'[t][pull'[t].pid][g] # 0
        PROVE  \E d \in Int : got'[t][pull'[t].pid][g] = d /\ May(t, g, d)
    <3>1. /\ pull[t].step # "idle" /\ pull'[t].pid = pull[t].pid
          /\ got'[t][pull[t].pid][g] = got[t][pull[t].pid][g]
      BY <2>3
    <3>2. got[t][pull[t].pid][g] \in Int
      BY <1>0, <2>1, <3>1, OrderNumbers DEF TypeInv, PidsKnown
    <3>. QED  BY <2>3, <3>1, <3>2 DEF OrderInv, PulledInOrder, May
  <2>. QED  BY <2>2, <2>3
<1>. QED  BY <1>0, <1>1, <1>2, <1>3, <1>4, <1>5, OrderKept

LEMMA OrderGather ==
    ASSUME WhereInv, TypeOK', OrderInv, NEW s \in Superhubs, NEW f \in Feeders, Gather(s, f)
    PROVE  OrderInv'
<1>0. TypeInv /\ TypeOK /\ pull[s] \in PullRec /\ pull \in [Superhubs -> PullRec]
  BY Shapes DEF WhereInv, WipInv, TypeInv
<1>. DEFINE n == pull[s].pid
<1>1. /\ pull[s].step = "gather" /\ f \in pull[s].left /\ n \in Pids /\ f \in Pulled
      /\ UNCHANGED <<taken, file, hasDir, wip, pusher, job>>
  BY <1>0 DEF Gather, feeder, TypeInv, PidsKnown, OrderInv, TakenFirst
<1>2. ASSUME UNCHANGED <<got, delivered>>, pull' = [pull EXCEPT ![s].left = @ \ {f}]
      PROVE  OrderInv'
  <2>1. /\ pull'[s].step = "gather" /\ pull'[s].pid = n /\ pull'[s].left \subseteq pull[s].left
        /\ \A t \in Superhubs \ {s} : pull'[t] = pull[t]
    BY <1>0, <1>1, <1>2 DEF PullRec
  <2>2. pull'[s].left \subseteq Pulled
    BY <2>1 DEF OrderInv, TakenFirst
  <2>. QED  BY <1>1, <1>2, <2>1, <2>2, OrderElsewhere DEF At
<1>3. ASSUME UNCHANGED <<got, delivered>>, pull' = [pull EXCEPT ![s] = Ended] PROVE OrderInv'
  <2>1. /\ pull'[s].step = "idle" /\ pull'[s].left = {}
        /\ \A t \in Superhubs \ {s} : pull'[t] = pull[t]
    BY <1>0, <1>3 DEF Ended
  <2>. QED  BY <1>1, <1>3, <2>1, OrderElsewhere DEF At
<1>4. ASSUME got[s][n][f] # 0, delivered' = [delivered EXCEPT ![s][f] = got[s][n][f]],
             got' = [got EXCEPT ![s][n][f] = 0], pull' = [pull EXCEPT ![s].left = @ \ {f}]
      PROVE  OrderInv'
  <2>1. /\ pull'[s].step = "gather" /\ pull'[s].pid = n /\ pull'[s].left \subseteq pull[s].left
        /\ \A t \in Superhubs \ {s} : pull'[t] = pull[t]
    BY <1>0, <1>1, <1>4 DEF PullRec
  <2>2. /\ delivered'[s][f] = got[s][n][f]
        /\ \A t \in Superhubs, g \in Feeders : t # s \/ g # f => delivered'[t][g] = delivered[t][g]
    BY <1>0, <1>4 DEF TypeOK
  <2>3. /\ got'[s][n][f] = 0
        /\ \A t \in Superhubs, m \in Pids, g \in Feeders :
             t # s \/ m # n \/ g # f => got'[t][m][g] = got[t][m][g]
    <3>1. 0 \in 0..MaxDump /\ got \in [Superhubs -> [Pids -> [Feeders -> 0..MaxDump]]]
      BY <1>0, Numbers DEF TypeOK
    <3>. QED  BY <1>1, <1>4, <3>1
  <2>4. May(s, f, got[s][n][f])
    BY <1>1, <1>4 DEF OrderInv, PulledInOrder
  <2>5. KnownDirs' /\ InOwnDir'
    BY <1>1, <2>1 DEF OrderInv, KnownDirs, InOwnDir
  <2>6. TakenFirst'
    BY <1>1, <2>1, <2>2, <2>4 DEF OrderInv, TakenFirst, May
  <2>7. PushedInOrder'
    <3>1. \A g \in Pushers : g \in Feeders /\ g # f
      BY <1>1, SwitchesAssumption DEF Pulled
    <3>. QED  BY <1>1, <2>2, <3>1 DEF OrderInv, PushedInOrder
  <2>8. PulledInOrder'
    <3>. SUFFICES ASSUME NEW t \in Superhubs, NEW g \in Pulled
                  PROVE  /\ May(t, g, delivered[t][g])'
                         /\ At(t, g, "rsync")' => May(t, g, WipOf(t, g))'
                         /\ pull'[t].step # "idle" /\ got'[t][pull'[t].pid][g] # 0
                              => May(t, g, got[t][pull[t].pid][g])'
      BY DEF PulledInOrder
    <3>1. g \in Feeders
      BY DEF Pulled
    <3>2. CASE t = s /\ g = f
      <4>1. ~At(t, g, "rsync")' /\ got'[t][pull'[t].pid][g] = 0
        BY <2>1, <2>3, <3>2 DEF At
      <4>2. May(t, g, delivered[t][g])'
        <5>1. got[s][n][f] \in Nat
          BY <1>0, <1>1, OrderNumbers
        <5>2. delivered'[t][g] = got[s][n][f]
          BY <2>2, <3>2
        <5>. QED  BY <1>1, <2>4, <3>2, <5>1, <5>2 DEF May
      <4>. QED  BY <4>1, <4>2
    <3>3. CASE ~(t = s /\ g = f)
      <4>1. delivered'[t][g] = delivered[t][g]
        BY <2>2, <3>1, <3>3
      <4>2. \A d : May(t, g, d) => (delivered'[t][g] <= d /\ d <= taken'[g]
                                      /\ (file'[g][t] # 0 => d <= file'[g][t]))
        BY <1>1, <4>1 DEF May
      <4>3. pull'[t].pid = pull[t].pid /\ pull'[t].step = pull[t].step
        BY <1>1, <2>1
      <4>4. pull[t].step # "idle" => got'[t][pull[t].pid][g] = got[t][pull[t].pid][g]
        BY <1>0, <2>3, <3>1, <3>3 DEF TypeInv, PidsKnown
      <4>5. WipOf(t, g)' = WipOf(t, g) /\ (At(t, g, "rsync")' <=> At(t, g, "rsync"))
        BY <1>1, <4>3 DEF WipOf, At
      <4>. QED
        BY <4>1, <4>2, <4>3, <4>4, <4>5 DEF OrderInv, PulledInOrder, May
    <3>. QED  BY <3>2, <3>3
  <2>. QED  BY <2>5, <2>6, <2>7, <2>8 DEF OrderInv
<1>. QED  BY <1>1, <1>2, <1>3, <1>4 DEF Gather

LEMMA OrderPull ==
    ASSUME WhereInv, TypeOK', OrderInv, NEW s \in Superhubs,
           JobsDone(s) \/ PullDone(s) \/ \E n \in Pids : PullStart(s, n)
    PROVE  OrderInv'
<1>0. TypeInv /\ TypeOK /\ pull[s] \in PullRec /\ pull \in [Superhubs -> PullRec]
  BY Shapes DEF WhereInv, WipInv, TypeInv
<1>1. UNCHANGED <<taken, file, hasDir, wip, delivered, pusher, got>>
  BY DEF JobsDone, PullDone, PullStart, feeder
<1>2. \A t \in Superhubs \ {s} : pull'[t] = pull[t] /\ job'[t] = job[t] /\ got'[t] = got[t]
  BY <1>0, <1>1, Shapes DEF JobsDone, PullDone, PullStart
<1>3. ASSUME NEW n \in Pids, PullStart(s, n) PROVE OrderInv'
  <2>1. pull'[s].step = "jobs" /\ pull'[s].pid = n /\ pull'[s].left = Pulled
    BY <1>0, <1>3 DEF PullStart
  <2>2. \A g \in Feeders : job'[s][g].step \in {"start", "none"}
    BY <1>0, <1>3, Shapes DEF PullStart, NoJob
  <2>3. \A g \in Feeders : got'[s][n][g] = 0
    BY <1>1, <1>3 DEF PullStart, MayStart, WhereInv, WorkDirs
  <2>4. \A g \in Pulled : g \in Feeders
    BY DEF Pulled
  <2>. QED  BY <1>1, <1>2, <2>1, <2>2, <2>3, <2>4, OrderElsewhere DEF At, Chosen
<1>4. CASE JobsDone(s)
  <2>1. pull'[s].step = "gather" /\ pull'[s].pid = pull[s].pid /\ pull'[s].left = pull[s].left
    BY <1>0, <1>4 DEF JobsDone, PullRec
  <2>2. pull[s].step # "idle" /\ pull'[s].left \subseteq Pulled
    BY <1>4, <2>1 DEF JobsDone, OrderInv, TakenFirst
  <2>. QED  BY <1>1, <1>2, <2>1, <2>2, OrderElsewhere DEF At
<1>5. CASE PullDone(s)
  <2>1. pull'[s].step = "idle" /\ pull'[s].left = {}
    BY <1>0, <1>5 DEF PullDone, Ended
  <2>. QED  BY <1>1, <1>2, <2>1, OrderElsewhere DEF At
<1>. QED  BY <1>3, <1>4, <1>5

LEMMA OrderNext ==
    ASSUME DirTestAnswered, WhereInv, OrderInv, [Next]_vars PROVE OrderInv'
<1>0. TypeInv /\ TypeOK /\ TypeOK'
  BY WipNext DEF WhereInv, WipInv, TypeInv
<1>1. ASSUME NEW f \in Feeders, FeederStep(f) PROVE OrderInv'
  BY <1>0, <1>1, OrderFeeder
<1>2. ASSUME NEW s \in Superhubs, PullStep(s) PROVE OrderInv'
  BY <1>0, <1>2, OrderJobs, OrderGather, OrderPull DEF PullStep, JobStep
<1>3. ASSUME UNCHANGED <<taken, file, hasDir, wip, delivered, pull, job, got>>,
             \A f \in Feeders : pusher'[f].step # "idle" => pusher'[f] = pusher[f]
      PROVE  OrderInv'
  <2>1. FilesMoveOn
    BY <1>0, <1>3, OrderNumbers DEF FilesMoveOn
  <2>2. \A f \in Pushers : f \in Feeders
    BY SwitchesAssumption
  <2>3. /\ \A f \in Feeders : pusher'[f].step # "idle" => f \in Pushers
        /\ \A s \in Superhubs, f \in Pushers :
             pusher'[f].step = "rsync" =>
               delivered[s][f] <= pusher'[f].file /\ pusher'[f].file <= taken[f]
    BY <1>3, <2>2 DEF OrderInv, TakenFirst, PushedInOrder
  <2>. QED  BY <1>0, <1>3, <2>1, <2>3, OrderQuiet
<1>4. ASSUME NEW s \in Superhubs, NEW f \in Feeders, Consume(s, f) PROVE OrderInv'
  BY <1>3, <1>4 DEF Consume, feeder, superhub
<1>5. CASE Crash
  <2>1. ASSUME NEW f \in Feeders, pusher' = [pusher EXCEPT ![f] = [step |-> "idle", file |-> 0]]
        PROVE  \A g \in Feeders : pusher'[g].step # "idle" => pusher'[g] = pusher[g]
    BY <1>0, <2>1 DEF TypeOK
  <2>2. ASSUME NEW s \in Superhubs, pull' = [pull EXCEPT ![s] = Ended],
               job' = [job EXCEPT ![s] = [f \in Feeders |-> NoJob]],
               UNCHANGED <<taken, file, hasDir, wip, delivered, pusher, got>>
        PROVE  OrderInv'
    <3>1. /\ pull'[s].step = "idle" /\ pull'[s].left = {}
          /\ \A t \in Superhubs \ {s} : pull'[t] = pull[t] /\ job'[t] = job[t]
      BY <1>0, <2>2, Shapes DEF Ended
    <3>2. \A t \in Superhubs \ {s} : pull'[t] = pull[t] /\ job'[t] = job[t] /\ got'[t] = got[t]
      BY <2>2, <3>1
    <3>3. \A g \in Feeders : ~At(s, g, "rsync")'
      BY <3>1 DEF At
    <3>. QED  BY <1>0, <2>2, <3>1, <3>2, <3>3, OrderElsewhere
  <2>. QED  BY <1>3, <1>5, <2>1, <2>2 DEF Crash
<1>6. CASE UNCHANGED vars
  BY <1>3, <1>6 DEF vars, feeder, superhub
<1>. QED  BY <1>1, <1>2, <1>4, <1>5, <1>6 DEF Next

(* What a step does to the dumps taken and delivered.                      *)
LEMMA OneView ==
    ASSUME TypeOK, NEW s \in Superhubs, NEW f \in Feeders, NEW d \in Nat,
           delivered[s][f] <= d, d <= taken[f], UNCHANGED taken,
           delivered' = [delivered EXCEPT ![s][f] = d], NEW t \in Superhubs
    PROVE  View(t)!Next \/ UNCHANGED <<taken, delivered[t]>>
<1>1. delivered \in [Superhubs -> [Feeders -> 0..MaxDump]]
  BY DEF TypeOK
<1>2. CASE t # s \/ d = delivered[s][f]
  BY <1>1, <1>2
<1>3. CASE t = s /\ d # delivered[s][f]
  <2>1. delivered'[t] = [delivered[t] EXCEPT ![f] = d]
    BY <1>1, <1>3
  <2>2. delivered[t][f] \in Nat /\ taken[f] \in Nat
    BY OrderNumbers
  <2>3. d \in (delivered[t][f] + 1) .. taken[f]
    BY <1>3, <2>2
  <2>4. View(t)!Refresh(f)
    BY <2>1, <2>3 DEF View!Refresh
  <2>. QED  BY <2>4 DEF View!Next
<1>. QED  BY <1>2, <1>3

LEMMA ViewStep ==
    ASSUME WhereInv, OrderInv, [Next]_vars, NEW t \in Superhubs
    PROVE  View(t)!Next \/ UNCHANGED <<taken, delivered[t]>>
<1>0. TypeInv /\ TypeOK
  BY DEF WhereInv, WipInv, TypeInv
<1>1. ASSUME NEW f \in Feeders, FeederStep(f)
      PROVE  View(t)!Next \/ UNCHANGED <<taken, delivered[t]>>
  <2>1. CASE Dump(f)
    <3>1. View(t)!Publish(f)
      BY <2>1 DEF Dump, View!Publish
    <3>. QED  BY <3>1 DEF View!Next
  <2>2. CASE PushSend(f)
    <3>1. ASSUME NEW s \in Superhubs, delivered' = [delivered EXCEPT ![s][f] = pusher[f].file]
          PROVE  View(t)!Next \/ UNCHANGED <<taken, delivered[t]>>
      <4>1. f \in Pushers /\ pusher[f].step = "rsync"
        BY <2>2 DEF PushSend, OrderInv, TakenFirst
      <4>2. delivered[s][f] <= pusher[f].file /\ pusher[f].file <= taken[f] /\ pusher[f].file \in Nat
        BY <1>0, <4>1, OrderNumbers DEF OrderInv, PushedInOrder
      <4>3. UNCHANGED taken
        BY <2>2 DEF PushSend, feeder
      <4>. QED  BY <1>0, <3>1, <4>2, <4>3, OneView
    <3>. QED  BY <2>2, <3>1 DEF PushSend, feeder
  <2>3. CASE ~Dump(f) /\ ~PushSend(f)
    BY <1>1, <2>3 DEF FeederStep, DumpDone, PushMove, PushRemove, Link
  <2>. QED  BY <2>1, <2>2, <2>3
<1>2. ASSUME NEW s \in Superhubs, NEW f \in Feeders, Gather(s, f)
      PROVE  View(t)!Next \/ UNCHANGED <<taken, delivered[t]>>
  <2>. DEFINE d == got[s][pull[s].pid][f]
  <2>1. pull[s].step = "gather" /\ f \in Pulled /\ pull[s].pid \in Pids /\ UNCHANGED taken
    BY <1>0, <1>2 DEF Gather, feeder, TypeInv, PidsKnown, OrderInv, TakenFirst
  <2>2. ASSUME d # 0, delivered' = [delivered EXCEPT ![s][f] = d]
        PROVE  View(t)!Next \/ UNCHANGED <<taken, delivered[t]>>
    <3>1. delivered[s][f] <= d /\ d <= taken[f] /\ d \in Nat
      BY <1>0, <2>1, <2>2, OrderNumbers DEF OrderInv, PulledInOrder, May
    <3>. QED  BY <1>0, <2>1, <2>2, <3>1, OneView
  <2>. QED  BY <1>2, <2>1, <2>2 DEF Gather
<1>3. ASSUME NEW s \in Superhubs, PullStep(s), \A f \in Feeders : ~Gather(s, f)
      PROVE  UNCHANGED <<taken, delivered[t]>>
  BY <1>3
     DEF PullStep, JobsDone, PullDone, PullStart, JobChoose, JobTest, JobMkdir, JobMove, JobFetch,
         JobRemove, feeder
<1>4. (\E s \in Superhubs, f \in Feeders : Consume(s, f)) \/ Crash \/ UNCHANGED vars
        => UNCHANGED <<taken, delivered[t]>>
  BY DEF Consume, Crash, vars, feeder
<1>. QED  BY <1>1, <1>2, <1>3, <1>4 DEF Next

(* Every superhub sees a FeederView of the dumps taken, whatever fails, is *)
(* killed or left over, for any number of superhubs that pull and feeders  *)
(* that push at the same time: a dump never arrives after a later one of   *)
(* its feeder (dump.sh:68-79, transport.sh:40-115, pull_dumps_from.sh:     *)
(* 48-62).  The hypotheses are that `test -d' is answered and that every   *)
(* superhub has its directory, without which a job takes the dump at the   *)
(* top and may leave an older one in the directory for the next            *)
(* (pull_dumps_from.sh:36-46).                                             *)
THEOREM DumpsInOrder == ASSUME DirTestAnswered, Superhubs \subseteq Known PROVE Spec => InOrder
<1>1. Init => WhereInv /\ OrderInv
  BY WhereInit, OrderInit
<1>2. WhereInv /\ OrderInv /\ [Next]_vars => (WhereInv /\ OrderInv)'
  BY WhereNext, OrderNext
<1>3. Init => \A s \in Superhubs : View(s)!Init
  <2>. SUFFICES ASSUME Init, NEW s \in Superhubs PROVE View(s)!Init
    OBVIOUS
  <2>. QED  BY DEF Init, View!Init
<1>4. WhereInv /\ OrderInv /\ [Next]_vars
        => [\A s \in Superhubs : View(s)!Next \/ UNCHANGED <<taken, delivered[s]>>]_vars
  BY ViewStep
<1>. QED  BY <1>1, <1>2, <1>3, <1>4, PTL DEF Spec, InOrder
=============================================================================
