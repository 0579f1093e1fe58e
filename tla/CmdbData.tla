------------------------------ MODULE CmdbData ------------------------------
(***************************************************************************)
(* Host specific data on their way from the CMDB of the hub to the hosts   *)
(* (update_policy.cf): agent runs of the hub ask for the changes since the *)
(* time in a state file, write a file for each host that changed and then  *)
(* the time for the next request; hosts copy their file.                   *)
(*                                                                         *)
(* Times are seconds, so several changes can have the same.  A version of  *)
(* a host's data is a number, 0 when there are none.                       *)
(***************************************************************************)
EXTENDS Naturals

CONSTANTS
  Hosts,
  NoFile, Bad,     \* no state file, and one without a number
  MaxTime,         \* bound: seconds in which data change
  MaxChanges,      \* bound: changes of each host's data
  MaxFaults        \* bound: failing requests and writes, kills, lost state files

ConstantsOK ==
  NoFile \notin Nat /\ Bad \notin Nat /\ NoFile # Bad /\ {MaxTime, MaxChanges, MaxFaults} \subseteq Nat

VARIABLES
  epoch,           \* time of the last change
  data, changedAt, \* of each host: version in the CMDB and time of its change
  stamp,           \* the state file: where the next request starts
  file,            \* file[h]: the version in the hub's file for h
  host,            \* host[h]: the version that h has
  run,             \* a run of the bundle: files still to write, the answer, its time
  faults,
  lost,            \* history: hosts whose file could not be written
  tied             \* history: hosts that changed in a second there was an answer for

vars == <<epoch, data, changedAt, stamp, file, host, run, faults, lost, tied>>

Times == 0..MaxTime
Versions == [Hosts -> 0..MaxChanges]
Runs == [on : BOOLEAN, todo : SUBSET Hosts, answer : Versions, next : Times]
None == [h \in Hosts |-> 0]
Idle == [on |-> FALSE, todo |-> {}, answer |-> None, next |-> 0]

TypeOK ==
  /\ epoch \in Times /\ data \in Versions /\ changedAt \in [Hosts -> Times]
  /\ stamp \in Times \cup {NoFile, Bad} /\ file \in Versions /\ host \in Versions
  /\ run \in Runs /\ faults \in 0..MaxFaults
  /\ lost \in SUBSET Hosts /\ tied \in SUBSET Hosts

Init ==
  /\ epoch = 0 /\ data = None /\ changedAt = None
  /\ stamp = NoFile /\ file = None /\ host = None /\ run = Idle
  /\ faults = 0 /\ lost = {} /\ tied = {}

Fault == faults < MaxFaults /\ faults' = faults + 1

-----------------------------------------------------------------------------
Answered(t) == t = stamp \/ (run.on /\ t = run.next)

Change(h) ==
  /\ data[h] < MaxChanges /\ data' = [data EXCEPT ![h] = @ + 1]
  /\ epoch' \in {epoch, epoch + 1} /\ epoch' \in 1..MaxTime
  /\ changedAt' = [changedAt EXCEPT ![h] = epoch']
  /\ tied' = IF Answered(epoch') THEN tied \cup {h} ELSE tied \ {h}
  /\ UNCHANGED <<stamp, file, host, run, faults, lost>>

-----------------------------------------------------------------------------
(* The hub                                                                 *)

Seed ==
  /\ ~run.on /\ stamp = NoFile
  /\ stamp' = 0
  /\ UNCHANGED <<epoch, data, changedAt, file, host, run, faults, lost, tied>>

(* What is no number counts as 0.                                          *)
Previous == IF stamp \in Times THEN stamp ELSE 0

Changed == {h \in Hosts : changedAt[h] > 0 /\ changedAt[h] >= Previous}

(* Files are written when the answer is newer than the state file says.    *)
Todo == IF epoch > Previous THEN Changed ELSE {}

Request ==
  /\ ~run.on /\ stamp # NoFile
  /\ run' = [on |-> TRUE, todo |-> Todo, answer |-> data, next |-> epoch]
  /\ UNCHANGED <<epoch, data, changedAt, stamp, file, host, faults, lost, tied>>

(* An answer that is no JSON gives no files, and no time or nonsense.      *)
RequestFails ==
  /\ ~run.on /\ stamp # NoFile /\ Fault
  /\ stamp' \in {stamp, Bad}
  /\ UNCHANGED <<epoch, data, changedAt, file, host, run, lost, tied>>

WriteFile(h) ==
  /\ run.on /\ h \in run.todo
  /\ run' = [run EXCEPT !.todo = @ \ {h}]
  /\ \/ /\ file' = [file EXCEPT ![h] = run.answer[h]] /\ lost' = lost \ {h}
        /\ tied' = IF run.answer[h] = data[h] THEN tied \ {h} ELSE tied
        /\ UNCHANGED faults
     \/ Fault /\ lost' = lost \cup {h} /\ UNCHANGED <<file, tied>>
  /\ UNCHANGED <<epoch, data, changedAt, stamp, host>>

FilesWritten_Any == TRUE
FilesWritten == run.todo = {}

(* The time is only written when it is another one.                        *)
NextStamp == IF run.next = Previous THEN stamp ELSE run.next

WriteStamp ==
  /\ run.on /\ FilesWritten
  /\ \/ stamp' = NextStamp /\ UNCHANGED faults
     \/ UNCHANGED stamp /\ Fault
  /\ run' = Idle
  /\ UNCHANGED <<epoch, data, changedAt, file, host, lost, tied>>

Kill ==
  /\ run.on /\ Fault /\ run' = Idle
  /\ UNCHANGED <<epoch, data, changedAt, stamp, file, host, lost, tied>>

LoseStamp ==
  /\ stamp # NoFile /\ ~run.on /\ Fault /\ stamp' = NoFile
  /\ UNCHANGED <<epoch, data, changedAt, file, host, run, lost, tied>>

-----------------------------------------------------------------------------
(* A host copies its file.                                                 *)
Copy(h) ==
  /\ host' = [host EXCEPT ![h] = file[h]]
  /\ UNCHANGED <<epoch, data, changedAt, stamp, file, run, faults, lost, tied>>

Bundle == Seed \/ Request \/ (\E h \in Hosts : WriteFile(h)) \/ WriteStamp
Next ==
  \/ \E h \in Hosts : Change(h) \/ Copy(h)
  \/ Bundle \/ RequestFails \/ Kill \/ LoseStamp

Spec == Init /\ [][Next]_vars
FairSpec == Spec /\ WF_vars(Bundle) /\ \A h \in Hosts : WF_vars(Copy(h))

-----------------------------------------------------------------------------
(* The state file vouches for the files: a change before its time, or of   *)
(* its second unless that second had been asked for already, is in the     *)
(* host's file, whatever failed or was killed, unless that file could not  *)
(* be written (update_policy.cf:405-504).                                  *)
Vouched(h) ==
  /\ stamp \in Nat /\ h \notin lost
  /\ changedAt[h] < stamp \/ (changedAt[h] = stamp /\ h \notin tied)
HostFilesFit == \A h \in Hosts : Vouched(h) => file[h] = data[h]

(* In the end every host has its data, but for writes that failed and      *)
(* changes that came after the answer for their second.                    *)
Arrives == <>[]\A h \in Hosts \ (lost \cup tied) : host[h] = data[h]
=============================================================================
