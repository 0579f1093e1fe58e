----------------------------- MODULE HostProofs -----------------------------
(***************************************************************************)
(* Proofs about MCHost, the composition of the policy update, the CMDB     *)
(* data and the watchdog, for every set of files, hosts, pids and daemons  *)
(* and every bound: each program keeps its invariant, which the proofs     *)
(* about its component give, and the others stand still.                   *)
(***************************************************************************)
EXTENDS MCHost, PolicyUpdateProofs

CmdbP == INSTANCE CmdbDataProofs WITH
  MaxFaults <- MaxCmdbFaults, stamp <- cmdbStamp, faults <- cmdbFaults

DogP == INSTANCE WatchdogProofs WITH
  MaxFaults <- MaxDogFaults, pc <- watch, listed <- killing, faults <- watchFaults

ProgramsInv == ServerInv /\ CmdbP!CmdbInv /\ DogP!DogInv

-----------------------------------------------------------------------------
(* The component and the proofs about it are the same specification.       *)

LEMMA SameCmdb ==
    /\ Cmdb!ConstantsOK <=> CmdbP!ConstantsOK
    /\ Cmdb!Init <=> CmdbP!Init
    /\ Cmdb!Next <=> CmdbP!Next
    /\ Cmdb!TypeOK <=> CmdbP!TypeOK
    /\ Cmdb!HostFilesFit <=> CmdbP!HostFilesFit
<1>. USE DEF Cmdb!Times, CmdbP!Times, Cmdb!Versions, CmdbP!Versions, Cmdb!Runs, CmdbP!Runs,
             Cmdb!None, CmdbP!None, Cmdb!Idle, CmdbP!Idle, Cmdb!Fault, CmdbP!Fault
<1>1. /\ Cmdb!ConstantsOK <=> CmdbP!ConstantsOK
      /\ Cmdb!Init <=> CmdbP!Init
      /\ Cmdb!TypeOK <=> CmdbP!TypeOK
      /\ Cmdb!HostFilesFit <=> CmdbP!HostFilesFit
  BY DEF Cmdb!ConstantsOK, CmdbP!ConstantsOK, Cmdb!Init, CmdbP!Init, Cmdb!TypeOK, CmdbP!TypeOK,
         Cmdb!HostFilesFit, CmdbP!HostFilesFit, Cmdb!Vouched, CmdbP!Vouched
<1>2. /\ Cmdb!Seed <=> CmdbP!Seed
      /\ Cmdb!Request <=> CmdbP!Request
      /\ Cmdb!WriteStamp <=> CmdbP!WriteStamp
      /\ \A h \in Hosts : Cmdb!WriteFile(h) <=> CmdbP!WriteFile(h)
  BY DEF Cmdb!Seed, CmdbP!Seed, Cmdb!Request, CmdbP!Request, Cmdb!Todo, CmdbP!Todo,
         Cmdb!Changed, CmdbP!Changed, Cmdb!Previous, CmdbP!Previous,
         Cmdb!WriteStamp, CmdbP!WriteStamp, Cmdb!FilesWritten, CmdbP!FilesWritten,
         Cmdb!NextStamp, CmdbP!NextStamp, Cmdb!WriteFile, CmdbP!WriteFile
<1>3. /\ Cmdb!RequestFails <=> CmdbP!RequestFails
      /\ Cmdb!Kill <=> CmdbP!Kill
      /\ Cmdb!LoseStamp <=> CmdbP!LoseStamp
      /\ \A h \in Hosts : (Cmdb!Change(h) <=> CmdbP!Change(h)) /\ (Cmdb!Copy(h) <=> CmdbP!Copy(h))
  BY DEF Cmdb!RequestFails, CmdbP!RequestFails, Cmdb!Kill, CmdbP!Kill,
         Cmdb!LoseStamp, CmdbP!LoseStamp, Cmdb!Change, CmdbP!Change,
         Cmdb!Answered, CmdbP!Answered, Cmdb!Copy, CmdbP!Copy
<1>. QED
  BY <1>1, <1>2, <1>3 DEF Cmdb!Next, CmdbP!Next, Cmdb!Bundle, CmdbP!Bundle

LEMMA SameDog ==
    /\ Dog!ConstantsOK <=> DogP!ConstantsOK
    /\ Dog!Init <=> DogP!Init
    /\ Dog!Next <=> DogP!Next
    /\ Dog!TypeOK <=> DogP!TypeOK
    /\ Dog!OneAtATime <=> DogP!OneAtATime
    /\ Dog!DatabasesFree <=> DogP!DatabasesFree
<1>. USE DEF Dog!watchdogs, DogP!watchdogs, Dog!Looking, DogP!Looking, Dog!Working, DogP!Working,
             Dog!Fault, DogP!Fault, Dog!Alive, DogP!Alive, Dog!Goes, DogP!Goes, Dog!Ends, DogP!Ends
<1>1. /\ Dog!ConstantsOK <=> DogP!ConstantsOK
      /\ Dog!Init <=> DogP!Init
      /\ Dog!TypeOK <=> DogP!TypeOK
      /\ Dog!OneAtATime <=> DogP!OneAtATime
      /\ Dog!DatabasesFree <=> DogP!DatabasesFree
  BY DEF Dog!ConstantsOK, DogP!ConstantsOK, Dog!Init, DogP!Init, Dog!TypeOK, DogP!TypeOK,
         Dog!OneAtATime, DogP!OneAtATime, Dog!DatabasesFree, DogP!DatabasesFree
<1>2. ASSUME NEW p \in Pids PROVE Dog!Step(p) <=> DogP!Step(p)
  BY DEF Dog!Step, DogP!Step, Dog!Look, DogP!Look, Dog!Taken, DogP!Taken, Dog!Claim, DogP!Claim,
         Dog!Check, DogP!Check, Dog!ListProcs, DogP!ListProcs, Dog!KillDaemon, DogP!KillDaemon,
         Dog!Purge, DogP!Purge, Dog!Killed, DogP!Killed, Dog!TryAgain, DogP!TryAgain,
         Dog!Restart, DogP!Restart, Dog!Verify, DogP!Verify
<1>3. ASSUME NEW p \in Pids
      PROVE  /\ Dog!Cron(p) <=> DogP!Cron(p)
             /\ Dog!OtherStarts(p) <=> DogP!OtherStarts(p)
             /\ Dog!OtherEnds(p) <=> DogP!OtherEnds(p)
             /\ Dog!Signal(p) <=> DogP!Signal(p)
             /\ Dog!Sigkill(p) <=> DogP!Sigkill(p)
  BY DEF Dog!Cron, DogP!Cron, Dog!OtherStarts, DogP!OtherStarts, Dog!OtherEnds, DogP!OtherEnds,
         Dog!Signal, DogP!Signal, Dog!Sigkill, DogP!Sigkill
<1>4. ASSUME NEW d \in Daemons
      PROVE  /\ Dog!DaemonDies(d) <=> DogP!DaemonDies(d)
             /\ Dog!StartedElsewhere(d) <=> DogP!StartedElsewhere(d)
  BY DEF Dog!DaemonDies, DogP!DaemonDies, Dog!StartedElsewhere, DogP!StartedElsewhere
<1>. QED
  BY <1>1, <1>2, <1>3, <1>4 DEF Dog!Next, DogP!Next

-----------------------------------------------------------------------------
LEMMA Constants == CmdbP!ConstantsOK /\ DogP!ConstantsOK
BY ProgramsAssumption, SameCmdb, SameDog

LEMMA ProgramsInit == HostInit => ProgramsInv
<1>. SUFFICES ASSUME HostInit PROVE ProgramsInv
  OBVIOUS
<1>1. ServerInv
  BY TypeInit DEF HostInit
<1>2. CmdbP!CmdbInv
  BY Constants, SameCmdb, CmdbP!InitInv DEF HostInit
<1>3. DogP!DogInv
  BY Constants, SameDog, DogP!OneInit DEF HostInit
<1>. QED
  BY <1>1, <1>2, <1>3 DEF ProgramsInv

LEMMA ProgramsStep == ProgramsInv /\ [HostNext]_hostPrograms => ProgramsInv'
<1>. SUFFICES ASSUME ProgramsInv, [HostNext]_hostPrograms PROVE ProgramsInv'
  OBVIOUS
<1>1. [Next]_vars /\ [CmdbP!Next]_(CmdbP!vars) /\ [DogP!Next]_(DogP!vars)
  <2>1. CASE Policy(Next)
    BY <2>1 DEF Policy, cmdbVars, watchVars, CmdbP!vars, DogP!vars, DogP!watchdogs
  <2>2. CASE InCmdb(Cmdb!Next)
    BY <2>2, SameCmdb DEF InCmdb, watchVars, DogP!vars, DogP!watchdogs
  <2>3. CASE InDog(Dog!Next)
    BY <2>3, SameDog DEF InDog, cmdbVars, CmdbP!vars
  <2>4. CASE UNCHANGED hostPrograms
    BY <2>4 DEF hostPrograms, cmdbVars, watchVars, CmdbP!vars, DogP!vars, DogP!watchdogs
  <2>. QED
    BY <2>1, <2>2, <2>3, <2>4 DEF HostNext
<1>2. ServerInv'
  BY <1>1, TypeStep DEF ProgramsInv
<1>3. CmdbP!CmdbInv'
  BY <1>1, Constants, CmdbP!CmdbNext DEF ProgramsInv
<1>4. DogP!DogInv'
  BY <1>1, Constants, DogP!DogNext DEF ProgramsInv
<1>. QED
  BY <1>2, <1>3, <1>4 DEF ProgramsInv

LEMMA ProgramsInvariant == HostSpec => []ProgramsInv
BY ProgramsInit, ProgramsStep, PTL DEF HostSpec

LEMMA InvPromises ==
    ASSUME ProgramsInv
    PROVE  HostTypeOK /\ HostFilesFit /\ OneAtATime /\ DatabasesFree
<1>1. TypeOK /\ Cmdb!TypeOK /\ Dog!TypeOK
  BY SameCmdb, SameDog DEF ProgramsInv, ServerInv, CmdbP!CmdbInv, DogP!DogInv, DogP!OneInv
<1>2. HostFilesFit
  BY SameCmdb, CmdbP!CmdbFits DEF ProgramsInv, HostFilesFit
<1>3. OneAtATime /\ DatabasesFree
  BY SameDog, DogP!DogPromises DEF ProgramsInv, OneAtATime, DatabasesFree
<1>. QED
  BY <1>1, <1>2, <1>3 DEF HostTypeOK

(* Every variable of the three programs keeps its type, whatever is        *)
(* published, fails, is killed or gets lost.                               *)
THEOREM TypesOfAll == HostSpec => []HostTypeOK
BY ProgramsInvariant, InvPromises, PTL

(* Whatever fails, is killed or gets lost, the files of the hosts have     *)
(* every change that the state file vouches for (update_policy.cf:405-504).*)
THEOREM FilesOfHostsFit == HostSpec => []HostFilesFit
BY ProgramsInvariant, InvPromises, PTL

(* Unless two watchdogs start close together, one at a time works          *)
(* (watchdog.mustache:52-80).                                              *)
THEOREM WatchdogAlone == HostSpec => []OneAtATime
BY ProgramsInvariant, InvPromises, PTL

(* When databases are purged no daemon runs, unless a signal or a daemon   *)
(* started from elsewhere interferes (watchdog.mustache:263-297).          *)
THEOREM PurgedUnderNoDaemon == HostSpec => []DatabasesFree
BY ProgramsInvariant, InvPromises, PTL
=============================================================================
