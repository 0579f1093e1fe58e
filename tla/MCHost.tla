------------------------------- MODULE MCHost -------------------------------
(***************************************************************************)
(* Programs that keep one host going, for TLC: the policy update, the CMDB *)
(* data of a hub, and the watchdog.  They share no state, so a behaviour   *)
(* has one of them, and the variables of the others stay as they start.    *)
(***************************************************************************)
EXTENDS MCPolicyUpdate

CONSTANTS Hosts, NoFile, Bad, MaxTime, MaxChanges, MaxCmdbFaults,             \* of CmdbData
          Pids, NoPid, Daemons, Execd, HasProc, Overlaps, Tries, MaxDogFaults \* of Watchdog

VARIABLES program,
          epoch, data, changedAt, cmdbStamp, file, host, run, cmdbFaults, lost, tied,
          pidfile, young, others, watch, dir, killing, try, up, broken, meddled, watchFaults

cmdbVars == <<epoch, data, changedAt, cmdbStamp, file, host, run, cmdbFaults, lost, tied>>
watchVars == <<pidfile, young, others, watch, dir, killing, try, up, broken, meddled, watchFaults>>
hostPrograms == <<program, vars, cmdbVars, watchVars>>

Cmdb == INSTANCE CmdbData WITH
  MaxFaults <- MaxCmdbFaults, stamp <- cmdbStamp, faults <- cmdbFaults

Dog == INSTANCE Watchdog WITH
  MaxFaults <- MaxDogFaults, pc <- watch, listed <- killing, faults <- watchFaults

ASSUME ProgramsAssumption == Cmdb!ConstantsOK /\ Dog!ConstantsOK

HostInit ==
  /\ program \in {"policy", "cmdb", "watchdog"}
  /\ Init /\ (program # "policy" => hub /\ disabled)
  /\ Cmdb!Init /\ Dog!Init

Policy(A) == program = "policy" /\ A /\ UNCHANGED <<program, cmdbVars, watchVars>>
InCmdb(A) == program = "cmdb" /\ A /\ UNCHANGED <<program, vars, watchVars>>
InDog(A) == program = "watchdog" /\ A /\ UNCHANGED <<program, vars, cmdbVars>>

HostNext == Policy(Next) \/ InCmdb(Cmdb!Next) \/ InDog(Dog!Next)

HostSpec ==
  /\ HostInit /\ [][HostNext]_hostPrograms
  /\ WF_hostPrograms(Policy(Agent)) /\ WF_hostPrograms(Policy(Validate))
  /\ WF_hostPrograms(InCmdb(Cmdb!Bundle))
  /\ \A h \in Hosts : WF_hostPrograms(InCmdb(Cmdb!Copy(h)))
  /\ WF_hostPrograms(InDog(Dog!Started))
  /\ \A p \in Pids : WF_hostPrograms(InDog(Dog!Step(p)))

HostTypeOK == TypeOK /\ Cmdb!TypeOK /\ Dog!TypeOK
HostFilesFit == Cmdb!HostFilesFit
Arrives == Cmdb!Arrives
OneAtATime == Dog!OneAtATime
DatabasesFree == Dog!DatabasesFree
ExecdStays == Dog!ExecdStays
=============================================================================
