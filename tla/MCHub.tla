-------------------------------- MODULE MCHub --------------------------------
(***************************************************************************)
(* Programs of the superhub and of its agent, for TLC: the loop over       *)
(* parallel jobs, a custom promise module built with the one library or    *)
(* the other, the certificates and the accounts of the distributed clean   *)
(* up, and the database wrapper.  They share no state here, so a behaviour *)
(* has one of them, and the variables of the others stay as they start.    *)
(***************************************************************************)
EXTENDS ParallelRun, TLC

CONSTANTS NoRequest, Promisers,                           \* of the promise modules
          Declared, Automatic, PyNames, PyValues,
          ShNames, ShValues, EmptyLine, Swallowed, Required, Optional, AllValid,
          Feeders, Superhub, f1, f2,
          MaxTime, MaxEdits, MaxCertFaults,               \* of HubCertificates
          HubList, MaxSetups, MaxAccountFaults,           \* of HubAccounts
          MaxAttempts, NoCode, MaxPsqlFaults              \* of PsqlWrapper

(* A required integer and a true/false one; names that are not declared    *)
(* can be sent too.  The feeders in the order of the list.                 *)
MCDeclared ==
  "count" :> [typing |-> "int", required |-> TRUE, validator |-> TRUE]
  @@ "flag" :> [typing |-> "true/false", required |-> FALSE, validator |-> FALSE]
MCHubList == <<f1, f2>>

VARIABLES program,
          pyAgent, pyAsked, pyReply, resultClasses, pyEnded,
          shAgent, shAsked, shReply, shell, classes, shEnded, earlier,
          clock, certs, attached, copy, bundle, atFeeder, transfer, edits, faults,
          account, secret, setups, request, requestFaults,
          ensured, attempt, psql, out, code, changed, unheard, psqlFaults

pyVars == <<pyAgent, pyAsked, pyReply, resultClasses, pyEnded>>
shVars == <<shAgent, shAsked, shReply, shell, classes, shEnded, earlier>>
certVars == <<clock, certs, attached, copy, bundle, atFeeder, transfer, edits, faults>>
accountVars == <<account, secret, setups, request, requestFaults>>
psqlVars == <<ensured, attempt, psql, out, code, changed, unheard, psqlFaults>>
hubPrograms == <<program, vars, pyVars, shVars, certVars, accountVars, psqlVars>>

Py == INSTANCE PromiseModulePy WITH
  Names <- PyNames, Values <- PyValues,
  agentUp <- pyAgent, asked <- pyAsked, reply <- pyReply, ended <- pyEnded

Sh == INSTANCE PromiseModuleSh WITH
  Names <- ShNames, Values <- ShValues, Empty <- EmptyLine,
  agentUp <- shAgent, asked <- shAsked, reply <- shReply, ended <- shEnded

Certs == INSTANCE HubCertificates WITH
  MaxFaults <- MaxCertFaults, made <- certs, script <- transfer

Accounts == INSTANCE HubAccounts WITH
  MaxFaults <- MaxAccountFaults, script <- request, faults <- requestFaults

Psql == INSTANCE PsqlWrapper WITH
  MaxFaults <- MaxPsqlFaults, exit <- code, faults <- psqlFaults

ASSUME HubAssumption ==
  /\ Py!ConstantsOK /\ Sh!ConstantsOK
  /\ Certs!ConstantsOK /\ Accounts!ConstantsOK /\ Psql!ConstantsOK

HubInit ==
  /\ program \in {"parallel", "python", "shell", "certs", "accounts", "psql"}
  /\ Init /\ Py!Init /\ Sh!Init /\ Certs!Init /\ Accounts!Init /\ Psql!Init

InParallel(A) ==
  program = "parallel" /\ A /\ UNCHANGED <<program, pyVars, shVars, certVars, accountVars, psqlVars>>
InPy(A) ==
  program = "python" /\ A /\ UNCHANGED <<program, vars, shVars, certVars, accountVars, psqlVars>>
InSh(A) ==
  program = "shell" /\ A /\ UNCHANGED <<program, vars, pyVars, certVars, accountVars, psqlVars>>
InCerts(A) ==
  program = "certs" /\ A /\ UNCHANGED <<program, vars, pyVars, shVars, accountVars, psqlVars>>
InAccounts(A) ==
  program = "accounts" /\ A /\ UNCHANGED <<program, vars, pyVars, shVars, certVars, psqlVars>>
InPsql(A) ==
  program = "psql" /\ A /\ UNCHANGED <<program, vars, pyVars, shVars, certVars, accountVars>>

HubNext ==
  \/ InParallel(Next) \/ InPy(Py!Next) \/ InSh(Sh!Next)
  \/ InCerts(Certs!Next) \/ InAccounts(Accounts!Next) \/ InPsql(Psql!Next)

(* The shell goes on when it can and every job ends some time, the module  *)
(* in Python goes on, and the agent starts the script for the certificates *)
(* again and again, which then goes on.                                    *)
HubSpec ==
  /\ HubInit /\ [][HubNext]_hubPrograms
  /\ WF_hubPrograms(InParallel(Next)) /\ WF_hubPrograms(InPy(Py!Handle))
  /\ WF_hubPrograms(InCerts(Certs!Start)) /\ WF_hubPrograms(InCerts(Certs!Script))

HubTypeOK ==
  TypeOK /\ Py!TypeOK /\ Sh!TypeOK /\ Certs!TypeOK /\ Accounts!TypeOK /\ Psql!TypeOK

ValidMeansReadable == Py!ValidMeansReadable
OwnClasses == Py!OwnClasses /\ Sh!OwnClasses
RequiredPresentOrStale == Sh!RequiredPresentOrStale
Promised == Py!Promised /\ Sh!Promised
CertsSpread == Certs!CertsSpread
Implements == Accounts!Implements
Report == Psql!Report

(* The function run_in_parallel returns, whatever the order in which its   *)
(* jobs end (parallel.sh:68-91), and a module built with the Python        *)
(* library does not outlive the agent that started it (cfengine.py:22-29). *)
Ends ==
  []<>(/\ program = "parallel" => pc = "returned"
       /\ program = "python" => pyAgent \/ pyEnded)
=============================================================================
