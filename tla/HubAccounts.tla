----------------------------- MODULE HubAccounts -----------------------------
(***************************************************************************)
(* distributed_cleanup.py one request at a time: every call of the API of  *)
(* the superhub and of the feeders, with the answers and exceptions that   *)
(* nova_api.py makes of them, and the password file that cfsecret.py       *)
(* writes and reads.  It implements DistributedCleanup, where the setup of *)
(* a hub is one step, whatever its roles and rights: those calls only      *)
(* decide whether the script goes on to the user.                          *)
(***************************************************************************)
EXTENDS Integers, Sequences

CONSTANTS Feeders, HubList, Superhub, MaxSetups, MaxFaults

ConstantsOK ==
  /\ HubList \in Seq(Feeders) /\ HubList # <<>> /\ Superhub \notin Feeders
  /\ MaxSetups \in Nat /\ MaxFaults \in Nat

VARIABLES
  account, secret, setups,   \* as in DistributedCleanup
  script,                    \* next request, hub, password, was the last status 200, why a hub is set up
  faults                     \* failures after the script has changed something

vars == <<account, secret, setups, script, faults>>

Requests == {"off", "hub status", "remote hubs", "login", "role", "rights", "user", "write secret",
             "read secret", "check", "list", "status", "email", "query"}
Off == [next |-> "off", at |-> 0, pw |-> 0, ok |-> TRUE, why |-> "setup"]

TypeOK ==
  /\ account \in [Feeders \cup {Superhub} -> 0..MaxSetups]
  /\ secret \in 0..MaxSetups /\ setups \in 0..MaxSetups /\ faults \in 0..MaxFaults
  /\ script \in [next : Requests, at : 0..Len(HubList), pw : 0..MaxSetups, ok : BOOLEAN,
                 why : {"setup", "one feeder", "terminal", "cleanup"}]

Init ==
  /\ account = [x \in Feeders \cup {Superhub} |-> 0] /\ secret = 0 /\ setups = 0
  /\ script = Off /\ faults = 0

-----------------------------------------------------------------------------
(* What the script has done so far, in the terms of DistributedCleanup     *)

(* Until the superhub's user, or the one feeder's, is changed, and until   *)
(* the list of feeders is there, nothing has happened.                     *)
Started ==
  CASE script.why = "setup"      -> script.at > 0 /\ (script.next = "read secret" => secret # 0)
    [] script.why = "one feeder" -> script.next \in {"check", "list", "status", "query"}
    [] script.why = "terminal"   -> TRUE
    [] OTHER                     -> script.next \in {"status", "query"}

AbstractStep ==
  CASE script.why = "setup" /\ script.next \in {"login", "role", "rights", "user"} -> "setup"
    [] script.next = "write secret" -> "secret"
    [] script.next = "query" -> "query"
    [] OTHER -> "status"

FirstAgain == script.next \in {"read secret", "check", "list"}

AbstractRun ==
  IF Started
  THEN [step |-> AbstractStep, at |-> IF FirstAgain THEN 1 ELSE script.at, pw |-> script.pw,
        todo |-> {}, done |-> {}, ok |-> script.ok]
  ELSE [step |-> "idle", at |-> 1, pw |-> 0, todo |-> {}, done |-> {}, ok |-> TRUE]

(* No host is anywhere: DistributedCleanup alone has the hosts.            *)
NoOne == [h \in {} |-> 0]
NoRows == [f \in Feeders |-> NoOne]
NoHosts == [f \in Feeders |-> {}]
NoDumps == [f \in Feeders |-> <<0>>]
Cleanup == INSTANCE DistributedCleanup WITH
  Hosts <- {}, NoDump <- <<0>>, MaxTime <- 0, MaxMoves <- 0, run <- AbstractRun,
  home <- NoOne, clock <- 0, moves <- 0, left <- NoOne, moved <- NoOne, returned <- {},
  known <- NoRows, deleting <- NoHosts, dump <- NoDumps, arrived <- NoDumps, hosts <- NoHosts, seen <- NoRows

-----------------------------------------------------------------------------
Fault == faults < MaxFaults /\ faults' = faults + 1
NoFault == UNCHANGED faults

(* An exception or an exit; it counts when the script had changed or begun *)
(* something.                                                              *)
Exits ==
  /\ script' = Off
  /\ IF Started \/ account' # account THEN Fault ELSE NoFault

Goes(to) == script' = [script EXCEPT !.next = to] /\ NoFault

(* A request after which the script goes on or ends, and that changes      *)
(* nothing it will look at.                                                *)
Request(this, to) == script.next = this /\ UNCHANGED <<account, secret, setups>> /\ (Goes(to) \/ Exits)

(* _build_response: 401 and a refused or missing second factor become      *)
(* exceptions, urllib3 raises one when there is no connection, any other   *)
(* status is left to the caller.                                           *)
Refusals == {"401", "401 second factor"}
Responses == {"200", "201", "500", "no connection"} \cup Refusals

hub == IF script.at = 0 THEN Superhub ELSE HubList[script.at]

-----------------------------------------------------------------------------
(* The interactive setup                                                   *)

StartSetup ==
  /\ script.next = "off" /\ secret = 0 /\ setups < MaxSetups
  /\ script' = [Off EXCEPT !.next = "hub status", !.pw = setups + 1]
  /\ UNCHANGED <<account, secret, setups, faults>>

(* The administrator's password, and the second factor if asked for one.   *)
HubStatus == Request("hub status", "remote hubs")
RemoteHubs == Request("remote hubs", "role")

(* Only the exceptions of the status end the setup of a feeder.            *)
Login == Request("login", "role")
PutRole == Request("role", "rights")
PutRights == Request("rights", "user")

(* Where the setup of a hub leads: the first feeder, the password file,    *)
(* the clean up, or back to the feeder whose status was asked for.         *)
NextHub(ok) ==
  IF script.at = Len(HubList) THEN Off
  ELSE [script EXCEPT !.next = "status", !.at = @ + 1, !.ok = ok, !.why = "cleanup"]

AfterUser ==
  CASE script.why = "terminal" ->
         IF script.ok THEN [script EXCEPT !.next = "query", !.why = "cleanup"] ELSE NextHub(FALSE)
    [] script.why = "one feeder" -> [script EXCEPT !.next = "check"]
    [] script.at = 0 -> [script EXCEPT !.next = "login", !.at = 1]
    [] OTHER -> [script EXCEPT !.next = "write secret"]

(* The API may carry a request out and still answer something else, and    *)
(* no other status than 201 will do.                                       *)
Done_Any(r) == TRUE
Done(r) == r = "201"

PutUser ==
  /\ script.next = "user"
  /\ \E r \in Responses :
       /\ \/ r \notin Refusals /\ account' = [account EXCEPT ![hub] = script.pw]
          \/ r # "201" /\ UNCHANGED account
       /\ IF Done(r) THEN script' = AfterUser /\ NoFault ELSE Exits
  /\ setups' = IF script.at = 0 /\ account' # account THEN setups + 1 ELSE setups
  /\ UNCHANGED secret

(* write_secret does not look at the status of cf-secret.                  *)
WriteSecret ==
  /\ script.next = "write secret"
  /\ \/ secret' = script.pw /\ NoFault
     \/ UNCHANGED secret /\ Fault
  /\ script' = IF script.at < Len(HubList) THEN [script EXCEPT !.next = "login", !.at = @ + 1]
               ELSE [script EXCEPT !.next = "read secret"]
  /\ UNCHANGED <<account, setups>>

RemoveSecret ==
  /\ script.next = "off" /\ secret # 0 /\ setups < MaxSetups
  /\ secret' = 0
  /\ UNCHANGED <<account, setups, script, faults>>

-----------------------------------------------------------------------------
(* The clean up                                                            *)

Start ==
  /\ script.next = "off" /\ secret # 0
  /\ script' = [Off EXCEPT !.next = "read secret", !.why = "cleanup"]
  /\ UNCHANGED <<account, secret, setups, faults>>

(* --setup-feeder.                                                         *)
StartOneFeeder(i) ==
  /\ script.next = "off" /\ secret # 0
  /\ script' = [Off EXCEPT !.next = "login", !.at = i, !.pw = secret, !.why = "one feeder"]
  /\ UNCHANGED <<account, secret, setups, faults>>

(* read_secret raises an exception when cf-secret fails, and the other     *)
(* requests are made with what it has read.                                *)
ReadSecret ==
  /\ script.next = "read secret"
  /\ UNCHANGED <<account, secret, setups>>
  /\ \/ secret # 0 /\ script' = [script EXCEPT !.next = "check", !.pw = secret] /\ NoFault
     \/ Exits

Check ==
  /\ script.next = "check"
  /\ UNCHANGED <<account, secret, setups>>
  /\ (account[Superhub] = script.pw /\ Goes("list")) \/ Exits

(* The list of feeders; without one the loop has nothing to do.            *)
List ==
  /\ script.next = "list"
  /\ UNCHANGED <<account, secret, setups>>
  /\ \/ script' = [script EXCEPT !.next = "status", !.at = 1, !.ok = TRUE, !.why = "cleanup"] /\ NoFault
     \/ Exits

RightPassword == account[hub] = script.pw
StatusResponses == {"401 second factor", "500", "no connection"}
                   \cup (IF RightPassword THEN {"200"} ELSE {"401"})

(* On a terminal a 401 sets the feeder up, elsewhere it is skipped.        *)
Status ==
  /\ script.next = "status"
  /\ UNCHANGED <<account, secret, setups>>
  /\ \E r \in StatusResponses :
       CASE r = "200" -> script' = [script EXCEPT !.next = "query", !.ok = TRUE] /\ NoFault
         [] r \in Refusals ->
              \/ script' = NextHub(script.ok) /\ IF RightPassword THEN Fault ELSE NoFault
              \/ script' = [script EXCEPT !.next = "email", !.why = "terminal"] /\ NoFault
         [] r = "no connection" -> Exits
         [] OTHER -> script' = NextHub(FALSE) /\ Fault

(* The user's mail address, or one made up of the name of the hub.         *)
Email == Request("email", "login")

(* The queries and deletions, see DistributedCleanup.                      *)
Query ==
  /\ script.next = "query"
  /\ \/ script' = NextHub(TRUE) /\ NoFault
     \/ script' \in {NextHub(FALSE), Off} /\ Fault
  /\ UNCHANGED <<account, secret, setups>>

Kill == script.next # "off" /\ UNCHANGED <<account, secret, setups>> /\ Exits

Next ==
  \/ StartSetup \/ HubStatus \/ RemoteHubs \/ Login \/ PutRole \/ PutRights \/ PutUser
  \/ WriteSecret \/ RemoveSecret
  \/ Start \/ (\E i \in 1..Len(HubList) : StartOneFeeder(i)) \/ ReadSecret \/ Check \/ List
  \/ Status \/ Email \/ Query \/ Kill

Spec == Init /\ [][Next]_vars

-----------------------------------------------------------------------------
(* Whatever each request is answered and wherever the script is cut off,   *)
(* what it does to users and password file is a behaviour of               *)
(* DistributedCleanup, and so the file opens the superhub's API            *)
(* (distributed_cleanup.py:67-341, nova_api.py:113-139, cfsecret.py).      *)
Implements == Cleanup!Spec
=============================================================================
