-------------------------- MODULE DistributedCleanup --------------------------
(***************************************************************************)
(* distributed_cleanup.py, which runs on the superhub after the imports    *)
(* and removes a host from the feeders it has migrated away from: which    *)
(* hosts it picks from the superhub's tables, what it deletes on the       *)
(* feeder and then on the superhub, and the accounts and the password file *)
(* that its interactive setup makes.                                       *)
(*                                                                         *)
(* Hosts report to their feeder, feeders are dumped, and dumps reach the   *)
(* superhub in order (FRTransport, FRImport) while the script runs.  A     *)
(* host's row at a feeder is the time of the last report; 0 is "no row".   *)
(***************************************************************************)
EXTENDS Integers, Sequences, FiniteSets

CONSTANTS
  Hosts,
  Feeders,
  HubList,       \* the feeders in the order of the fr/remote-hub API
  Superhub,      \* its account; not a feeder
  NoDump,
  MaxTime,       \* bound: reports of all hosts
  MaxMoves,      \* bound: migrations of all hosts
  MaxSetups,     \* bound: interactive setups, each with a new password
  MaxFaults      \* bound: API calls and SQL that fail, second factors asked for, and kills

ASSUME HubsAssumption ==
  HubList \in Seq(Feeders) /\ HubList # <<>> /\ {HubList[i] : i \in 1..Len(HubList)} = Feeders
ASSUME NamesAssumption == Superhub \notin Feeders
ASSUME BoundsAssumption ==
  MaxTime \in Nat /\ MaxMoves \in Nat /\ MaxSetups \in Nat /\ MaxFaults \in Nat

Times == 0..MaxTime
Rows == [Hosts -> Times]
ASSUME NoDumpAssumption == NoDump \notin Rows

VARIABLES
  home,          \* the feeder each host reports to
  clock,         \* time of the last report of any host
  moves,
  known,         \* known[f][h]: row of h in the database of feeder f
  deleting,      \* deletions that a feeder has accepted and not done yet
  dump, arrived, \* the dump a feeder has taken, and the one the superhub has got
  hosts,         \* hosts[f]: rows of __hosts under feeder f, on the superhub
  seen,          \* seen[f][h]: newest INCOMING row of __lastseenhosts under f
  account,       \* password of the fr_distributed_cleanup user, 0 without user
  secret,        \* the password file, 0 when there is none
  setups,
  run,           \* the script: step, feeder, hosts to delete, deleted ones, was the last status 200
  faults,
  left,          \* history: the feeders a host has moved away from
  moved,         \* history: the time of its last move
  returned       \* history: hosts that moved to a feeder they had left

world == <<home, clock, moves, left, moved, returned>>
feeders == <<known, deleting, dump>>
accounts == <<account, secret, setups>>
vars == <<world, feeders, arrived, hosts, seen, accounts, run, faults>>

Steps == {"idle", "setup", "secret", "status", "query", "delete"}
Idle == [step |-> "idle", at |-> 1, pw |-> 0, todo |-> {}, done |-> {}, ok |-> TRUE]

TypeOK ==
  /\ home \in [Hosts -> Feeders] /\ clock \in Times /\ moves \in 0..MaxMoves
  /\ known \in [Feeders -> Rows] /\ deleting \in [Feeders -> SUBSET Hosts]
  /\ dump \in [Feeders -> Rows \cup {NoDump}] /\ arrived \in [Feeders -> Rows \cup {NoDump}]
  /\ hosts \in [Feeders -> SUBSET Hosts] /\ seen \in [Feeders -> Rows]
  /\ account \in [Feeders \cup {Superhub} -> 0..MaxSetups]
  /\ secret \in 0..MaxSetups /\ setups \in 0..MaxSetups
  /\ run \in [step : Steps, at : 1..Len(HubList), pw : 0..MaxSetups,
              todo : SUBSET Hosts, done : SUBSET Hosts, ok : BOOLEAN]
  /\ faults \in 0..MaxFaults
  /\ left \in [Hosts -> SUBSET Feeders] /\ moved \in [Hosts -> Times] /\ returned \in SUBSET Hosts

Nothing == [h \in Hosts |-> 0]

Init ==
  /\ home \in [Hosts -> Feeders] /\ clock = 0 /\ moves = 0
  /\ known = [f \in Feeders |-> Nothing] /\ deleting = [f \in Feeders |-> {}]
  /\ dump = [f \in Feeders |-> NoDump] /\ arrived = dump
  /\ hosts = [f \in Feeders |-> {}] /\ seen = known
  /\ account = [x \in Feeders \cup {Superhub} |-> 0] /\ secret = 0 /\ setups = 0
  /\ run = Idle /\ faults = 0
  /\ left = [h \in Hosts |-> {}] /\ moved = Nothing /\ returned = {}

Fault == faults < MaxFaults /\ faults' = faults + 1
NoFault == UNCHANGED faults

-----------------------------------------------------------------------------
(* What goes on around the script                                          *)

Move(h, f) ==
  /\ f # home[h] /\ moves < MaxMoves /\ moves' = moves + 1
  /\ left' = [left EXCEPT ![h] = @ \cup {home[h]}]
  /\ returned' = IF f \in left[h] THEN returned \cup {h} ELSE returned
  /\ home' = [home EXCEPT ![h] = f]
  /\ moved' = [moved EXCEPT ![h] = clock]
  /\ UNCHANGED <<clock, feeders, arrived, hosts, seen, accounts, run, faults>>

Report(h) ==
  /\ clock < MaxTime /\ clock' = clock + 1
  /\ known' = [known EXCEPT ![home[h]][h] = clock + 1]
  /\ UNCHANGED <<home, moves, left, moved, returned, deleting, dump, arrived, hosts, seen,
                 accounts, run, faults>>

(* A feeder carries out a deletion it has accepted.                        *)
CarryOut(f, h) ==
  /\ h \in deleting[f]
  /\ deleting' = [deleting EXCEPT ![f] = @ \ {h}]
  /\ known' = [known EXCEPT ![f][h] = 0]
  /\ UNCHANGED <<world, dump, arrived, hosts, seen, accounts, run, faults>>

Dump(f) ==
  /\ dump' = [dump EXCEPT ![f] = known[f]]
  /\ UNCHANGED <<world, known, deleting, arrived, hosts, seen, accounts, run, faults>>

Deliver(f) ==
  /\ dump[f] # NoDump
  /\ arrived' = [arrived EXCEPT ![f] = dump[f]]
  /\ dump' = [dump EXCEPT ![f] = NoDump]
  /\ UNCHANGED <<world, known, deleting, hosts, seen, accounts, run, faults>>

(* import.sh attaches the schema of the feeder in one transaction.         *)
Import(f) ==
  /\ arrived[f] # NoDump
  /\ hosts' = [hosts EXCEPT ![f] = {h \in Hosts : arrived[f][h] > 0}]
  /\ seen' = [seen EXCEPT ![f] = arrived[f]]
  /\ arrived' = [arrived EXCEPT ![f] = NoDump]
  /\ UNCHANGED <<world, feeders, accounts, run, faults>>

-----------------------------------------------------------------------------
(* The interactive setup                                                   *)

around == <<world, feeders, arrived, hosts, seen>>

(* Removing the password file asks for a new setup.                        *)
RemoveSecret ==
  /\ secret # 0 /\ setups < MaxSetups /\ run.step = "idle"
  /\ secret' = 0
  /\ UNCHANGED <<around, account, setups, run, faults>>

WithHubAccount_None(pw) == account
WithHubAccount(pw) == [account EXCEPT ![Superhub] = pw]

(* A password is made up and the superhub's user gets it; without an       *)
(* answer the script ends, with the user changed.                          *)
SetupSuperhub ==
  /\ run.step = "idle" /\ secret = 0 /\ setups < MaxSetups
  /\ setups' = setups + 1
  /\ account' = WithHubAccount(setups + 1)
  /\ \/ run' = [Idle EXCEPT !.step = "setup", !.pw = setups + 1] /\ NoFault
     \/ run' = Idle /\ Fault
  /\ UNCHANGED <<around, secret>>

(* A call that fails may still have given the feeder's user the password.  *)
WithAccount(f, pw) == [account EXCEPT ![f] = pw]

SetupFeeder ==
  /\ run.step = "setup"
  /\ \/ /\ account' = WithAccount(HubList[run.at], run.pw) /\ NoFault
        /\ run' = [run EXCEPT !.step = "secret"]
     \/ account' \in {account, WithAccount(HubList[run.at], run.pw)} /\ Fault /\ run' = Idle
  /\ UNCHANGED <<around, secret, setups>>

(* The password file is written in the loop, after every feeder, and        *)
(* nobody looks whether cf-secret succeeds; after the last feeder the      *)
(* script reads it and goes on to clean up.                                *)
WriteSecret ==
  /\ run.step = "secret"
  /\ \/ secret' = run.pw /\ NoFault
     \/ UNCHANGED secret /\ Fault
  /\ run' = IF run.at < Len(HubList) THEN [run EXCEPT !.step = "setup", !.at = @ + 1]
            ELSE IF secret' = 0 THEN Idle
            ELSE [run EXCEPT !.step = "status", !.at = 1]
  /\ UNCHANGED <<around, account, setups>>

(* --setup-feeder for one feeder, with the password there is.              *)
SetupOneFeeder(f) ==
  /\ run.step = "idle" /\ secret # 0 /\ account[f] # secret
  /\ account' = WithAccount(f, secret)
  /\ \/ run' = [Idle EXCEPT !.step = "status", !.pw = secret] /\ NoFault
     \/ run' = Idle /\ Fault
  /\ UNCHANGED <<around, secret, setups>>

-----------------------------------------------------------------------------
(* The clean up                                                            *)

hub == HubList[run.at]

NextHub_Ends(ok) == Idle

(* The next feeder of the list, or the end of the script.                  *)
NextHub(ok) ==
  IF run.at = Len(HubList) THEN Idle
  ELSE [run EXCEPT !.step = "status", !.at = @ + 1, !.todo = {}, !.done = {}, !.ok = ok]

(* A wrong password for the superhub ends the script with an exception.    *)
Begin ==
  /\ run.step = "idle" /\ secret # 0 /\ account[Superhub] = secret
  /\ run' = [Idle EXCEPT !.step = "status", !.pw = secret]
  /\ UNCHANGED <<around, accounts, faults>>

StatusOk ==
  /\ run.step = "status" /\ account[hub] = run.pw
  /\ run' = [run EXCEPT !.step = "query", !.ok = TRUE]
  /\ UNCHANGED <<around, accounts, faults>>

(* Without the right password or the second factor, a run on a terminal     *)
(* sets the feeder up, and then tests the status of the last response      *)
(* before that; other runs skip the feeder.                                *)
StatusUnauthenticated ==
  /\ run.step = "status"
  /\ \/ /\ run' = NextHub(run.ok) /\ UNCHANGED account
        /\ IF account[hub] = run.pw THEN Fault ELSE NoFault
     \/ /\ account' = WithAccount(hub, run.pw) /\ NoFault
        /\ run' = IF run.ok THEN [run EXCEPT !.step = "query"] ELSE NextHub(FALSE)
     \/ account' \in {account, WithAccount(hub, run.pw)} /\ Fault /\ run' = Idle
  /\ UNCHANGED <<around, secret, setups>>

(* A status other than 200 skips the feeder; no connection ends the script.*)
StatusFails ==
  /\ run.step = "status" /\ Fault
  /\ run' \in {NextHub(FALSE), Idle}
  /\ UNCHANGED <<around, accounts>>

Candidates_Anywhere(f) == {h \in hosts[f] : \E g \in Feeders \ {f} : seen[g][h] > 0}

(* Hosts with a row under this feeder whose newest time is under another.  *)
Newest(h, t) == \A g \in Feeders : seen[g][h] <= t
Candidates(f) ==
  {h \in hosts[f] : \E g \in Feeders \ {f} : seen[g][h] > 0 /\ Newest(h, seen[g][h])}

(* The query for the feeder's hub_id comes first; if it fails, the feeder is *)
(* skipped, if the query for the candidates fails, the script ends.        *)
Query ==
  /\ run.step = "query"
  /\ \/ /\ Candidates(hub) # {} /\ NoFault
        /\ run' = [run EXCEPT !.step = "delete", !.todo = Candidates(hub), !.ok = TRUE]
     \/ Candidates(hub) = {} /\ NoFault /\ run' = NextHub(TRUE)
     \/ run' \in {NextHub(FALSE), Idle} /\ Fault
  /\ UNCHANGED <<around, accounts>>

(* Only a host that both API calls have deleted is removed from the        *)
(* superhub too; one that the feeder does not have can be refused.         *)
DeleteHost(h) ==
  /\ run.step = "delete" /\ h \in run.todo
  /\ \/ /\ deleting' = [deleting EXCEPT ![hub] = @ \cup {h}] /\ NoFault
        /\ run' = [run EXCEPT !.todo = @ \ {h}, !.done = @ \cup {h}]
     \/ /\ \/ Fault /\ deleting' \in {deleting, [deleting EXCEPT ![hub] = @ \cup {h}]}
           \/ known[hub][h] = 0 /\ UNCHANGED <<deleting, faults>>
        /\ run' = [run EXCEPT !.todo = @ \ {h}]
  /\ UNCHANGED <<world, known, dump, arrived, hosts, seen, accounts>>

(* The statements are no transaction and a failing one does not stop the   *)
(* others, so a failure removes any part of the rows; then the script ends,*)
(* or goes on: a connection that fails or is lost is no "ERROR" of psql's. *)
HostRows(f, gone) == [hosts EXCEPT ![f] = @ \ gone]
SeenRows(f, gone) ==
  [seen EXCEPT ![f] = [h \in Hosts |-> IF h \in gone THEN 0 ELSE seen[f][h]]]

PostSql ==
  /\ run.step = "delete" /\ run.todo = {}
  /\ \/ /\ hosts' = HostRows(hub, run.done) /\ seen' = SeenRows(hub, run.done)
        /\ run' = NextHub(TRUE) /\ NoFault
     \/ /\ hosts' \in {hosts, HostRows(hub, run.done)}
        /\ seen' \in {seen, SeenRows(hub, run.done)}
        /\ run.done # {} /\ run' \in {NextHub(TRUE), Idle} /\ Fault
  /\ UNCHANGED <<world, feeders, arrived, accounts>>

Kill == run.step # "idle" /\ Fault /\ run' = Idle /\ UNCHANGED <<around, accounts>>

-----------------------------------------------------------------------------
Script ==
  \/ SetupFeeder \/ WriteSecret \/ StatusOk \/ StatusUnauthenticated \/ StatusFails
  \/ Query \/ (\E h \in Hosts : DeleteHost(h)) \/ PostSql

Next ==
  \/ \E h \in Hosts, f \in Feeders : Move(h, f) \/ CarryOut(f, h)
  \/ \E h \in Hosts : Report(h)
  \/ \E f \in Feeders : Dump(f) \/ Deliver(f) \/ Import(f) \/ SetupOneFeeder(f)
  \/ RemoveSecret \/ SetupSuperhub \/ Begin \/ Script \/ Kill

Spec == Init /\ [][Next]_vars

(* cf-agent dumps, transports, imports and starts the script again and     *)
(* again, the feeders carry deletions out, and the administrator sets up   *)
(* feeders that the script can not log in to.                              *)
FairSpec ==
  /\ Spec
  /\ \A f \in Feeders : /\ WF_vars(Dump(f)) /\ WF_vars(Deliver(f)) /\ WF_vars(Import(f))
                        /\ SF_vars(SetupOneFeeder(f))
                        /\ \A h \in Hosts : WF_vars(CarryOut(f, h))
  /\ WF_vars(SetupSuperhub) /\ WF_vars(Begin) /\ WF_vars(Script)

-----------------------------------------------------------------------------
(* A feeder is never asked to delete a host that did not move away from    *)
(* it, however old the superhub's rows are and whatever fails              *)
(* (distributed_cleanup.py:343-400).                                       *)
OnlyWhereLeft == \A f \in Feeders : \A h \in deleting[f] : f \in left[h]

(* The superhub never loses the last row of a host that does not move back *)
(* to a feeder it left: neither the clean up nor an import without the     *)
(* host comes before the rows of the feeder it moved to                    *)
(* (distributed_cleanup.py:343-452).                                       *)
OnSuperhub(h) == \E f \in Feeders : h \in hosts[f]
LastRowKept == [][\A h \in Hosts \ returned' : OnSuperhub(h) => OnSuperhub(h)']_vars

(* The password file, once there is one, opens the superhub's own API; if  *)
(* it did not, every run would end in an exception until someone removed   *)
(* the file (distributed_cleanup.py:142-227, 276-280).                     *)
SecretFits == secret # 0 => account[Superhub] = secret

(* Each host ends up under one feeder at most, though dumps taken before a *)
(* deletion bring its rows back (distributed_cleanup.py:307-452).          *)
UnderOneFeeder(h) == Cardinality({f \in Feeders : h \in hosts[f]}) <= 1
CleanedUp == \A h \in Hosts : <>[](secret # 0 => UnderOneFeeder(h))
=============================================================================
