----------------------- MODULE DistributedCleanupProofs -----------------------
(***************************************************************************)
(* Proofs about DistributedCleanup: types, the password file, that a host  *)
(* is deleted only on feeders it has moved away from, and that the         *)
(* superhub does not lose the hosts it knows.                              *)
(***************************************************************************)
EXTENDS DistributedCleanup, TLAPS

Step == Next \/ UNCHANGED vars

(* What the constants say about the list of feeders.                       *)
LEMMA HubListFacts ==
  /\ Len(HubList) \in Nat /\ Len(HubList) >= 1
  /\ \A i \in 1..Len(HubList) : HubList[i] \in Feeders
<1>1. Len(HubList) \in Nat /\ HubList \in Seq(Feeders) /\ HubList # <<>>
  BY HubsAssumption
<1>2. Len(HubList) >= 1
  BY <1>1
<1>3. \A i \in 1..Len(HubList) : HubList[i] \in Feeders
  BY <1>1
<1>. QED  BY <1>1, <1>2, <1>3

RunSet == [step : Steps, at : 1..Len(HubList), pw : 0..MaxSetups,
           todo : SUBSET Hosts, done : SUBSET Hosts, ok : BOOLEAN]

LEMMA IdleType == Idle \in RunSet
<1>1. 0 \in 0..MaxSetups /\ 1 \in 1..Len(HubList)
  BY HubListFacts, BoundsAssumption
<1>2. "idle" \in Steps
  BY DEF Steps
<1>3. {} \in SUBSET Hosts /\ TRUE \in BOOLEAN
  OBVIOUS
<1>. QED  BY <1>1, <1>2, <1>3 DEF Idle, RunSet

LEMMA NextHubType ==
  ASSUME run \in RunSet, NEW ok \in BOOLEAN
  PROVE  NextHub(ok) \in RunSet
<1>1. CASE run.at = Len(HubList)
  BY <1>1, IdleType DEF NextHub
<1>2. CASE run.at # Len(HubList)
  <2>1. run.at + 1 \in 1..Len(HubList)
    BY <1>2, HubListFacts DEF RunSet
  <2>2. NextHub(ok) = [run EXCEPT !.step = "status", !.at = @ + 1, !.todo = {}, !.done = {}, !.ok = ok]
    BY <1>2 DEF NextHub
  <2>3. "status" \in Steps
    BY DEF Steps
  <2>. QED  BY <2>1, <2>2, <2>3 DEF RunSet
<1>. QED  BY <1>1, <1>2

LEMMA HubType == run \in RunSet => hub \in Feeders
BY HubListFacts DEF hub, RunSet

-----------------------------------------------------------------------------
(* Types, one lemma for each group of variables                            *)

WorldType ==
  /\ home \in [Hosts -> Feeders] /\ clock \in Times /\ moves \in 0..MaxMoves
  /\ left \in [Hosts -> SUBSET Feeders] /\ moved \in [Hosts -> Times] /\ returned \in SUBSET Hosts

FeedersType ==
  /\ known \in [Feeders -> Rows] /\ deleting \in [Feeders -> SUBSET Hosts]
  /\ dump \in [Feeders -> Rows \cup {NoDump}]

TablesType ==
  /\ arrived \in [Feeders -> Rows \cup {NoDump}]
  /\ hosts \in [Feeders -> SUBSET Hosts] /\ seen \in [Feeders -> Rows]

AccountsType ==
  /\ account \in [Feeders \cup {Superhub} -> 0..MaxSetups]
  /\ secret \in 0..MaxSetups /\ setups \in 0..MaxSetups

LEMMA TypeParts ==
  TypeOK <=> WorldType /\ FeedersType /\ TablesType /\ AccountsType /\ run \in RunSet
                       /\ faults \in 0..MaxFaults
BY DEF TypeOK, WorldType, FeedersType, TablesType, AccountsType, RunSet

LEMMA WorldKept == UNCHANGED world /\ WorldType => WorldType'
BY DEF world, WorldType

LEMMA FeedersKept == UNCHANGED feeders /\ FeedersType => FeedersType'
BY DEF feeders, FeedersType

LEMMA TablesKept == UNCHANGED <<arrived, hosts, seen>> /\ TablesType => TablesType'
BY DEF TablesType

LEMMA AccountsKept == UNCHANGED accounts /\ AccountsType => AccountsType'
BY DEF accounts, AccountsType

LEMMA FaultsStep ==
  ASSUME faults \in 0..MaxFaults, Fault \/ NoFault
  PROVE  faults' \in 0..MaxFaults
BY BoundsAssumption DEF Fault, NoFault

(* The steps of the script change the world, the feeders and the tables    *)
(* only where this says so.                                                *)
LEMMA InitType == Init => TypeOK
<1>. SUFFICES ASSUME Init PROVE TypeOK
  OBVIOUS
<1>1. 0 \in Times /\ 0 \in 0..MaxMoves /\ 0 \in 0..MaxSetups /\ 0 \in 0..MaxFaults
  BY BoundsAssumption DEF Times
<1>2. Nothing \in Rows
  BY <1>1 DEF Nothing, Rows
<1>3. WorldType
  BY <1>1, <1>2 DEF Init, WorldType, Rows
<1>4. FeedersType
  BY <1>2 DEF Init, FeedersType
<1>5. TablesType
  BY <1>2 DEF Init, TablesType
<1>6. AccountsType
  BY <1>1 DEF Init, AccountsType
<1>7. run \in RunSet /\ faults \in 0..MaxFaults
  BY <1>1, IdleType DEF Init
<1>. QED  BY <1>3, <1>4, <1>5, <1>6, <1>7, TypeParts

LEMMA WorldStep ==
  ASSUME TypeOK, Step
  PROVE  WorldType'
<1>0. WorldType
  BY TypeParts
<1>1. ASSUME NEW h \in Hosts, NEW f \in Feeders, Move(h, f) PROVE WorldType'
  <2>1. moves' \in 0..MaxMoves
    BY <1>0, <1>1, BoundsAssumption DEF Move, WorldType
  <2>2. returned' \in SUBSET Hosts
    BY <1>0, <1>1 DEF Move, WorldType
  <2>3. left' \in [Hosts -> SUBSET Feeders]
    BY <1>0, <1>1 DEF Move, WorldType
  <2>. QED  BY <1>0, <1>1, <2>1, <2>2, <2>3 DEF Move, WorldType
<1>2. ASSUME NEW h \in Hosts, Report(h) PROVE WorldType'
  <2>1. clock' \in Times
    BY <1>0, <1>2, BoundsAssumption DEF Report, WorldType, Times
  <2>. QED  BY <1>0, <1>2, <2>1 DEF Report, WorldType
<1>3. CASE UNCHANGED world
  BY <1>0, <1>3, WorldKept
<1>4. UNCHANGED world \/ \E h \in Hosts : Report(h) \/ \E f \in Feeders : Move(h, f)
  BY DEF Step, Next, Script, vars, around, CarryOut, Dump, Deliver, Import, RemoveSecret, SetupSuperhub,
     SetupFeeder, WriteSecret, SetupOneFeeder, Begin, StatusOk, StatusUnauthenticated, StatusFails,
     Query, DeleteHost, PostSql, Kill
<1>. QED  BY <1>1, <1>2, <1>3, <1>4

LEMMA FeedersStep ==
  ASSUME TypeOK, Step
  PROVE  FeedersType'
<1>0. WorldType /\ FeedersType /\ run \in RunSet
  BY TypeParts
<1>1. ASSUME NEW h \in Hosts, Report(h) PROVE FeedersType'
  <2>1. clock + 1 \in Times
    BY <1>0, <1>1, BoundsAssumption DEF Report, WorldType, Times
  <2>2. known' \in [Feeders -> Rows]
    BY <1>0, <1>1, <2>1 DEF Report, FeedersType, Rows
  <2>. QED  BY <1>0, <1>1, <2>2 DEF Report, FeedersType
<1>2. ASSUME NEW h \in Hosts, NEW f \in Feeders, CarryOut(f, h) PROVE FeedersType'
  <2>1. 0 \in Times
    BY BoundsAssumption DEF Times
  <2>2. known' \in [Feeders -> Rows]
    BY <1>0, <1>2, <2>1 DEF CarryOut, FeedersType, Rows
  <2>. QED  BY <1>0, <1>2, <2>2 DEF CarryOut, FeedersType
<1>3. ASSUME NEW f \in Feeders, Dump(f) \/ Deliver(f) PROVE FeedersType'
  BY <1>0, <1>3 DEF Dump, Deliver, FeedersType
<1>4. ASSUME NEW h \in Hosts, DeleteHost(h) PROVE FeedersType'
  BY <1>0, <1>4, HubType DEF DeleteHost, FeedersType
<1>5. CASE UNCHANGED feeders
  BY <1>0, <1>5, FeedersKept
<1>6. \/ UNCHANGED feeders
      \/ \E h \in Hosts : Report(h) \/ DeleteHost(h) \/ \E f \in Feeders : CarryOut(f, h)
      \/ \E f \in Feeders : Dump(f) \/ Deliver(f)
  BY DEF Step, Next, Script, vars, around, Move, Import, RemoveSecret, SetupSuperhub,
     SetupFeeder, WriteSecret, SetupOneFeeder, Begin, StatusOk, StatusUnauthenticated, StatusFails,
     Query, PostSql, Kill
<1>. QED  BY <1>1, <1>2, <1>3, <1>4, <1>5, <1>6

LEMMA TablesStep ==
  ASSUME TypeOK, Step
  PROVE  TablesType'
<1>0. FeedersType /\ TablesType /\ run \in RunSet
  BY TypeParts
<1>1. ASSUME NEW f \in Feeders, Deliver(f) PROVE TablesType'
  BY <1>0, <1>1 DEF Deliver, FeedersType, TablesType
<1>2. ASSUME NEW f \in Feeders, Import(f) PROVE TablesType'
  <2>1. arrived[f] \in Rows
    BY <1>0, <1>2 DEF Import, TablesType
  <2>. QED  BY <1>0, <1>2, <2>1 DEF Import, TablesType
<1>3. CASE PostSql
  <2>1. HostRows(hub, run.done) \in [Feeders -> SUBSET Hosts]
    BY <1>0 DEF HostRows, TablesType
  <2>2. 0 \in Times
    BY BoundsAssumption DEF Times
  <2>3. [h \in Hosts |-> IF h \in run.done THEN 0 ELSE seen[hub][h]] \in Rows
    BY <1>0, <2>2, HubType DEF TablesType, Rows
  <2>4. SeenRows(hub, run.done) \in [Feeders -> Rows]
    BY <1>0, <2>3 DEF SeenRows, TablesType
  <2>. QED  BY <1>0, <1>3, <2>1, <2>4 DEF PostSql, TablesType
<1>4. CASE UNCHANGED <<arrived, hosts, seen>>
  BY <1>0, <1>4, TablesKept
<1>5. \/ UNCHANGED <<arrived, hosts, seen>>
      \/ PostSql
      \/ \E f \in Feeders : Deliver(f) \/ Import(f)
  BY DEF Step, Next, Script, vars, around, Move, Report, CarryOut, Dump, RemoveSecret, SetupSuperhub,
     SetupFeeder, WriteSecret, SetupOneFeeder, Begin, StatusOk, StatusUnauthenticated, StatusFails,
     Query, DeleteHost, Kill
<1>. QED  BY <1>1, <1>2, <1>3, <1>4, <1>5

LEMMA WithAccountType ==
  ASSUME AccountsType, NEW f, NEW pw \in 0..MaxSetups
  PROVE  WithAccount(f, pw) \in [Feeders \cup {Superhub} -> 0..MaxSetups]
BY DEF WithAccount, AccountsType

LEMMA AccountsStep ==
  ASSUME TypeOK, Step
  PROVE  AccountsType'
<1>0. AccountsType /\ run \in RunSet /\ run.pw \in 0..MaxSetups
  BY TypeParts DEF RunSet
<1>1. CASE RemoveSecret \/ WriteSecret
  BY <1>0, <1>1, BoundsAssumption DEF RemoveSecret, WriteSecret, AccountsType
<1>2. CASE SetupSuperhub
  <2>1. setups + 1 \in 0..MaxSetups
    BY <1>0, <1>2, BoundsAssumption DEF SetupSuperhub, AccountsType
  <2>. QED  BY <1>0, <1>2, <2>1 DEF SetupSuperhub, WithHubAccount, AccountsType
<1>3. CASE SetupFeeder
  BY <1>0, <1>3, WithAccountType DEF SetupFeeder, AccountsType
<1>4. ASSUME NEW f \in Feeders, SetupOneFeeder(f) PROVE AccountsType'
  BY <1>0, <1>4, WithAccountType DEF SetupOneFeeder, AccountsType
<1>5. CASE StatusUnauthenticated
  <2>1. account' \in {account, WithAccount(hub, run.pw)} /\ UNCHANGED <<secret, setups>>
    BY <1>5 DEF StatusUnauthenticated
  <2>. QED  BY <1>0, <2>1, WithAccountType DEF AccountsType
<1>6. CASE UNCHANGED accounts
  BY <1>0, <1>6, AccountsKept
<1>7. \/ UNCHANGED accounts \/ RemoveSecret \/ WriteSecret \/ SetupSuperhub \/ SetupFeeder
      \/ StatusUnauthenticated \/ \E f \in Feeders : SetupOneFeeder(f)
  BY DEF Step, Next, Script, vars, around, Move, Report, CarryOut, Dump, Deliver, Import, Begin, StatusOk,
     StatusFails, Query, DeleteHost, PostSql, Kill
<1>. QED  BY <1>1, <1>2, <1>3, <1>4, <1>5, <1>6, <1>7

LEMMA RunStep ==
  ASSUME TypeOK, Step
  PROVE  run' \in RunSet
<1>0. AccountsType /\ TablesType /\ run \in RunSet
  BY TypeParts
<1>1. CASE SetupSuperhub
  <2>1. setups + 1 \in 0..MaxSetups
    BY <1>0, <1>1, BoundsAssumption DEF SetupSuperhub, AccountsType
  <2>. QED  BY <1>1, <2>1, IdleType DEF SetupSuperhub, RunSet, Steps
<1>2. CASE SetupFeeder
  BY <1>0, <1>2, IdleType DEF SetupFeeder, RunSet, Steps
<1>3. CASE WriteSecret
  <2>1. run.at < Len(HubList) => run.at + 1 \in 1..Len(HubList)
    BY <1>0, HubListFacts DEF RunSet
  <2>2. CASE run.at < Len(HubList)
    BY <1>0, <1>3, <2>1, <2>2 DEF WriteSecret, RunSet, Steps
  <2>3. CASE ~(run.at < Len(HubList))
    <3>1. run' \in {Idle, [run EXCEPT !.step = "status", !.at = 1]}
      BY <1>3, <2>3 DEF WriteSecret
    <3>2. 1 \in 1..Len(HubList)
      BY HubListFacts
    <3>. QED  BY <1>0, <3>1, <3>2, IdleType DEF RunSet, Steps
  <2>. QED  BY <2>2, <2>3
<1>4. ASSUME NEW f \in Feeders, SetupOneFeeder(f) PROVE run' \in RunSet
  BY <1>0, <1>4, IdleType DEF SetupOneFeeder, AccountsType, RunSet, Steps
<1>5. CASE Begin
  BY <1>0, <1>5, IdleType DEF Begin, AccountsType, RunSet, Steps
<1>6. CASE StatusOk
  BY <1>0, <1>6 DEF StatusOk, RunSet, Steps
<1>7. CASE StatusUnauthenticated
  <2>1. run.ok \in BOOLEAN /\ NextHub(run.ok) \in RunSet /\ NextHub(FALSE) \in RunSet
    BY <1>0, NextHubType DEF RunSet
  <2>. QED  BY <1>0, <1>7, <2>1, IdleType DEF StatusUnauthenticated, RunSet, Steps
<1>8. CASE StatusFails \/ Kill
  BY <1>0, <1>8, IdleType, NextHubType DEF StatusFails, Kill
<1>9. CASE Query
  <2>1. Candidates(hub) \in SUBSET Hosts
    BY <1>0, HubType DEF Candidates, TablesType
  <2>2. [run EXCEPT !.step = "delete", !.todo = Candidates(hub), !.ok = TRUE] \in RunSet
    BY <1>0, <2>1 DEF RunSet, Steps
  <2>. QED  BY <1>0, <1>9, <2>2, IdleType, NextHubType DEF Query
<1>10. ASSUME NEW h \in Hosts, DeleteHost(h) PROVE run' \in RunSet
  <2>1. \/ run' = [run EXCEPT !.todo = @ \ {h}, !.done = @ \cup {h}]
        \/ run' = [run EXCEPT !.todo = @ \ {h}]
    BY <1>10 DEF DeleteHost
  <2>2. run.todo \ {h} \in SUBSET Hosts /\ run.done \cup {h} \in SUBSET Hosts
    BY <1>0 DEF RunSet
  <2>. QED  BY <1>0, <2>1, <2>2 DEF RunSet
<1>11. CASE PostSql
  BY <1>0, <1>11, IdleType, NextHubType DEF PostSql
<1>12. CASE UNCHANGED run
  BY <1>0, <1>12
<1>13. \/ UNCHANGED run \/ SetupSuperhub \/ SetupFeeder \/ WriteSecret \/ Begin \/ StatusOk
       \/ StatusUnauthenticated \/ StatusFails \/ Kill \/ Query \/ PostSql
       \/ \E f \in Feeders : SetupOneFeeder(f)
       \/ \E h \in Hosts : DeleteHost(h)
  BY DEF Step, Next, Script, vars, Move, Report, CarryOut, Dump, Deliver, Import, RemoveSecret
<1>. QED  BY <1>1, <1>2, <1>3, <1>4, <1>5, <1>6, <1>7, <1>8, <1>9, <1>10, <1>11, <1>12, <1>13

(* Every variable keeps its type.                                          *)
THEOREM TypeCorrect == Spec => []TypeOK
<1>1. ASSUME TypeOK, Step PROVE TypeOK'
  <2>1. faults' \in 0..MaxFaults
    <3>1. UNCHANGED faults \/ Fault \/ NoFault
      BY <1>1 DEF Step, Next, Script, vars, Move, Report, CarryOut, Dump, Deliver, Import, RemoveSecret,
         SetupSuperhub, SetupFeeder, WriteSecret, SetupOneFeeder, Begin, StatusOk, StatusUnauthenticated,
         StatusFails, Query, DeleteHost, PostSql, Kill
    <3>. QED  BY <1>1, <3>1, FaultsStep, TypeParts
  <2>2. WorldType' /\ FeedersType' /\ TablesType' /\ AccountsType' /\ run' \in RunSet
    BY <1>1, WorldStep, FeedersStep, TablesStep, AccountsStep, RunStep
  <2>. QED  BY <2>1, <2>2 DEF TypeOK, WorldType, FeedersType, TablesType, AccountsType, RunSet
<1>. QED  BY <1>1, InitType, PTL DEF Spec, Step

-----------------------------------------------------------------------------
(* The password file                                                       *)

(* While a setup runs, its password is the superhub's, and so is the one   *)
(* in the file if there is a file.                                         *)
SecretInv ==
  /\ SecretFits
  /\ run.step \in {"setup", "secret"} => run.pw = account[Superhub]

LEMMA NextHubSteps ==
  ASSUME run \in RunSet
  PROVE  Idle.step = "idle" /\ \A ok : NextHub(ok).step \in {"idle", "status"}
BY DEF NextHub, Idle, RunSet

(* The file opens the superhub's API, whatever feeders fail and whenever   *)
(* the setup is killed (distributed_cleanup.py:142-227).                   *)
THEOREM SecretOpensSuperhub == Spec => []SecretFits
<1>1. Init => SecretInv
  BY DEF Init, SecretInv, SecretFits, Idle
<1>2. ASSUME TypeOK, SecretInv, Step PROVE SecretInv'
  <2>0. AccountsType /\ run \in RunSet /\ run.pw \in 0..MaxSetups /\ hub \in Feeders /\ hub # Superhub
    BY <1>2, TypeParts, HubType, NamesAssumption DEF RunSet
  <2>1. CASE RemoveSecret \/ WriteSecret
    <3>1. UNCHANGED account
      BY <2>1 DEF RemoveSecret, WriteSecret
    <3>2. CASE RemoveSecret
      BY <1>2, <3>1, <3>2 DEF RemoveSecret, SecretInv, SecretFits
    <3>3. CASE WriteSecret
      <4>1. secret' \in {run.pw, secret} /\ run.pw = account[Superhub]
        BY <1>2, <3>3 DEF WriteSecret, SecretInv
      <4>2. \/ run' = [run EXCEPT !.step = "setup", !.at = @ + 1]
            \/ run' = Idle
            \/ run' = [run EXCEPT !.step = "status", !.at = 1]
        BY <3>3 DEF WriteSecret
      <4>3. run'.step \in {"setup", "secret"} => run'.pw = run.pw
        BY <2>0, <4>2, NextHubSteps DEF RunSet
      <4>. QED  BY <1>2, <3>1, <4>1, <4>3 DEF SecretInv, SecretFits
    <3>. QED  BY <2>1, <3>2, <3>3
  <2>2. CASE SetupSuperhub
    <3>1. account'[Superhub] = setups + 1 /\ secret' = 0
      BY <2>0, <2>2 DEF SetupSuperhub, WithHubAccount, AccountsType
    <3>2. run'.pw = setups + 1 \/ run'.step \notin {"setup", "secret"}
      <4>1. run' = [Idle EXCEPT !.step = "setup", !.pw = setups + 1] \/ run' = Idle
        BY <2>2 DEF SetupSuperhub
      <4>2. [Idle EXCEPT !.step = "setup", !.pw = setups + 1].pw = setups + 1
        BY DEF Idle
      <4>. QED  BY <2>0, <4>1, <4>2, NextHubSteps
    <3>. QED  BY <3>1, <3>2 DEF SecretInv, SecretFits
  <2>10. ASSUME NEW f \in Feeders, NEW pw PROVE WithAccount(f, pw)[Superhub] = account[Superhub]
    <3>1. f # Superhub
      BY NamesAssumption
    <3>. QED  BY <2>0, <3>1 DEF WithAccount, AccountsType
  <2>3. CASE SetupFeeder \/ StatusUnauthenticated
    <3>1. account'[Superhub] = account[Superhub] /\ secret' = secret
      <4>1. account' \in {account, WithAccount(hub, run.pw)} /\ secret' = secret
        BY <2>3 DEF SetupFeeder, StatusUnauthenticated, hub
      <4>. QED  BY <2>0, <2>10, <4>1
    <3>2. run'.step \in {"setup", "secret"} => run.step \in {"setup", "secret"} /\ run'.pw = run.pw
      <4>1. CASE SetupFeeder
        BY <2>0, <4>1 DEF SetupFeeder, Idle, RunSet
      <4>2. CASE StatusUnauthenticated
        <5>1. \/ \E ok : run' = NextHub(ok)
              \/ run' = Idle
              \/ run' = [run EXCEPT !.step = "query"]
          BY <4>2 DEF StatusUnauthenticated
        <5>2. run'.step \in {"idle", "status", "query"}
          BY <2>0, <5>1, NextHubSteps DEF RunSet
        <5>. QED  BY <5>2
      <4>. QED  BY <2>3, <4>1, <4>2
    <3>. QED  BY <1>2, <3>1, <3>2 DEF SecretInv, SecretFits
  <2>4. ASSUME NEW f \in Feeders, SetupOneFeeder(f) PROVE SecretInv'
    <3>2. account'[Superhub] = account[Superhub] /\ secret' = secret
      BY <2>4, <2>10 DEF SetupOneFeeder
    <3>3. run'.step \notin {"setup", "secret"}
      <4>1. run' = [Idle EXCEPT !.step = "status", !.pw = secret] \/ run' = Idle
        BY <2>4 DEF SetupOneFeeder
      <4>2. [Idle EXCEPT !.step = "status", !.pw = secret].step = "status"
        BY DEF Idle
      <4>. QED  BY <2>0, <4>1, <4>2, NextHubSteps
    <3>. QED  BY <1>2, <3>2, <3>3 DEF SecretInv, SecretFits
  <2>5. CASE Begin \/ StatusOk \/ StatusFails \/ Query \/ PostSql \/ Kill \/ \E h \in Hosts : DeleteHost(h)
    <3>1. UNCHANGED <<account, secret>>
      BY <2>5 DEF Begin, StatusOk, StatusFails, Query, PostSql, Kill, DeleteHost, accounts
    <3>2. run'.step \notin {"setup", "secret"}
      <4>1. \/ \E ok : run' = NextHub(ok)
            \/ run' = Idle
            \/ \E pw : run' = [Idle EXCEPT !.step = "status", !.pw = pw]
            \/ run' = [run EXCEPT !.step = "query", !.ok = TRUE]
            \/ \E todo : run' = [run EXCEPT !.step = "delete", !.todo = todo, !.ok = TRUE]
            \/ run.step = "delete" /\ run'.step = run.step
        <5>1. CASE \E h \in Hosts : DeleteHost(h)
          BY <2>0, <5>1 DEF DeleteHost, RunSet
        <5>2. CASE Query
          BY <5>2 DEF Query
        <5>3. CASE Begin \/ StatusOk \/ StatusFails \/ PostSql \/ Kill
          BY <5>3 DEF Begin, StatusOk, StatusFails, PostSql, Kill
        <5>. QED  BY <2>5, <5>1, <5>2, <5>3
      <4>2. \A pw : [Idle EXCEPT !.step = "status", !.pw = pw].step = "status"
        BY DEF Idle
      <4>3. run'.step \in {"idle", "status", "query", "delete"}
        BY <2>0, <4>1, <4>2, NextHubSteps DEF RunSet
      <4>. QED  BY <4>3
    <3>. QED  BY <1>2, <3>1, <3>2 DEF SecretInv, SecretFits
  <2>6. CASE UNCHANGED <<accounts, run>>
    BY <1>2, <2>6 DEF SecretInv, SecretFits, accounts
  <2>. QED
    BY <1>2, <2>1, <2>2, <2>3, <2>4, <2>5, <2>6 DEF Step, Next, Script, vars, Move, Report, CarryOut, Dump,
       Deliver, Import
<1>3. SecretInv => SecretFits
  BY DEF SecretInv
<1>. QED  BY <1>1, <1>2, <1>3, TypeCorrect, PTL DEF Spec, Step

-----------------------------------------------------------------------------
(* Where hosts are deleted                                                 *)

(* What any copy t of the row of h at f says about where h has been: no    *)
(* row where it never was; under a feeder it never left only rows newer    *)
(* than its last move, and then only older ones elsewhere.                 *)
Tells(f, h, t) ==
  /\ t \in Times /\ t <= clock /\ moved[h] <= clock
  /\ f \notin left[h] /\ f # home[h] => t = 0
  /\ f \notin left[h] /\ f = home[h] => t = 0 \/ t > moved[h]
  /\ home[h] \notin left[h] /\ f # home[h] => t <= moved[h]

RowsTell ==
  \A f \in Feeders, h \in Hosts :
    /\ Tells(f, h, 0) /\ Tells(f, h, known[f][h]) /\ Tells(f, h, seen[f][h])
    /\ dump[f] # NoDump => Tells(f, h, dump[f][h])
    /\ arrived[f] # NoDump => Tells(f, h, arrived[f][h])

HostRowsTell == \A f \in Feeders : \A h \in hosts[f] : seen[f][h] = 0 => f \in left[h]

RunTells ==
  /\ \A h \in run.todo \cup run.done : hub \in left[h]
  /\ run.step # "delete" => run.todo = {} /\ run.done = {}

LeftInv == RowsTell /\ HostRowsTell /\ RunTells /\ OnlyWhereLeft

(* A candidate that has not left its feeder would have no row there at all.*)
LEMMA CandidatesLeft ==
  ASSUME TypeOK, RowsTell, HostRowsTell, NEW f \in Feeders, NEW h \in Candidates(f)
  PROVE  f \in left[h]
<1>. SUFFICES ASSUME f \notin left[h] PROVE FALSE
  OBVIOUS
<1>1. h \in Hosts /\ h \in hosts[f]
  BY DEF Candidates, TypeOK
<1>2. PICK g \in Feeders \ {f} : seen[g][h] > 0 /\ Newest(h, seen[g][h])
  BY DEF Candidates
<1>3. seen[f][h] <= seen[g][h]
  BY <1>2 DEF Newest
<1>4. Tells(f, h, seen[f][h]) /\ Tells(g, h, seen[g][h])
  BY <1>1, <1>2 DEF RowsTell
<1>5. seen[f][h] \in Nat /\ seen[g][h] \in Nat /\ moved[h] \in Nat
  BY <1>1, <1>4, BoundsAssumption DEF Tells, Times, TypeOK
<1>6. CASE f = home[h]
  <2>1. seen[g][h] <= moved[h]
    BY <1>2, <1>4, <1>6 DEF Tells
  <2>2. seen[f][h] = 0
    BY <1>3, <1>4, <1>5, <1>6, <2>1 DEF Tells
  <2>. QED  BY <1>1, <2>2 DEF HostRowsTell
<1>7. CASE f # home[h]
  <2>1. seen[f][h] = 0
    BY <1>4, <1>7 DEF Tells
  <2>. QED  BY <1>1, <2>1 DEF HostRowsTell
<1>. QED  BY <1>6, <1>7

LEMMA InitLeft == Init => LeftInv
<1>. SUFFICES ASSUME Init PROVE LeftInv
  OBVIOUS
<1>1. ASSUME NEW f \in Feeders, NEW h \in Hosts PROVE Tells(f, h, 0)
  BY BoundsAssumption DEF Init, Tells, Times, Nothing
<1>2. RowsTell
  BY <1>1 DEF RowsTell, Init, Nothing
<1>3. HostRowsTell /\ OnlyWhereLeft
  BY DEF HostRowsTell, OnlyWhereLeft, Init
<1>4. RunTells
  BY DEF RunTells, Init, Idle
<1>. QED  BY <1>2, <1>3, <1>4 DEF LeftInv

(* A move and a report keep what every other copy tells.                   *)
LEMMA MoveTells ==
  ASSUME TypeOK, NEW h \in Hosts, NEW to \in Feeders, Move(h, to),
         NEW f \in Feeders, NEW k \in Hosts, NEW t, Tells(f, k, t)
  PROVE  Tells(f, k, t)'
<1>1. clock \in Nat /\ moved[k] \in Nat /\ t \in Nat
  BY BoundsAssumption DEF TypeOK, Times, Tells
<1>2. CASE k # h
  <2>1. home'[k] = home[k] /\ left'[k] = left[k] /\ moved'[k] = moved[k] /\ clock' = clock
    BY <1>2 DEF Move, TypeOK
  <2>. QED  BY <2>1 DEF Tells
<1>3. CASE k = h
  <2>1. home'[k] = to /\ left'[k] = left[k] \cup {home[k]} /\ moved'[k] = clock /\ clock' = clock /\ to # home[k]
    BY <1>3 DEF Move, TypeOK
  <2>. QED  BY <1>1, <2>1 DEF Tells
<1>. QED  BY <1>2, <1>3

LEMMA ReportTells ==
  ASSUME TypeOK, NEW h \in Hosts, Report(h),
         NEW f \in Feeders, NEW k \in Hosts, NEW t, Tells(f, k, t)
  PROVE  Tells(f, k, t)'
<1>1. clock \in Nat /\ t \in Nat /\ moved[k] \in Nat /\ clock' = clock + 1
  BY BoundsAssumption DEF TypeOK, Times, Tells, Report
<1>2. home' = home /\ left' = left /\ moved' = moved
  BY DEF Report
<1>. QED  BY <1>1, <1>2 DEF Tells

(* What a copy tells stays the same when no host moves or reports.         *)
LEMMA StillTells ==
  ASSUME UNCHANGED world, NEW f, NEW h, NEW t, Tells(f, h, t)
  PROVE  Tells(f, h, t)'
BY DEF Tells, world

LEMMA RowsTellStep ==
  ASSUME TypeOK, RowsTell, Step
  PROVE  RowsTell'
<1>1. ASSUME NEW h \in Hosts, NEW to \in Feeders, Move(h, to) PROVE RowsTell'
  <2>1. UNCHANGED <<known, dump, arrived, seen>>
    BY <1>1 DEF Move, feeders
  <2>2. ASSUME NEW f \in Feeders, NEW k \in Hosts, NEW t, Tells(f, k, t) PROVE Tells(f, k, t)'
    BY <1>1, <2>2, MoveTells
  <2>. QED  BY <2>1, <2>2 DEF RowsTell
<1>2. ASSUME NEW h \in Hosts, Report(h) PROVE RowsTell'
  <2>1. UNCHANGED <<dump, arrived, seen>> /\ known' = [known EXCEPT ![home[h]][h] = clock + 1]
    BY <1>2 DEF Report
  <2>2. ASSUME NEW f \in Feeders, NEW k \in Hosts, NEW t, Tells(f, k, t) PROVE Tells(f, k, t)'
    BY <1>2, <2>2, ReportTells
  <2>3. \A t : t = clock + 1 => LET f == home[h] IN
                  /\ t \in Times /\ t <= clock' /\ moved'[h] <= clock'
                  /\ f = home'[h] /\ left'[h] = left[h] /\ t > moved'[h]
    <3>1. clock \in Nat /\ clock + 1 \in Times /\ clock' = clock + 1 /\ home' = home /\ moved' = moved
          /\ left' = left
      BY <1>2, BoundsAssumption DEF Report, TypeOK, Times
    <3>2. home[h] \in Feeders /\ moved[h] \in Nat
      BY BoundsAssumption DEF TypeOK, Times
    <3>3. moved[h] <= clock
      BY <3>2 DEF RowsTell, Tells
    <3>. QED  BY <3>1, <3>2, <3>3
  <2>4. ASSUME NEW f \in Feeders, NEW k \in Hosts PROVE Tells(f, k, known[f][k])'
    <3>1. CASE f = home[h] /\ k = h
      <4>1. known'[f][k] = clock + 1
        BY <1>2, <3>1 DEF Report, TypeOK, Rows
      <4>. QED  BY <2>3, <3>1, <4>1 DEF Tells
    <3>2. CASE ~(f = home[h] /\ k = h)
      <4>1. known'[f][k] = known[f][k]
        BY <2>1, <3>2 DEF TypeOK, Rows
      <4>2. Tells(f, k, known[f][k])
        BY DEF RowsTell
      <4>3. ASSUME NEW t, t = known[f][k] PROVE Tells(f, k, t)'
        BY <2>2, <4>2, <4>3
      <4>. QED  BY <4>1, <4>3 DEF Tells
    <3>. QED  BY <3>1, <3>2
  <2>. QED  BY <2>1, <2>2, <2>4 DEF RowsTell
<1>3. ASSUME NEW f \in Feeders, NEW h \in Hosts, CarryOut(f, h) PROVE RowsTell'
  <2>1. UNCHANGED <<world, dump, arrived, seen>>
    BY <1>3 DEF CarryOut
  <2>2. ASSUME NEW g \in Feeders, NEW k \in Hosts, NEW t, Tells(g, k, t) PROVE Tells(g, k, t)'
    BY <2>1, <2>2, StillTells
  <2>3. \A g \in Feeders, k \in Hosts : known'[g][k] \in {0, known[g][k]}
    BY <1>3 DEF CarryOut, TypeOK, Rows
  <2>. QED  BY <2>1, <2>2, <2>3 DEF RowsTell
<1>4. ASSUME NEW f \in Feeders, Dump(f) \/ Deliver(f) PROVE RowsTell'
  <2>1. UNCHANGED <<world, known, seen>>
    BY <1>4 DEF Dump, Deliver
  <2>2. ASSUME NEW g \in Feeders, NEW k \in Hosts, NEW t, Tells(g, k, t) PROVE Tells(g, k, t)'
    BY <2>1, <2>2, StillTells
  <2>3. \A g \in Feeders : dump'[g] \in {known[g], dump[g], NoDump}
    BY <1>4 DEF Dump, Deliver, TypeOK
  <2>4. \A g \in Feeders : arrived'[g] = arrived[g] \/ (dump[g] # NoDump /\ arrived'[g] = dump[g])
    <3>1. CASE Dump(f)
      BY <3>1 DEF Dump
    <3>2. CASE Deliver(f)
      BY <3>2 DEF Deliver, TypeOK
    <3>. QED  BY <1>4, <3>1, <3>2
  <2>. QED  BY <2>1, <2>2, <2>3, <2>4 DEF RowsTell
<1>5. ASSUME NEW f \in Feeders, Import(f) PROVE RowsTell'
  <2>1. UNCHANGED <<world, known, dump>>
    BY <1>5 DEF Import, feeders
  <2>2. ASSUME NEW g \in Feeders, NEW k \in Hosts, NEW t, Tells(g, k, t) PROVE Tells(g, k, t)'
    BY <2>1, <2>2, StillTells
  <2>3. \A g \in Feeders : seen'[g] = seen[g] \/ (arrived[g] # NoDump /\ seen'[g] = arrived[g])
    <3>1. arrived[f] # NoDump /\ seen' = [seen EXCEPT ![f] = arrived[f]] /\ seen \in [Feeders -> Rows]
      BY <1>5 DEF Import, TypeOK
    <3>. QED  BY <3>1
  <2>4. \A g \in Feeders : arrived'[g] \in {arrived[g], NoDump}
    BY <1>5 DEF Import, TypeOK
  <2>. QED  BY <2>1, <2>2, <2>3, <2>4 DEF RowsTell
<1>6. CASE PostSql
  <2>1. UNCHANGED <<world, known, dump, arrived>>
    BY <1>6 DEF PostSql, feeders
  <2>2. ASSUME NEW g \in Feeders, NEW k \in Hosts, NEW t, Tells(g, k, t) PROVE Tells(g, k, t)'
    BY <2>1, <2>2, StillTells
  <2>3. seen' \in {seen, SeenRows(hub, run.done)}
    BY <1>6 DEF PostSql
  <2>4. \A g \in Feeders, k \in Hosts : seen'[g][k] \in {0, seen[g][k]}
    <3>1. seen \in [Feeders -> [Hosts -> Times]]
      BY DEF TypeOK, Rows
    <3>2. CASE seen' = SeenRows(hub, run.done)
      <4>1. \A g \in Feeders : seen'[g] =
              IF g = hub THEN [h \in Hosts |-> IF h \in run.done THEN 0 ELSE seen[g][h]] ELSE seen[g]
        BY <3>1, <3>2 DEF SeenRows
      <4>. QED  BY <3>1, <4>1
    <3>. QED  BY <2>3, <3>2
  <2>. QED  BY <2>1, <2>2, <2>4 DEF RowsTell
<1>7. CASE UNCHANGED <<world, known, dump, arrived, seen>>
  BY <1>7, StillTells DEF RowsTell
<1>8. \/ UNCHANGED <<world, known, dump, arrived, seen>>
      \/ PostSql
      \/ \E f \in Feeders : Dump(f) \/ Deliver(f) \/ Import(f)
      \/ \E h \in Hosts : Report(h) \/ \E f \in Feeders : Move(h, f) \/ CarryOut(f, h)
  BY DEF Step, Next, Script, vars, around, feeders, RemoveSecret, SetupSuperhub,
     SetupFeeder, WriteSecret, SetupOneFeeder, Begin, StatusOk, StatusUnauthenticated, StatusFails,
     Query, DeleteHost, Kill
<1>. QED  BY <1>1, <1>2, <1>3, <1>4, <1>5, <1>6, <1>7, <1>8

(* No step takes a feeder from those that a host has left.                 *)
LEMMA LeftGrows ==
  ASSUME TypeOK, Step
  PROVE  \A h \in Hosts : left[h] \subseteq left'[h]
<1>1. ASSUME NEW h \in Hosts, NEW f \in Feeders, Move(h, f) PROVE \A k \in Hosts : left[k] \subseteq left'[k]
  BY <1>1 DEF Move, TypeOK
<1>2. UNCHANGED left \/ \E h \in Hosts, f \in Feeders : Move(h, f)
  BY DEF Step, Next, Script, vars, around, world, CarryOut, Report, Dump, Deliver, Import, RemoveSecret,
     SetupSuperhub, SetupFeeder, WriteSecret, SetupOneFeeder, Begin, StatusOk, StatusUnauthenticated,
     StatusFails, Query, DeleteHost, PostSql, Kill
<1>. QED  BY <1>1, <1>2

LEMMA HostRowsTellStep ==
  ASSUME TypeOK, LeftInv, Step
  PROVE  HostRowsTell'
<1>1. ASSUME NEW f \in Feeders, Import(f) PROVE HostRowsTell'
  <2>1. UNCHANGED left
    BY <1>1 DEF Import, world
  <2>2. ASSUME NEW g \in Feeders, NEW h \in hosts'[g], seen'[g][h] = 0 PROVE g \in left[h]
    <3>1. CASE g = f
      <4>1. hosts'[g] = {k \in Hosts : arrived[g][k] > 0} /\ seen'[g] = arrived[g]
        BY <1>1, <3>1 DEF Import, TypeOK
      <4>. QED  BY <2>2, <4>1
    <3>2. CASE g # f
      <4>1. hosts'[g] = hosts[g] /\ seen'[g] = seen[g]
        BY <1>1, <3>2 DEF Import, TypeOK
      <4>. QED  BY <2>2, <4>1 DEF LeftInv, HostRowsTell
    <3>. QED  BY <3>1, <3>2
  <2>. QED  BY <2>1, <2>2 DEF HostRowsTell
<1>2. CASE PostSql
  <2>1. UNCHANGED left
    BY <1>2 DEF PostSql, world
  <2>2. ASSUME NEW g \in Feeders, NEW h \in hosts'[g], seen'[g][h] = 0 PROVE g \in left[h]
    <3>1. h \in hosts[g] /\ h \in Hosts
      <4>1. hosts \in [Feeders -> SUBSET Hosts] /\ hosts' \in {hosts, HostRows(hub, run.done)}
        BY <1>2 DEF PostSql, TypeOK
      <4>2. hosts'[g] \subseteq hosts[g]
        BY <4>1 DEF HostRows
      <4>. QED  BY <2>2, <4>1, <4>2
    <3>2. CASE g = hub /\ h \in run.done
      BY <3>2 DEF LeftInv, RunTells
    <3>3. CASE ~(g = hub /\ h \in run.done)
      <4>1. seen \in [Feeders -> [Hosts -> Times]]
        BY DEF TypeOK, Rows
      <4>2. CASE seen' = SeenRows(hub, run.done)
        <5>1. seen'[g] = IF g = hub THEN [k \in Hosts |-> IF k \in run.done THEN 0 ELSE seen[g][k]] ELSE seen[g]
          BY <4>1, <4>2 DEF SeenRows
        <5>. QED  BY <2>2, <3>1, <3>3, <5>1 DEF LeftInv, HostRowsTell
      <4>3. CASE seen' = seen
        BY <2>2, <3>1, <4>3 DEF LeftInv, HostRowsTell
      <4>. QED  BY <1>2, <4>2, <4>3 DEF PostSql
    <3>. QED  BY <3>2, <3>3
  <2>. QED  BY <2>1, <2>2 DEF HostRowsTell
<1>3. CASE UNCHANGED <<hosts, seen>>
  <2>1. \A f \in Feeders : hosts[f] \subseteq Hosts
    BY DEF TypeOK
  <2>. QED  BY <1>3, <2>1, LeftGrows DEF LeftInv, HostRowsTell
<1>4. UNCHANGED <<hosts, seen>> \/ PostSql \/ \E f \in Feeders : Import(f)
  BY DEF Step, Next, Script, vars, around, Move, CarryOut, Report, Dump, Deliver, RemoveSecret,
     SetupSuperhub, SetupFeeder, WriteSecret, SetupOneFeeder, Begin, StatusOk, StatusUnauthenticated,
     StatusFails, Query, DeleteHost, Kill
<1>. QED  BY <1>1, <1>2, <1>3, <1>4

(* Between the hosts of two feeders the script has nothing left to do.     *)
Blank(r) == r.todo = {} /\ r.done = {}

LEMMA BlankRuns ==
  ASSUME run \in RunSet
  PROVE  /\ Blank(Idle) /\ \A ok : Blank(NextHub(ok))
         /\ \A step, pw : Blank([Idle EXCEPT !.step = step, !.pw = pw])
BY DEF Blank, Idle, NextHub, RunSet

(* The hosts of a step's run are those of the run before, or the ones that *)
(* the query has just picked.                                              *)
Picked(h) ==
  /\ hub' = hub
  /\ h \in run.todo \cup run.done \/ (Query /\ h \in Candidates(hub))

LEMMA RunPicks ==
  ASSUME TypeOK, LeftInv, Step
  PROVE  /\ run'.step # "delete" => run'.todo = {} /\ run'.done = {}
         /\ \A h \in run'.todo \cup run'.done : Picked(h)
<1>. DEFINE Goal == /\ run'.step # "delete" => run'.todo = {} /\ run'.done = {}
                   /\ \A h \in run'.todo \cup run'.done : Picked(h)
<1>0. run \in RunSet
  BY TypeParts
<1>1. Blank(run') => Goal
  BY DEF Blank
<1>2. CASE SetupSuperhub \/ Begin \/ StatusFails \/ Kill \/ PostSql \/ \E f \in Feeders : SetupOneFeeder(f)
  <2>1. \/ run' = Idle
        \/ \E ok : run' = NextHub(ok)
        \/ \E step, pw : run' = [Idle EXCEPT !.step = step, !.pw = pw]
    <3>1. CASE StatusFails \/ Kill \/ PostSql
      BY <3>1 DEF StatusFails, Kill, PostSql
    <3>2. CASE SetupSuperhub \/ Begin \/ \E f \in Feeders : SetupOneFeeder(f)
      BY <3>2 DEF SetupSuperhub, Begin, SetupOneFeeder
    <3>. QED  BY <1>2, <3>1, <3>2
  <2>2. Blank(run')
    <3>1. CASE run' = Idle
      BY <1>0, <3>1, BlankRuns DEF Blank
    <3>2. ASSUME NEW ok, run' = NextHub(ok) PROVE Blank(run')
      BY <1>0, <3>2, BlankRuns DEF Blank
    <3>3. ASSUME NEW step, NEW pw, run' = [Idle EXCEPT !.step = step, !.pw = pw] PROVE Blank(run')
      BY <1>0, <3>3, BlankRuns DEF Blank
    <3>. QED  BY <2>1, <3>1, <3>2, <3>3
  <2>. QED  BY <1>1, <2>2
<1>3. CASE SetupFeeder \/ WriteSecret \/ StatusOk \/ StatusUnauthenticated
  <2>1. Blank(run)
    BY <1>3 DEF SetupFeeder, WriteSecret, StatusOk, StatusUnauthenticated, LeftInv, RunTells, Blank
  <2>2. \/ Blank(run')
        \/ run'.todo = run.todo /\ run'.done = run.done
    <3>1. \/ run' = Idle
          \/ \E ok : run' = NextHub(ok)
          \/ \E step : run' = [run EXCEPT !.step = step]
          \/ \E step, ok : run' = [run EXCEPT !.step = step, !.ok = ok]
          \/ \E step, at : run' = [run EXCEPT !.step = step, !.at = at]
      <4>1. CASE SetupFeeder
        BY <4>1 DEF SetupFeeder
      <4>2. CASE WriteSecret
        BY <4>2 DEF WriteSecret
      <4>3. CASE StatusOk
        BY <4>3 DEF StatusOk
      <4>4. CASE StatusUnauthenticated
        BY <4>4 DEF StatusUnauthenticated
      <4>. QED  BY <1>3, <4>1, <4>2, <4>3, <4>4
    <3>. QED  BY <1>0, <3>1, BlankRuns DEF RunSet
  <2>. QED  BY <1>1, <2>1, <2>2 DEF Blank
<1>4. CASE Query
  <2>1. run.done = {}
    BY <1>4 DEF Query, LeftInv, RunTells
  <2>2. CASE run' = [run EXCEPT !.step = "delete", !.todo = Candidates(hub), !.ok = TRUE]
    <3>1. run'.todo = Candidates(hub) /\ run'.done = {} /\ run'.step = "delete" /\ hub' = hub
      BY <1>0, <2>1, <2>2 DEF RunSet, hub
    <3>. QED  BY <1>4, <3>1 DEF Picked
  <2>3. CASE run' # [run EXCEPT !.step = "delete", !.todo = Candidates(hub), !.ok = TRUE]
    BY <1>0, <1>1, <1>4, <2>3, BlankRuns DEF Query
  <2>. QED  BY <2>2, <2>3
<1>5. ASSUME NEW h \in Hosts, DeleteHost(h) PROVE Goal
  <2>1. run'.todo \cup run'.done \subseteq run.todo \cup run.done /\ run'.step = "delete" /\ hub' = hub
    <3>1. \/ run' = [run EXCEPT !.todo = @ \ {h}, !.done = @ \cup {h}]
          \/ run' = [run EXCEPT !.todo = @ \ {h}]
      BY <1>5 DEF DeleteHost
    <3>2. run'.step = "delete" /\ run'.at = run.at
      BY <1>0, <1>5, <3>1 DEF DeleteHost, RunSet
    <3>3. run'.todo = run.todo \ {h} /\ run'.done \in {run.done, run.done \cup {h}} /\ h \in run.todo
      BY <1>0, <1>5, <3>1 DEF DeleteHost, RunSet
    <3>. QED  BY <3>2, <3>3 DEF hub
  <2>. QED  BY <2>1 DEF Picked
<1>6. CASE UNCHANGED run
  <2>1. hub' = hub
    BY <1>6 DEF hub
  <2>. QED  BY <1>6, <2>1 DEF Picked, LeftInv, RunTells
<1>7. \/ UNCHANGED run \/ Query \/ \E h \in Hosts : DeleteHost(h)
      \/ SetupFeeder \/ WriteSecret \/ StatusOk \/ StatusUnauthenticated
      \/ SetupSuperhub \/ Begin \/ StatusFails \/ Kill \/ PostSql \/ \E f \in Feeders : SetupOneFeeder(f)
  BY DEF Step, Next, Script, vars, Move, CarryOut, Report, Dump, Deliver, Import, RemoveSecret
<1>. QED  BY <1>2, <1>3, <1>4, <1>5, <1>6, <1>7

LEMMA RunTellsStep ==
  ASSUME TypeOK, LeftInv, Step
  PROVE  RunTells'
<1>1. \A h \in run.todo \cup run.done \cup Candidates(hub) : h \in Hosts /\ hub \in left[h]
  <2>1. hub \in Feeders /\ run.todo \cup run.done \subseteq Hosts /\ Candidates(hub) \subseteq Hosts
    BY TypeParts, HubType DEF RunSet, Candidates, TypeOK
  <2>. QED  BY <2>1, CandidatesLeft DEF LeftInv, RunTells
<1>2. \A h \in Hosts : left[h] \subseteq left'[h]
  BY LeftGrows
<1>. QED  BY <1>1, <1>2, RunPicks DEF RunTells, Picked

LEMMA DeletingStep ==
  ASSUME TypeOK, LeftInv, Step
  PROVE  OnlyWhereLeft'
<1>1. ASSUME NEW h \in Hosts, DeleteHost(h) PROVE OnlyWhereLeft'
  <2>1. h \in run.todo /\ hub \in left[h] /\ UNCHANGED left
    BY <1>1 DEF DeleteHost, LeftInv, RunTells, world
  <2>2. deleting' \in {deleting, [deleting EXCEPT ![hub] = @ \cup {h}]}
    BY <1>1 DEF DeleteHost
  <2>3. \A f \in Feeders : \A k \in deleting'[f] : k \in deleting[f] \/ (f = hub /\ k = h)
    BY <2>2 DEF TypeOK
  <2>. QED  BY <2>1, <2>3 DEF LeftInv, OnlyWhereLeft
<1>2. ASSUME NEW f \in Feeders, NEW h \in Hosts, CarryOut(f, h) PROVE OnlyWhereLeft'
  <2>1. UNCHANGED left /\ \A g \in Feeders : deleting'[g] \subseteq deleting[g]
    BY <1>2 DEF CarryOut, world, TypeOK
  <2>. QED  BY <2>1 DEF LeftInv, OnlyWhereLeft
<1>3. CASE UNCHANGED deleting
  <2>1. \A f \in Feeders : deleting[f] \subseteq Hosts
    BY DEF TypeOK
  <2>. QED  BY <1>3, <2>1, LeftGrows DEF LeftInv, OnlyWhereLeft
<1>4. UNCHANGED deleting \/ \E h \in Hosts : DeleteHost(h) \/ \E f \in Feeders : CarryOut(f, h)
  BY DEF Step, Next, Script, vars, around, feeders, Move, Report, Dump, Deliver, Import, RemoveSecret,
     SetupSuperhub, SetupFeeder, WriteSecret, SetupOneFeeder, Begin, StatusOk, StatusUnauthenticated,
     StatusFails, Query, PostSql, Kill
<1>. QED  BY <1>1, <1>2, <1>3, <1>4

LEMMA LeftStep == ASSUME TypeOK, LeftInv, Step PROVE LeftInv'
<1>1. RowsTell'
  BY RowsTellStep DEF LeftInv
<1>2. HostRowsTell' /\ RunTells' /\ OnlyWhereLeft'
  BY HostRowsTellStep, RunTellsStep, DeletingStep
<1>. QED  BY <1>1, <1>2 DEF LeftInv

(* Whatever the delays of dumps, imports and deletions, and whatever fails *)
(* or is killed, a feeder is never asked to delete a host that has not     *)
(* moved away from it (distributed_cleanup.py:343-400).                    *)
THEOREM DeletesOnlyWhereLeft == Spec => []OnlyWhereLeft
<1>1. Init => LeftInv
  BY InitLeft
<1>2. TypeOK /\ LeftInv /\ Step => LeftInv'
  BY LeftStep
<1>3. LeftInv => OnlyWhereLeft
  BY DEF LeftInv
<1>. QED  BY <1>1, <1>2, <1>3, TypeCorrect, PTL DEF Spec, Step

-----------------------------------------------------------------------------
(* The last row of a host                                                  *)

(* The row of a host on its way from its feeder to the superhub.           *)
DumpRow(f, h) == IF dump[f] = NoDump THEN known[f][h] ELSE dump[f][h]
ArrivedRow(f, h) == IF arrived[f] = NoDump THEN DumpRow(f, h) ELSE arrived[f][h]
RowsOf(f, h) == {known[f][h], DumpRow(f, h), ArrivedRow(f, h), seen[f][h]} \ {0}

(* The times at which a host reported to two feeders do not interleave.    *)
Apart(h) ==
  \A f, g \in Feeders : f # g =>
    \A a, c \in RowsOf(f, h), b, d \in RowsOf(g, h) : a <= b => c < d

(* The superhub shows h under g, by a report later than any to f.          *)
Later(f, g, h) == h \in hosts[g] /\ seen[g][h] > 0 /\ \A t \in RowsOf(f, h) : t < seen[g][h]

(* The rows of h under f are being deleted: by the feeder, by the script,  *)
(* in part by statements that failed, or by dumps without the host.        *)
Vanishing(f, h) ==
  \/ known[f][h] = 0 /\ DumpRow(f, h) # 0
  \/ DumpRow(f, h) = 0 /\ ArrivedRow(f, h) # 0
  \/ ArrivedRow(f, h) = 0 /\ seen[f][h] # 0
InPart(f, h) == ~(h \in hosts[f] <=> seen[f][h] # 0)
Doomed(f, h) ==
  \/ h \in deleting[f]
  \/ f = hub /\ h \in run.todo \cup run.done
  \/ Vanishing(f, h) \/ InPart(f, h)

KeptLater(h) == \A f \in Feeders : Doomed(f, h) => \E g \in Feeders \ {f} : Later(f, g, h)

KeepInv == \A h \in Hosts \ returned : home[h] \notin left[h] /\ Apart(h) /\ KeptLater(h)

LEMMA RowTypes ==
  ASSUME TypeOK, NEW f \in Feeders, NEW h \in Hosts
  PROVE  /\ known[f][h] \in Nat /\ DumpRow(f, h) \in Nat /\ ArrivedRow(f, h) \in Nat
         /\ seen[f][h] \in Nat /\ RowsOf(f, h) \subseteq Nat
<1>1. \A r \in Rows : r[h] \in Nat
  BY BoundsAssumption DEF Rows, Times
<1>2. /\ known[f] \in Rows /\ seen[f] \in Rows
      /\ (dump[f] # NoDump => dump[f] \in Rows) /\ (arrived[f] # NoDump => arrived[f] \in Rows)
  BY DEF TypeOK
<1>. QED  BY <1>1, <1>2 DEF DumpRow, ArrivedRow, RowsOf

LEMMA RowsAre ==
  ASSUME RowsTell, NEW f \in Feeders, NEW h \in Hosts, NEW t \in RowsOf(f, h)
  PROVE  Tells(f, h, t) /\ t # 0
BY DEF RowsTell, RowsOf, DumpRow, ArrivedRow

(* What a step does to the row of h at f: on the feeder and on its way     *)
(* from there, and on the superhub.                                        *)
SameOnWay(f, h) == known'[f][h] = known[f][h] /\ dump'[f] = dump[f] /\ arrived'[f] = arrived[f]
SameShown(f, h) == (h \in hosts'[f] <=> h \in hosts[f]) /\ seen'[f][h] = seen[f][h]

RowReported(f, h) ==
  /\ Report(h) /\ f = home[h] /\ SameShown(f, h)
  /\ known'[f][h] = clock + 1 /\ dump'[f] = dump[f] /\ arrived'[f] = arrived[f]
RowDeleted(f, h) ==
  /\ h \in deleting[f] /\ SameShown(f, h)
  /\ known'[f][h] = 0 /\ dump'[f] = dump[f] /\ arrived'[f] = arrived[f]
RowDumped(f, h) ==
  /\ known'[f][h] = known[f][h] /\ SameShown(f, h)
  /\ \/ dump'[f] = known[f] /\ dump'[f] # NoDump /\ arrived'[f] = arrived[f]
     \/ dump[f] # NoDump /\ arrived'[f] = dump[f] /\ dump'[f] = NoDump
RowImported(f, h) ==
  /\ Import(f) /\ known'[f][h] = known[f][h] /\ dump'[f] = dump[f]
  /\ arrived[f] # NoDump /\ arrived'[f] = NoDump
  /\ (h \in hosts'[f] <=> arrived[f][h] # 0) /\ seen'[f][h] = arrived[f][h]
RowRemoved(f, h) ==
  /\ PostSql /\ SameOnWay(f, h) /\ f = hub /\ h \in run.done
  /\ seen'[f][h] \in {0, seen[f][h]}

LEMMA RowStep ==
  ASSUME TypeOK, Step, NEW f \in Feeders, NEW h \in Hosts
  PROVE  \/ SameOnWay(f, h) /\ SameShown(f, h)
         \/ RowReported(f, h) \/ RowDeleted(f, h) \/ RowDumped(f, h)
         \/ RowImported(f, h) \/ RowRemoved(f, h)
<1>0. known[f] \in Rows /\ known[f] # NoDump
  BY NoDumpAssumption DEF TypeOK
<1>1. ASSUME NEW k \in Hosts, Report(k)
      PROVE  RowReported(f, h) \/ (SameOnWay(f, h) /\ SameShown(f, h))
  <2>1. UNCHANGED <<dump, arrived, hosts, seen>>
    BY <1>1 DEF Report
  <2>2. home[k] \in Feeders /\ known \in [Feeders -> [Hosts -> Times]]
    BY DEF TypeOK, Rows
  <2>3. IF f = home[k] /\ h = k THEN known'[f][h] = clock + 1 ELSE known'[f][h] = known[f][h]
    BY <1>1, <2>2 DEF Report
  <2>. QED  BY <1>1, <2>1, <2>3 DEF RowReported, SameOnWay, SameShown
<1>2. ASSUME NEW g \in Feeders, NEW k \in Hosts, CarryOut(g, k)
      PROVE  RowDeleted(f, h) \/ (SameOnWay(f, h) /\ SameShown(f, h))
  <2>1. UNCHANGED <<dump, arrived, hosts, seen>> /\ k \in deleting[g]
    BY <1>2 DEF CarryOut
  <2>2. known \in [Feeders -> [Hosts -> Times]]
    BY DEF TypeOK, Rows
  <2>3. IF f = g /\ h = k THEN known'[f][h] = 0 ELSE known'[f][h] = known[f][h]
    BY <1>2, <2>2 DEF CarryOut
  <2>. QED  BY <2>1, <2>3 DEF RowDeleted, SameOnWay, SameShown
<1>3. ASSUME NEW g \in Feeders, Dump(g) \/ Deliver(g)
      PROVE  RowDumped(f, h) \/ (SameOnWay(f, h) /\ SameShown(f, h))
  <2>1. UNCHANGED <<known, hosts, seen>>
    BY <1>3 DEF Dump, Deliver
  <2>2. CASE f = g
    BY <1>0, <1>3, <2>1, <2>2 DEF Dump, Deliver, RowDumped, SameShown, TypeOK
  <2>3. CASE f # g
    BY <1>3, <2>1, <2>3 DEF Dump, Deliver, SameOnWay, SameShown, TypeOK
  <2>. QED  BY <2>2, <2>3
<1>4. ASSUME NEW g \in Feeders, Import(g)
      PROVE  RowImported(f, h) \/ (SameOnWay(f, h) /\ SameShown(f, h))
  <2>1. UNCHANGED <<known, dump>>
    BY <1>4 DEF Import, feeders
  <2>2. CASE f = g
    <3>1. arrived[f] # NoDump /\ arrived[f] \in Rows
      BY <1>4, <2>2 DEF Import, TypeOK
    <3>2. arrived[f][h] \in Nat
      BY <3>1, BoundsAssumption DEF Rows, Times
    <3>3. /\ hosts'[f] = {k \in Hosts : arrived[f][k] > 0} /\ seen'[f] = arrived[f]
          /\ arrived'[f] = NoDump
      BY <1>4, <2>2 DEF Import, TypeOK
    <3>. QED  BY <1>4, <2>1, <2>2, <3>1, <3>2, <3>3 DEF RowImported
  <2>3. CASE f # g
    BY <1>4, <2>1, <2>3 DEF Import, SameOnWay, SameShown, TypeOK
  <2>. QED  BY <2>2, <2>3
<1>5. CASE PostSql
  <2>1. SameOnWay(f, h)
    BY <1>5 DEF PostSql, SameOnWay, feeders
  <2>2. /\ hosts \in [Feeders -> SUBSET Hosts] /\ hosts' \in {hosts, HostRows(hub, run.done)}
        /\ seen \in [Feeders -> [Hosts -> Times]] /\ seen' \in {seen, SeenRows(hub, run.done)}
    BY <1>5 DEF PostSql, TypeOK, Rows
  <2>3. f # hub \/ h \notin run.done => (h \in hosts'[f] <=> h \in hosts[f])
    BY <2>2 DEF HostRows
  <2>4. seen'[f][h] = IF seen' = SeenRows(hub, run.done) /\ f = hub /\ h \in run.done THEN 0 ELSE seen[f][h]
    BY <2>2 DEF SeenRows
  <2>. QED  BY <1>5, <2>1, <2>3, <2>4 DEF RowRemoved, SameShown
<1>6. CASE UNCHANGED <<known, dump, arrived, hosts, seen>>
  BY <1>6 DEF SameOnWay, SameShown
<1>7. \/ UNCHANGED <<known, dump, arrived, hosts, seen>> \/ PostSql
      \/ \E k \in Hosts : Report(k) \/ \E g \in Feeders : CarryOut(g, k)
      \/ \E g \in Feeders : Dump(g) \/ Deliver(g) \/ Import(g)
  BY DEF Step, Next, Script, vars, around, feeders, Move, RemoveSecret, SetupSuperhub, SetupFeeder,
     WriteSecret, SetupOneFeeder, Begin, StatusOk, StatusUnauthenticated, StatusFails, Query, DeleteHost,
     Kill
<1>. QED  BY <1>1, <1>2, <1>3, <1>4, <1>5, <1>6, <1>7

(* Only a report makes a row; a row vanishes only on its feeder; and only  *)
(* the script's statements remove a row in part.                           *)
LEMMA RowsShrink ==
  ASSUME TypeOK, Step, NEW f \in Feeders, NEW h \in Hosts
  PROVE  \/ RowsOf(f, h)' \subseteq RowsOf(f, h)
         \/ RowReported(f, h) /\ RowsOf(f, h)' \subseteq RowsOf(f, h) \cup {clock + 1}
<1>1. CASE (SameOnWay(f, h) /\ SameShown(f, h)) \/ RowRemoved(f, h)
  <2>1. SameOnWay(f, h) /\ DumpRow(f, h)' = DumpRow(f, h) /\ ArrivedRow(f, h)' = ArrivedRow(f, h)
    BY <1>1 DEF RowRemoved, SameOnWay, DumpRow, ArrivedRow
  <2>2. seen'[f][h] \in {0, seen[f][h]}
    BY <1>1 DEF SameShown, RowRemoved
  <2>. QED  BY <2>1, <2>2 DEF SameOnWay, RowsOf
<1>2. CASE RowReported(f, h)
  BY <1>2 DEF RowReported, SameShown, RowsOf, DumpRow, ArrivedRow
<1>3. CASE RowDeleted(f, h)
  BY <1>3 DEF RowDeleted, SameShown, RowsOf, DumpRow, ArrivedRow
<1>4. CASE RowDumped(f, h)
  BY <1>4 DEF RowDumped, SameShown, RowsOf, DumpRow, ArrivedRow
<1>5. CASE RowImported(f, h)
  BY <1>5 DEF RowImported, RowsOf, DumpRow, ArrivedRow
<1>. QED  BY <1>1, <1>2, <1>3, <1>4, <1>5, RowStep

LEMMA NewlyDoomed ==
  ASSUME TypeOK, LeftInv, Step, NEW f \in Feeders, NEW h \in Hosts, Doomed(f, h)'
  PROVE  Doomed(f, h) \/ (Query /\ f = hub /\ h \in Candidates(f))
<1>1. CASE Vanishing(f, h)' \/ InPart(f, h)'
  <2>0. known[f][h] \in Nat /\ clock + 1 # 0
    BY RowTypes, BoundsAssumption DEF TypeOK, Times
  <2>1. CASE SameOnWay(f, h) /\ SameShown(f, h)
    BY <1>1, <2>1 DEF SameOnWay, SameShown, Doomed, Vanishing, InPart, DumpRow, ArrivedRow
  <2>2. CASE RowReported(f, h)
    BY <1>1, <2>0, <2>2 DEF RowReported, SameShown, Doomed, Vanishing, InPart, DumpRow, ArrivedRow
  <2>3. CASE RowDeleted(f, h)
    BY <2>3 DEF RowDeleted, Doomed
  <2>4. CASE RowDumped(f, h)
    BY <1>1, <2>4 DEF RowDumped, SameShown, Doomed, Vanishing, InPart, DumpRow, ArrivedRow
  <2>5. CASE RowImported(f, h)
    BY <1>1, <2>5 DEF RowImported, Doomed, Vanishing, InPart, DumpRow, ArrivedRow
  <2>6. CASE RowRemoved(f, h)
    BY <2>6 DEF RowRemoved, Doomed
  <2>. QED  BY <2>1, <2>2, <2>3, <2>4, <2>5, <2>6, RowStep
<1>2. CASE f = hub' /\ h \in run'.todo \cup run'.done
  BY <1>2, RunPicks DEF Picked, Doomed
<1>3. CASE h \in deleting'[f]
  <2>1. ASSUME NEW k \in Hosts, DeleteHost(k) PROVE h \in deleting[f] \/ (f = hub /\ h \in run.todo)
    BY <1>3, <2>1 DEF DeleteHost, TypeOK
  <2>2. ASSUME NEW g \in Feeders, NEW k \in Hosts, CarryOut(g, k) PROVE h \in deleting[f]
    BY <1>3, <2>2 DEF CarryOut, TypeOK
  <2>3. UNCHANGED deleting \/ \E k \in Hosts : DeleteHost(k) \/ \E g \in Feeders : CarryOut(g, k)
    BY DEF Step, Next, Script, vars, around, feeders, Move, Report, Dump, Deliver, Import, RemoveSecret,
       SetupSuperhub, SetupFeeder, WriteSecret, SetupOneFeeder, Begin, StatusOk, StatusUnauthenticated,
       StatusFails, Query, PostSql, Kill
  <2>. QED  BY <1>3, <2>1, <2>2, <2>3 DEF Doomed
<1>. QED  BY <1>1, <1>2, <1>3 DEF Doomed

LEMMA OthersShown ==
  ASSUME TypeOK, NEW g \in Feeders, NEW h \in Hosts, RowImported(g, h) \/ RowRemoved(g, h),
         NEW k \in Feeders \ {g}
  PROVE  SameShown(k, h)
<1>1. CASE RowImported(g, h)
  BY <1>1 DEF RowImported, Import, TypeOK, SameShown
<1>2. CASE RowRemoved(g, h)
  <2>1. /\ hosts \in [Feeders -> SUBSET Hosts] /\ hosts' \in {hosts, HostRows(hub, run.done)}
        /\ seen \in [Feeders -> [Hosts -> Times]] /\ seen' \in {seen, SeenRows(hub, run.done)}
        /\ g = hub
    BY <1>2 DEF RowRemoved, PostSql, TypeOK, Rows
  <2>2. hosts'[k] = hosts[k] /\ seen'[k] = seen[k]
    BY <2>1 DEF HostRows, SeenRows
  <2>. QED  BY <2>2 DEF SameShown
<1>. QED  BY <1>1, <1>2

(* A step leaves a later feeder of h later, or another one is.             *)
LEMMA StaysLater ==
  ASSUME TypeOK, Step, NEW f \in Feeders, NEW g \in Feeders \ {f}, NEW h \in Hosts,
         Apart(h), KeptLater(h), Later(f, g, h), RowsOf(f, h)' \subseteq RowsOf(f, h)
  PROVE  \E k \in Feeders \ {f} : Later(f, k, h)'
<1>1. seen[g][h] \in RowsOf(g, h)
  BY DEF Later, RowsOf
<1>2. CASE SameShown(g, h)
  BY <1>2 DEF Later, SameShown
<1>3. CASE RowImported(g, h) /\ arrived[g][h] # 0
  <2>1. /\ seen'[g][h] \in RowsOf(g, h) /\ h \in hosts'[g] /\ seen'[g][h] # 0
    BY <1>3 DEF RowImported, RowsOf, ArrivedRow
  <2>2. \A t \in RowsOf(f, h) : t < seen'[g][h]
    <3>. SUFFICES ASSUME NEW t \in RowsOf(f, h) PROVE t < seen'[g][h]
      OBVIOUS
    <3>1. t < seen[g][h] /\ t \in Nat /\ seen[g][h] \in Nat
      BY RowTypes DEF Later
    <3>2. t <= seen[g][h]
      BY <3>1
    <3>. QED  BY <1>1, <2>1, <3>2 DEF Apart
  <2>3. seen'[g][h] \in Nat
    BY <2>1, RowTypes
  <2>. QED  BY <2>1, <2>2, <2>3 DEF Later
<1>4. CASE (RowImported(g, h) /\ arrived[g][h] = 0) \/ RowRemoved(g, h)
  <2>1. Doomed(g, h)
    BY <1>1, <1>4 DEF RowImported, RowRemoved, RowsOf, ArrivedRow, Vanishing, Doomed
  <2>2. PICK k \in Feeders \ {g} : Later(g, k, h)
    BY <2>1 DEF KeptLater
  <2>3. seen[g][h] < seen[k][h] /\ \A t \in RowsOf(f, h) : t < seen[g][h]
    BY <1>1, <2>2 DEF Later
  <2>4. /\ seen[g][h] \in Nat /\ seen[k][h] \in Nat /\ RowsOf(f, h) \subseteq Nat
        /\ seen[k][h] \in RowsOf(k, h)
    BY <2>2, RowTypes DEF Later, RowsOf
  <2>5. k # f
    BY <2>3, <2>4
  <2>6. SameShown(k, h)
    BY <1>4, <2>2, OthersShown
  <2>. QED  BY <2>2, <2>3, <2>4, <2>5, <2>6 DEF Later, SameShown
<1>. QED  BY <1>2, <1>3, <1>4, RowStep DEF RowReported, RowDeleted, RowDumped

(* A host that is not back has nothing to lose where it is, and its rows   *)
(* there are later than all others.                                        *)
LEMMA HomeFacts ==
  ASSUME TypeOK, LeftInv, NEW h \in Hosts, home[h] \notin left[h], KeptLater(h)
  PROVE  /\ ~Doomed(home[h], h)
         /\ \A f \in Feeders : \A t \in RowsOf(f, h) :
              t <= clock /\ (f = home[h] => moved[h] < t) /\ (f # home[h] => t <= moved[h])
<1>. DEFINE f == home[h]
<1>0. f \in Feeders
  BY DEF TypeOK
<1>1. \A g \in Feeders : \A t \in RowsOf(g, h) :
        t <= clock /\ (g = f => moved[h] < t) /\ (g # f => t <= moved[h])
  BY RowsAre DEF Tells, LeftInv
<1>2. ASSUME Vanishing(f, h) \/ (InPart(f, h) /\ seen[f][h] # 0), Doomed(f, h) PROVE FALSE
  <2>1. PICK g \in Feeders \ {f} : Later(f, g, h)
    BY <1>0, <1>2 DEF KeptLater
  <2>2. PICK t : t \in RowsOf(f, h)
    BY <1>2 DEF Vanishing, RowsOf
  <2>3. seen[g][h] \in RowsOf(g, h) /\ t < seen[g][h]
    BY <2>1, <2>2 DEF Later, RowsOf
  <2>4. seen[g][h] <= moved[h] /\ moved[h] < t /\ t \in Nat /\ seen[g][h] \in Nat /\ moved[h] \in Nat
    BY <1>0, <1>1, <2>2, <2>3, RowTypes, BoundsAssumption DEF TypeOK, Times
  <2>. QED  BY <2>3, <2>4
<1>3. ASSUME InPart(f, h), seen[f][h] = 0 PROVE FALSE
  BY <1>0, <1>3 DEF InPart, LeftInv, HostRowsTell
<1>4. ~(h \in deleting[f]) /\ ~(f = hub /\ h \in run.todo \cup run.done)
  BY <1>0 DEF LeftInv, OnlyWhereLeft, RunTells
<1>. QED  BY <1>1, <1>2, <1>3, <1>4 DEF Doomed

LEMMA ApartStep ==
  ASSUME TypeOK, LeftInv, Step, NEW h \in Hosts, home[h] \notin left[h], Apart(h), KeptLater(h)
  PROVE  Apart(h)'
<1>. SUFFICES ASSUME NEW f \in Feeders, NEW g \in Feeders, f # g,
                     NEW a \in RowsOf(f, h)', NEW c \in RowsOf(f, h)',
                     NEW b \in RowsOf(g, h)', NEW d \in RowsOf(g, h)', a <= b
              PROVE  c < d
  BY DEF Apart
<1>0. clock \in Nat /\ moved[h] \in Nat
  BY BoundsAssumption DEF TypeOK, Times
<1>1. CASE RowsOf(f, h)' \subseteq RowsOf(f, h) /\ RowsOf(g, h)' \subseteq RowsOf(g, h)
  BY <1>1 DEF Apart
<1>2. CASE RowReported(g, h) /\ RowsOf(g, h)' \subseteq RowsOf(g, h) \cup {clock + 1}
  <2>1. g = home[h] /\ RowsOf(f, h)' \subseteq RowsOf(f, h)
    BY <1>2, RowsShrink DEF RowReported
  <2>2. c \in Nat /\ d \in Nat /\ c <= moved[h] /\ moved[h] <= clock /\ (d = clock + 1 \/ moved[h] < d)
    <3>1. moved[h] <= clock
      BY DEF LeftInv, RowsTell, Tells
    <3>2. c \in Nat /\ c <= moved[h]
      BY <2>1, HomeFacts, RowTypes
    <3>3. d = clock + 1 \/ (d \in Nat /\ moved[h] < d)
      BY <1>2, <2>1, HomeFacts, RowTypes
    <3>. QED  BY <1>0, <3>1, <3>2, <3>3
  <2>. QED  BY <1>0, <2>2
<1>3. CASE RowReported(f, h) /\ RowsOf(f, h)' \subseteq RowsOf(f, h) \cup {clock + 1}
  <2>1. f = home[h] /\ RowsOf(g, h)' \subseteq RowsOf(g, h)
    BY <1>3, RowsShrink DEF RowReported
  <2>2. moved[h] <= clock
    BY DEF LeftInv, RowsTell, Tells
  <2>3. b \in Nat /\ b <= moved[h]
    BY <2>1, HomeFacts, RowTypes
  <2>4. a = clock + 1 \/ (a \in Nat /\ moved[h] < a)
    BY <1>3, <2>1, HomeFacts, RowTypes
  <2>. QED  BY <1>0, <2>2, <2>3, <2>4
<1>. QED  BY <1>1, <1>2, <1>3, RowsShrink

(* A candidate has a later row under another feeder, which the superhub    *)
(* shows, or something still later.                                        *)
LEMMA CandidateLater ==
  ASSUME TypeOK, NEW f \in Feeders, NEW h \in Hosts, h \in Candidates(f), Apart(h), KeptLater(h)
  PROVE  \E g \in Feeders \ {f} : Later(f, g, h)
<1>1. CASE Doomed(f, h)
  BY <1>1 DEF KeptLater
<1>2. CASE ~Doomed(f, h)
  <2>1. h \in hosts[f] /\ seen[f][h] # 0
    BY <1>2 DEF Candidates, Doomed, InPart
  <2>2. PICK g \in Feeders \ {f} : seen[g][h] > 0 /\ Newest(h, seen[g][h])
    BY DEF Candidates
  <2>3. \A k \in Feeders : seen[k][h] \in Nat /\ seen[k][h] <= seen[g][h]
    BY <2>2, RowTypes DEF Newest
  <2>4. h \in hosts[g]
    <3>. SUFFICES ASSUME h \notin hosts[g] PROVE FALSE
      OBVIOUS
    <3>1. Doomed(g, h) /\ seen[g][h] \in RowsOf(g, h)
      BY <2>2 DEF Doomed, InPart, RowsOf
    <3>2. PICK k \in Feeders \ {g} : Later(g, k, h)
      BY <3>1 DEF KeptLater
    <3>. QED  BY <2>3, <3>1, <3>2 DEF Later
  <2>5. \A t \in RowsOf(f, h) : t < seen[g][h]
    <3>1. seen[f][h] \in RowsOf(f, h) /\ seen[g][h] \in RowsOf(g, h) /\ seen[f][h] <= seen[g][h]
      BY <2>1, <2>2, <2>3 DEF RowsOf
    <3>. QED  BY <2>2, <3>1 DEF Apart
  <2>. QED  BY <2>2, <2>4, <2>5 DEF Later
<1>. QED  BY <1>1, <1>2

LEMMA KeptLaterStep ==
  ASSUME TypeOK, LeftInv, Step, NEW h \in Hosts, home[h] \notin left[h], Apart(h), KeptLater(h)
  PROVE  KeptLater(h)'
<1>. SUFFICES ASSUME NEW f \in Feeders, Doomed(f, h)' PROVE \E g \in Feeders \ {f} : Later(f, g, h)'
  BY DEF KeptLater
<1>1. CASE Query /\ f = hub /\ h \in Candidates(f)
  <2>1. PICK g \in Feeders \ {f} : Later(f, g, h)
    BY <1>1, CandidateLater
  <2>2. UNCHANGED <<known, dump, arrived, hosts, seen>>
    BY <1>1 DEF Query, around, feeders
  <2>. QED  BY <2>1, <2>2 DEF Later, RowsOf, DumpRow, ArrivedRow
<1>2. CASE Doomed(f, h)
  <2>1. PICK g \in Feeders \ {f} : Later(f, g, h)
    BY <1>2 DEF KeptLater
  <2>2. f # home[h]
    BY <1>2, HomeFacts
  <2>3. RowsOf(f, h)' \subseteq RowsOf(f, h)
    BY <2>2, RowsShrink DEF RowReported
  <2>. QED  BY <2>1, <2>3, StaysLater
<1>. QED  BY <1>1, <1>2, NewlyDoomed

LEMMA AwayStep ==
  ASSUME TypeOK, Step, NEW h \in Hosts \ returned', h \notin returned => home[h] \notin left[h]
  PROVE  h \notin returned /\ home'[h] \notin left'[h]
<1>1. ASSUME NEW k \in Hosts, NEW to \in Feeders, Move(k, to)
      PROVE  h \notin returned /\ home'[h] \notin left'[h]
  <2>1. h \notin returned /\ (k = h => to \notin left[h])
    BY <1>1 DEF Move
  <2>2. CASE k = h
    BY <1>1, <2>1, <2>2 DEF Move, TypeOK
  <2>3. CASE k # h
    BY <1>1, <2>1, <2>3 DEF Move, TypeOK
  <2>. QED  BY <2>2, <2>3
<1>2. UNCHANGED <<home, left, returned>> \/ \E k \in Hosts, to \in Feeders : Move(k, to)
  BY DEF Step, Next, Script, vars, around, world, CarryOut, Report, Dump, Deliver, Import, RemoveSecret,
     SetupSuperhub, SetupFeeder, WriteSecret, SetupOneFeeder, Begin, StatusOk, StatusUnauthenticated,
     StatusFails, Query, DeleteHost, PostSql, Kill
<1>. QED  BY <1>1, <1>2

LEMMA KeepInit == Init => KeepInv
<1>. SUFFICES ASSUME Init, NEW h \in Hosts PROVE home[h] \notin left[h] /\ Apart(h) /\ KeptLater(h)
  BY DEF KeepInv
<1>1. \A f \in Feeders : RowsOf(f, h) = {} /\ ~Doomed(f, h)
  BY DEF Init, Idle, Nothing, RowsOf, DumpRow, ArrivedRow, Doomed, Vanishing, InPart
<1>2. home[h] \notin left[h]
  BY DEF Init
<1>. QED  BY <1>1, <1>2 DEF Apart, KeptLater

LEMMA KeepStep == ASSUME TypeOK, LeftInv, KeepInv, Step PROVE KeepInv'
<1>. SUFFICES ASSUME NEW h \in Hosts \ returned'
              PROVE  (home[h] \notin left[h] /\ Apart(h) /\ KeptLater(h))'
  BY DEF KeepInv
<1>1. h \notin returned /\ home'[h] \notin left'[h]
  BY AwayStep DEF KeepInv
<1>2. home[h] \notin left[h] /\ Apart(h) /\ KeptLater(h)
  BY <1>1 DEF KeepInv
<1>3. Apart(h)' /\ KeptLater(h)'
  BY <1>2, ApartStep, KeptLaterStep
<1>. QED  BY <1>1, <1>3

LEMMA KeptOnSuperhub ==
  ASSUME TypeOK, KeepInv, Step, NEW h \in Hosts \ returned', OnSuperhub(h)
  PROVE  OnSuperhub(h)'
<1>1. KeptLater(h)
  BY AwayStep DEF KeepInv
<1>2. PICK f \in Feeders : h \in hosts[f]
  BY DEF OnSuperhub
<1>3. CASE h \in hosts'[f]
  BY <1>3 DEF OnSuperhub
<1>4. CASE h \notin hosts'[f]
  <2>1. RowImported(f, h) \/ RowRemoved(f, h)
    BY <1>2, <1>4, RowStep DEF SameShown, RowReported, RowDeleted, RowDumped
  <2>2. Doomed(f, h)
    BY <1>2, <1>4, <2>1 DEF RowImported, RowRemoved, ArrivedRow, Doomed, Vanishing, InPart
  <2>3. PICK g \in Feeders \ {f} : h \in hosts[g]
    BY <1>1, <2>2 DEF KeptLater, Later
  <2>4. SameShown(g, h)
    BY <2>1, <2>3, OthersShown
  <2>. QED  BY <2>3, <2>4 DEF SameShown, OnSuperhub
<1>. QED  BY <1>3, <1>4

(* The superhub keeps a row of every host that it knows, for any number of *)
(* feeders, hosts and migrations but back to a feeder, and whatever old    *)
(* dumps, late deletions, failing statements and killed scripts come       *)
(* between (distributed_cleanup.py:343-452).                               *)
THEOREM HostsStayKnown == Spec => LastRowKept
<1>1. Init => LeftInv /\ KeepInv
  BY InitLeft, KeepInit
<1>2. TypeOK /\ LeftInv /\ KeepInv /\ Step => (LeftInv /\ KeepInv)'
  BY LeftStep, KeepStep
<1>. DEFINE Kept == \A h \in Hosts \ returned' : OnSuperhub(h) => OnSuperhub(h)'
<1>3. TypeOK /\ KeepInv /\ Step => Kept
  BY KeptOnSuperhub
<1>. HIDE DEF Kept
<1>4. Spec => [][Kept]_vars
  BY <1>1, <1>2, <1>3, TypeCorrect, PTL DEF Spec, Step
<1>. QED  BY <1>4 DEF LastRowKept, Kept
=============================================================================
