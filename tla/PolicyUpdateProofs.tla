------------------------- MODULE PolicyUpdateProofs -------------------------
(***************************************************************************)
(* Proofs about PolicyUpdate: the type invariant and the promise of the    *)
(* stamp, StampFits, for every set of files, every list of extra paths and *)
(* every bound.  The argument: a stamp is copied before the names and the  *)
(* files it vouches for are read, and what masterfiles holds only moves on *)
(* from what was validated; so whatever is read later is good enough, and  *)
(* what could not be read takes the stamp away.                            *)
(***************************************************************************)
EXTENDS PolicyUpdate, TLAPS

Phases == {"idle", "stamp", "def", "extras", "late_extras"} \cup Dirs
Snapshots == [ver : [Files -> Versions], gone : SUBSET Files]

(* No more versions of a file than there were edits.                       *)
FewVersions == \A f \in Files : master[f] <= edits + 1

(* Masterfiles only moves on from what was validated.                      *)
MovesOn ==
    \A i \in 1 .. Len(validated) :
        /\ validated[i].gone \subseteq removed
        /\ \A f \in Files : validated[i].ver[f] <= master[f]

(* A file that the server need not have, as far as the stamp goes.         *)
MayLack(f) ==
    f \in removed \/ (f \notin validated[stamp].gone /\ validated[stamp].ver[f] = 0)

(* Phases of a run: the classes it has, and what is known of the files.    *)
PhaseInv ==
    /\ pc \notin {"idle", "stamp"} => ready
    /\ listed => pc \in Dirs \cup {"idle"}

FilesFit == \A f \in Matching : UpTo(f, stamp)

NamesInv ==
    pc \in Dirs /\ listed /\ stamp # NoStamp =>
        \A f \in Under(pc) \ names : MayLack(f)

CopiedInv ==
    pc = "inputs" /\ listed /\ stamp # NoStamp /\ ~notKept =>
        \A f \in (Matching \cap names) \ todo : UpTo(f, stamp)

FitInv ==
    /\ pc \in {"idle", "stamp"} /\ stamp # NoStamp /\ stamp \notin interrupted
          => FilesFit
    /\ pc \in {"modules", "extras"} /\ stamp # NoStamp /\ ~notKept => FilesFit
    /\ pc = "late_extras" /\ stamp # NoStamp => FilesFit

ServerInv == TypeOK /\ FewVersions

-----------------------------------------------------------------------------
(* Types                                                                   *)

LEMMA ListedType ==
    ASSUME NEW v \in Versions
    PROVE  ListedIn[v] \subseteq Files
BY ListedAssumption

LEMMA TypeInit == Init => ServerInv
<1>. SUFFICES ASSUME Init PROVE ServerInv
  OBVIOUS
<1>1. 0 \in Versions /\ 1 \in Versions
  BY BoundsAssumption DEF Versions
<1>2. master \in [Files -> Versions] /\ removed \subseteq Files /\ inputs \in [Files -> Versions]
  BY <1>1 DEF Init
<1>3. Snapshot \in Snapshots
  BY <1>2 DEF Snapshot, Snapshots
<1>4. validated \in Seq(Snapshots) /\ Len(validated) = 1
  BY <1>3 DEF Init
<1>5. stamp \in 0 .. Stamp /\ interrupted \subseteq 0 .. Stamp /\ Stamp >= 1
  BY <1>4 DEF Init, Stamp, NoStamp
<1>6. pc \in Phases
  BY DEF Init, Phases
<1>7. edits \in 0 .. MaxEdits /\ faults \in 0 .. MaxFaults /\ kills \in 0 .. MaxKills
  BY BoundsAssumption DEF Init
<1>8. FewVersions
  BY DEF FewVersions, Init
<1>. QED
  BY <1>2, <1>4, <1>5, <1>6, <1>7, <1>8 DEF Init, ServerInv, TypeOK, Snapshots, Phases

LEMMA ServerTypeStep ==
    ASSUME ServerInv, Server
    PROVE  ServerInv'
<1>1. Untouched
  BY DEF Server, Publish, Remove, Validate
<1>2. ASSUME NEW f \in Files, Publish(f)
      PROVE  ServerInv'
  <2>1. master[f] <= edits + 1 /\ edits < MaxEdits /\ edits \in Nat /\ master[f] \in Nat
    BY <1>2 DEF ServerInv, FewVersions, TypeOK, Publish, Edit, Versions
  <2>2. master[f] + 1 \in Versions
    BY <2>1, BoundsAssumption DEF Versions
  <2>3. master' \in [Files -> Versions] /\ edits' \in 0 .. MaxEdits
    BY <1>2, <2>1, <2>2, BoundsAssumption DEF Publish, Edit, ServerInv, TypeOK
  <2>4. FewVersions'
    BY <1>2, <2>1, <2>3 DEF Publish, Edit, FewVersions, ServerInv, TypeOK, Versions
  <2>. QED
    BY <1>1, <1>2, <2>3, <2>4 DEF Publish, Untouched, hostVars, classVars, scanVars,
       ServerInv, TypeOK, Stamp
<1>3. ASSUME NEW f \in Files, Remove(f)
      PROVE  ServerInv'
  <2>1. edits' \in 0 .. MaxEdits /\ removed' \subseteq Files
    BY <1>3, BoundsAssumption DEF Remove, Edit, ServerInv, TypeOK
  <2>2. FewVersions'
    BY <1>3 DEF Remove, Edit, FewVersions, ServerInv, TypeOK, Versions
  <2>. QED
    BY <1>1, <1>3, <2>1, <2>2 DEF Remove, Untouched, hostVars, classVars, scanVars,
       ServerInv, TypeOK, Stamp
<1>4. ASSUME Validate
      PROVE  ServerInv'
  <2>1. Snapshot \in Snapshots /\ validated \in Seq(Snapshots)
    BY DEF ServerInv, TypeOK, Snapshot, Snapshots
  <2>2. validated' \in Seq(Snapshots) /\ Len(validated') = Len(validated) + 1
    BY <1>4, <2>1 DEF Validate
  <2>3. Len(validated) \in Nat
    BY <2>1
  <2>4. stamp' \in 0 .. Stamp' /\ interrupted' \subseteq 0 .. Stamp' /\ Stamp' >= 1
    BY <1>1, <2>2, <2>3 DEF Untouched, hostVars, ServerInv, TypeOK, Stamp
  <2>5. FewVersions'
    BY <1>4 DEF Validate, FewVersions, ServerInv
  <2>. QED
    BY <1>1, <1>4, <2>2, <2>4, <2>5 DEF Validate, Untouched, hostVars, classVars, scanVars,
       ServerInv, TypeOK, Snapshots
<1>. QED  BY <1>2, <1>3, <1>4 DEF Server

(* What a step of the agent leaves alone.                                  *)
ServerSame == UNCHANGED <<master, removed, validated, edits, hub, disabled>>

LEMMA AgentLeavesServer == (Agent \/ Kill) => ServerSame
BY DEF Agent, Kill, ServerSame, Running, serverVars, Start, CopyStamp, CopyDef, ListDir,
   ListFails, PurgeDir, DeleteStamp, End, CopyFile, CopyExtra

HostType ==
    /\ inputs \in [Files -> Versions] /\ stamp \in 0 .. Stamp
    /\ interrupted \subseteq 0 .. Stamp
    /\ faults \in 0 .. MaxFaults /\ kills \in 0 .. MaxKills
RunType ==
    /\ pc \in Phases
    /\ ready \in BOOLEAN /\ extras \subseteq Files
    /\ defUpdated \in BOOLEAN /\ notKept \in BOOLEAN
    /\ listed \in BOOLEAN /\ names \subseteq Files /\ todo \subseteq Files

LEMMA TypeFromParts ==
    ASSUME ServerInv, ServerSame, HostType', RunType'
    PROVE  ServerInv'
BY DEF ServerInv, ServerSame, HostType, RunType, TypeOK, Stamp, FewVersions, Phases

LEMMA PartsOfType == ServerInv => HostType /\ RunType
BY DEF ServerInv, TypeOK, HostType, RunType, Phases

LEMMA FailureType ==
    ASSUME ServerInv
    PROVE  /\ Failure => faults' \in 0 .. MaxFaults
           /\ \A f \in Files : Fetched(f) =>
                  inputs' \in [Files -> Versions] /\ faults' \in 0 .. MaxFaults
           /\ \A f \in Files : NotFetched(f) =>
                  inputs' \in [Files -> Versions] /\ faults' \in 0 .. MaxFaults
<1>1. Failure => faults' \in 0 .. MaxFaults
  BY BoundsAssumption DEF ServerInv, TypeOK, Failure
<1>. QED  BY <1>1 DEF ServerInv, TypeOK, Fetched, NotFetched

LEMMA AgentTypeStep ==
    ASSUME ServerInv, Agent \/ Kill
    PROVE  ServerInv'
<1>0. ServerSame
  BY AgentLeavesServer
<1>1. HostType /\ RunType
  BY PartsOfType
<1>2. Stamp' = Stamp /\ Stamp \in Nat
  <2>1. validated \in Seq(Snapshots)
    BY DEF ServerInv, TypeOK, Snapshots
  <2>. QED  BY <1>0, <2>1 DEF ServerSame, Stamp
<1>3. SUFFICES HostType' /\ RunType'
  BY <1>0, TypeFromParts
<1>4. DefJson \in Files /\ Matching \subseteq Files /\ InModules \subseteq Files
  BY FilesAssumption
<1>5. ListedIn[inputs[DefJson]] \subseteq Files
  BY <1>1, <1>4, ListedType DEF HostType
<1>6. CASE Start
  BY <1>1, <1>2, <1>5, <1>6 DEF Start, Running, hostVars, serverVars, HostType, RunType, Phases, Dirs
<1>7. CASE CopyStamp
  <2>0. Stamp \in 0 .. Stamp
    BY <1>2
  <2>1. stamp' \in 0 .. Stamp /\ ready' \in BOOLEAN
    BY <1>1, <1>7, <2>0 DEF CopyStamp, HostType, RunType
  <2>3. faults' \in 0 .. MaxFaults
    BY <1>1, <1>7, FailureType DEF CopyStamp, HostType
  <2>2. pc' \in Phases
    BY <1>7 DEF CopyStamp, AfterStamp, Phases
  <2>. QED
    BY <1>1, <1>2, <1>7, <2>1, <2>2, <2>3 DEF CopyStamp, Running, scanVars, HostType, RunType
<1>8. CASE CopyDef
  <2>1. inputs' \in [Files -> Versions] /\ faults' \in 0 .. MaxFaults /\ defUpdated' \in BOOLEAN
    BY <1>1, <1>4, <1>8, FailureType DEF CopyDef, RunType
  <2>2. pc' \in Phases
    BY <1>8 DEF CopyDef, Phases, Dirs
  <2>. QED
    BY <1>1, <1>2, <1>8, <2>1, <2>2 DEF CopyDef, Running, scanVars, HostType, RunType
<1>9. CASE ListDir
  BY <1>1, <1>2, <1>4, <1>9 DEF ListDir, Running, hostVars, classVars, HostType, RunType, Under, Selected
<1>10. CASE ListFails
  <2>1. faults' \in 0 .. MaxFaults
    BY <1>10, FailureType DEF ListFails
  <2>2. pc' \in Phases /\ todo' \subseteq Files /\ names' = {} /\ listed' = FALSE
    BY <1>1, <1>10 DEF ListFails, NextDir, Phases, Dirs, RunType
  <2>3. notKept' \in BOOLEAN
    BY <1>1, <1>10 DEF ListFails, NotKeptIn, RunType
  <2>. QED
    BY <1>1, <1>2, <1>10, <2>1, <2>2, <2>3 DEF ListFails, Running, hostVars, HostType, RunType
<1>11. CASE PurgeDir
  <2>1. inputs' \in [Files -> Versions]
    <3>1. 0 \in Versions
      BY BoundsAssumption DEF Versions
    <3>. QED  BY <1>1, <1>11, <3>1 DEF PurgeDir, HostType
  <2>2. pc' \in Phases /\ todo' \subseteq Files /\ names' = {} /\ listed' = FALSE
    BY <1>1, <1>11 DEF PurgeDir, NextDir, Phases, Dirs, RunType
  <2>. QED
    BY <1>1, <1>2, <1>11, <2>1, <2>2 DEF PurgeDir, Running, classVars, HostType, RunType
<1>12. CASE DeleteStamp
  <2>1. stamp' \in 0 .. Stamp
    BY <1>1, <1>2, <1>12 DEF DeleteStamp, StampAfterCopy, NoStamp, HostType
  <2>2. pc' \in Phases /\ todo' \subseteq Files
    BY <1>5, <1>12 DEF DeleteStamp, LateExtras, Phases
  <2>. QED
    BY <1>1, <1>2, <1>12, <2>1, <2>2 DEF DeleteStamp, Running, classVars, HostType, RunType
<1>13. CASE End
  BY <1>1, <1>2, <1>13 DEF End, Running, hostVars, classVars, scanVars, HostType, RunType, Phases
<1>14. ASSUME NEW f \in Files, CopyFile(f)
       PROVE  HostType' /\ RunType'
  <2>1. inputs' \in [Files -> Versions] /\ faults' \in 0 .. MaxFaults
    BY <1>14, FailureType DEF CopyFile
  <2>2. notKept' \in BOOLEAN
    BY <1>1, <1>14 DEF CopyFile, NotKeptIn, RunType
  <2>3. todo' \subseteq Files
    BY <1>1, <1>14 DEF CopyFile, RunType
  <2>. QED
    BY <1>1, <1>2, <1>14, <2>1, <2>2, <2>3 DEF CopyFile, Running, HostType, RunType
<1>15. ASSUME NEW f \in Files, CopyExtra(f)
       PROVE  HostType' /\ RunType'
  <2>1. inputs' \in [Files -> Versions] /\ faults' \in 0 .. MaxFaults
    BY <1>15, FailureType DEF CopyExtra
  <2>2. todo' \subseteq Files
    BY <1>1, <1>15 DEF CopyExtra, RunType
  <2>. QED
    BY <1>1, <1>2, <1>15, <2>1, <2>2 DEF CopyExtra, Running, classVars, HostType, RunType
<1>16. CASE Kill
  <2>1. kills' \in 0 .. MaxKills
    BY <1>1, <1>16, BoundsAssumption DEF Kill, HostType
  <2>2. interrupted' \subseteq 0 .. Stamp
    BY <1>1, <1>16 DEF Kill, HostType
  <2>3. pc' \in Phases
    BY <1>16 DEF Kill, Phases
  <2>. QED
    BY <1>1, <1>2, <1>16, <2>1, <2>2, <2>3 DEF Kill, hostVars, classVars, scanVars, HostType, RunType
<1>. QED
  BY <1>6, <1>7, <1>8, <1>9, <1>10, <1>11, <1>12, <1>13, <1>14, <1>15, <1>16 DEF Agent

LEMMA StutterType == ServerInv /\ UNCHANGED vars => ServerInv'
BY DEF ServerInv, vars, serverVars, hostVars, classVars, scanVars, TypeOK, Stamp, FewVersions

LEMMA TypeStep == ServerInv /\ [Next]_vars => ServerInv'
BY ServerTypeStep, AgentTypeStep, StutterType DEF Next

(* Every variable of policy server, host and agent run keeps its type      *)
(* (update_policy.cf:168-335).                                             *)
THEOREM TypeCorrect == Spec => []TypeOK
<1>1. Init => ServerInv
  BY TypeInit
<1>2. ServerInv /\ [Next]_vars => ServerInv'
  BY TypeStep
<1>3. ServerInv => TypeOK
  BY DEF ServerInv
<1>. QED  BY <1>1, <1>2, <1>3, PTL DEF Spec

-----------------------------------------------------------------------------
(* The stamp                                                               *)

Inv == MovesOn /\ PhaseInv /\ NamesInv /\ CopiedInv /\ FitInv

LEMMA StampIndex ==
    ASSUME ServerInv
    PROVE  /\ Len(validated) \in Nat /\ validated \in Seq(Snapshots)
           /\ stamp # NoStamp => stamp \in 1 .. Len(validated)
           /\ Stamp \in 1 .. Len(validated)
<1>1. validated \in Seq(Snapshots) /\ stamp \in 0 .. Stamp /\ Stamp >= 1
  BY DEF ServerInv, TypeOK, Snapshots
<1>. QED  BY <1>1 DEF Stamp, NoStamp

LEMMA InitFits == Init => Inv
<1>. SUFFICES ASSUME Init PROVE Inv
  OBVIOUS
<1>1. ServerInv
  BY TypeInit
<1>2. Len(validated) = 1 /\ validated[1] = Snapshot
  BY DEF Init
<1>3. MovesOn
  BY <1>1, <1>2 DEF MovesOn, Snapshot, ServerInv, TypeOK, Versions
<1>4. stamp # NoStamp => FilesFit
  <2>. SUFFICES ASSUME stamp # NoStamp, NEW f \in Matching PROVE UpTo(f, stamp)
    BY DEF FilesFit
  <2>1. stamp = 1 /\ f \in Files
    BY <1>1, <1>2, StampIndex, FilesAssumption
  <2>2. inputs[f] = master[f] /\ master[f] \in Nat /\ removed = {}
    BY <1>1, <2>1 DEF Init, ServerInv, TypeOK, Versions
  <2>. QED  BY <1>2, <2>1, <2>2 DEF UpTo, Snapshot
<1>. QED
  BY <1>3, <1>4 DEF Init, Inv, PhaseInv, NamesInv, CopiedInv, FitInv, Dirs

(* What the server does never spoils a file that is good enough.           *)
LEMMA ServerKeeps ==
    ASSUME ServerInv, MovesOn, Server
    PROVE  /\ MovesOn'
           /\ removed \subseteq removed'
           /\ stamp # NoStamp => validated'[stamp] = validated[stamp]
           /\ Untouched
<1>0. Untouched
  BY DEF Server, Publish, Remove, Validate
<1>1. Len(validated) \in Nat /\ validated \in Seq(Snapshots)
  BY StampIndex
<1>2. ASSUME NEW g \in Files, Publish(g) \/ Remove(g)
      PROVE  MovesOn' /\ removed \subseteq removed' /\ validated' = validated
  <2>1. validated' = validated /\ removed \subseteq removed'
    BY <1>2 DEF Publish, Remove
  <2>2. \A f \in Files : master[f] \in Nat /\ master'[f] \in Nat /\ master[f] <= master'[f]
    <3>1. master \in [Files -> Nat]
      BY DEF ServerInv, TypeOK, Versions
    <3>2. master' = [master EXCEPT ![g] = @ + 1] \/ master' = master
      BY <1>2 DEF Publish, Remove
    <3>. QED  BY <3>1, <3>2
  <2>3. \A i \in 1 .. Len(validated) : \A f \in Files : validated[i].ver[f] \in Nat
    <3>1. \A i \in 1 .. Len(validated) : validated[i] \in Snapshots
      BY <1>1
    <3>. QED  BY <3>1 DEF Snapshots, Versions
  <2>. QED  BY <2>1, <2>2, <2>3 DEF MovesOn
<1>3. ASSUME Validate
      PROVE  /\ MovesOn' /\ removed \subseteq removed'
             /\ \A i \in 1 .. Len(validated) : validated'[i] = validated[i]
  <2>1. validated' = Append(validated, Snapshot) /\ master' = master /\ removed' = removed
    BY <1>3 DEF Validate
  <2>2. Len(validated') = Len(validated) + 1 /\ validated'[Len(validated) + 1] = Snapshot
    BY <1>1, <2>1
  <2>3. \A i \in 1 .. Len(validated) : validated'[i] = validated[i]
    BY <1>1, <2>1
  <2>4. \A f \in Files : master[f] <= master[f]
    BY DEF ServerInv, TypeOK, Versions
  <2>5. MovesOn'
    <3>. SUFFICES ASSUME NEW i \in 1 .. Len(validated')
                  PROVE  /\ validated'[i].gone \subseteq removed'
                         /\ \A f \in Files : validated'[i].ver[f] <= master'[f]
      BY DEF MovesOn
    <3>1. CASE i \in 1 .. Len(validated)
      BY <2>1, <2>3, <3>1 DEF MovesOn
    <3>2. CASE i = Len(validated) + 1
      BY <2>1, <2>2, <2>4, <3>2 DEF Snapshot
    <3>. QED  BY <1>1, <2>2, <3>1, <3>2
  <2>. QED  BY <2>1, <2>3, <2>5
<1>. QED
  BY <1>0, <1>2, <1>3, StampIndex DEF Server

LEMMA ServerFits ==
    ASSUME ServerInv, Inv, Server
    PROVE  Inv'
<1>0. /\ MovesOn' /\ removed \subseteq removed' /\ Untouched
      /\ stamp # NoStamp => validated'[stamp] = validated[stamp]
  BY ServerKeeps DEF Inv
<1>1. /\ stamp' = stamp /\ inputs' = inputs /\ pc' = pc /\ ready' = ready /\ listed' = listed
      /\ names' = names /\ todo' = todo /\ notKept' = notKept /\ interrupted' = interrupted
  BY <1>0 DEF Untouched, hostVars, classVars, scanVars
<1>2. ASSUME stamp # NoStamp, NEW f \in Files, UpTo(f, stamp)
      PROVE  UpTo(f, stamp)'
  BY <1>0, <1>1, <1>2 DEF UpTo
<1>3. ASSUME stamp # NoStamp, NEW f \in Files, MayLack(f)
      PROVE  MayLack(f)'
  BY <1>0, <1>1, <1>3 DEF MayLack
<1>4. Matching \subseteq Files /\ InModules \subseteq Files
  BY FilesAssumption
<1>5. FilesFit /\ stamp # NoStamp => FilesFit'
  BY <1>2, <1>4 DEF FilesFit
<1>6. FitInv'
  BY <1>1, <1>5 DEF Inv, FitInv
<1>7. NamesInv'
  BY <1>1, <1>3, <1>4 DEF Inv, NamesInv, Under
<1>8. CopiedInv'
  BY <1>1, <1>2, <1>4 DEF Inv, CopiedInv
<1>9. PhaseInv'
  BY <1>1 DEF Inv, PhaseInv
<1>. QED  BY <1>0, <1>6, <1>7, <1>8, <1>9 DEF Inv

(* A file that is fetched now is good enough for every stamp.              *)
LEMMA FetchedFits ==
    ASSUME ServerInv, MovesOn, ServerSame, stamp # NoStamp, stamp' = stamp,
           NEW f \in Files, Fetched(f)
    PROVE  UpTo(f, stamp)'
<1>1. stamp \in 1 .. Len(validated) /\ validated' = validated /\ removed' = removed
  BY StampIndex DEF ServerSame
<1>2. inputs'[f] = master[f] /\ f \notin removed
  BY DEF Fetched, There, ServerInv, TypeOK
<1>3. validated[stamp].ver[f] <= master[f] /\ validated[stamp].gone \subseteq removed
  BY <1>1 DEF MovesOn
<1>. QED  BY <1>1, <1>2, <1>3 DEF UpTo

(* A transfer leaves the files that are good enough as they are.           *)
LEMMA TransferKeeps ==
    ASSUME ServerInv, MovesOn, ServerSame, stamp # NoStamp, stamp' = stamp,
           NEW g \in Files, Fetched(g) \/ NotFetched(g),
           NEW f \in Files, UpTo(f, stamp)
    PROVE  UpTo(f, stamp)'
<1>1. CASE Fetched(g) /\ f = g
  BY <1>1, FetchedFits
<1>2. CASE ~(Fetched(g) /\ f = g)
  <2>1. inputs'[f] = inputs[f]
    BY <1>2 DEF Fetched, NotFetched, ServerInv, TypeOK
  <2>. QED  BY <2>1 DEF UpTo, ServerSame
<1>. QED  BY <1>1, <1>2

(* What a listing does not show may be lacking.                            *)
LEMMA UnlistedMayLack ==
    ASSUME ServerInv, MovesOn, stamp # NoStamp, NEW f \in Files, ~There(f)
    PROVE  MayLack(f)
<1>1. stamp \in 1 .. Len(validated)
  BY StampIndex
<1>2. validated[stamp] \in Snapshots
  BY <1>1, StampIndex
<1>3. validated[stamp].ver[f] \in Nat /\ master[f] \in Nat
  BY <1>2 DEF Snapshots, Versions, ServerInv, TypeOK
<1>4. validated[stamp].ver[f] <= master[f] /\ validated[stamp].gone \subseteq removed
  BY <1>1 DEF MovesOn
<1>. QED  BY <1>3, <1>4 DEF There, MayLack

(* Steps that leave files and stamp alone, at the same place of the run.   *)
LEMMA SamePlace ==
    ASSUME ServerSame, inputs' = inputs, stamp' = stamp
    PROVE  /\ FilesFit <=> FilesFit'
           /\ \A f : UpTo(f, stamp) <=> UpTo(f, stamp)'
           /\ \A f : MayLack(f) <=> MayLack(f)'
BY DEF ServerSame, FilesFit, UpTo, MayLack

LEMMA MovesOnKept == MovesOn /\ ServerSame => MovesOn'
BY DEF MovesOn, ServerSame

LEMMA StartFits ==
    ASSUME ServerInv, Inv, Start \/ CopyStamp \/ CopyDef \/ End \/ Kill
    PROVE  Inv'
<1>0. ServerSame
  BY AgentLeavesServer DEF Agent
<1>1. MovesOn'
  BY <1>0, MovesOnKept DEF Inv
<1>2. CASE Start
  <2>1. inputs' = inputs /\ stamp' = stamp /\ interrupted' = interrupted
    BY <1>2 DEF Start, hostVars, Running
  <2>2. pc = "idle" /\ listed' = FALSE /\ (pc' = "stamp" \/ (pc' = "inputs" /\ ready'))
    BY <1>2 DEF Start
  <2>. QED
    BY <1>0, <1>1, <2>1, <2>2, SamePlace DEF Inv, PhaseInv, NamesInv, CopiedInv, FitInv, Dirs
<1>3. CASE CopyStamp
  <2>1. inputs' = inputs /\ interrupted' = interrupted /\ listed' = listed /\ ~listed
    BY <1>3 DEF CopyStamp, Running, scanVars, Inv, PhaseInv, Dirs
  <2>2. \/ pc' = "def" /\ ready'
        \/ pc' = "idle" /\ stamp' = stamp
    BY <1>3 DEF CopyStamp, AfterStamp
  <2>3. pc = "stamp"
    BY <1>3 DEF CopyStamp
  <2>. QED
    BY <1>0, <1>1, <2>1, <2>2, <2>3, SamePlace DEF Inv, PhaseInv, NamesInv, CopiedInv, FitInv, Dirs
<1>4. CASE CopyDef
  <2>1. pc = "def" /\ pc' = "inputs" /\ ready' = ready /\ listed' = listed
    BY <1>4 DEF CopyDef, scanVars
  <2>. QED
    BY <1>1, <2>1 DEF Inv, PhaseInv, NamesInv, CopiedInv, FitInv, Dirs
<1>5. CASE End
  <2>1. inputs' = inputs /\ stamp' = stamp /\ interrupted' = interrupted /\ listed' = listed
    BY <1>5 DEF End, hostVars, scanVars, Running
  <2>2. pc = "late_extras" /\ pc' = "idle"
    BY <1>5 DEF End
  <2>. QED
    BY <1>0, <1>1, <2>1, <2>2, SamePlace DEF Inv, PhaseInv, NamesInv, CopiedInv, FitInv, Dirs
<1>6. CASE Kill
  <2>1. inputs' = inputs /\ stamp' = stamp /\ pc' = "idle" /\ pc # "idle"
    BY <1>6 DEF Kill, hostVars
  <2>2. CASE ready
    <3>1. stamp' \in interrupted'
      BY <1>6, <2>1, <2>2 DEF Kill
    <3>. QED
      BY <1>1, <2>1, <3>1 DEF Inv, PhaseInv, NamesInv, CopiedInv, FitInv, Dirs
  <2>3. CASE ~ready
    <3>1. pc = "stamp" /\ interrupted' = interrupted
      BY <1>6, <2>1, <2>3 DEF Kill, Inv, PhaseInv
    <3>. QED
      BY <1>0, <1>1, <2>1, <3>1, SamePlace DEF Inv, PhaseInv, NamesInv, CopiedInv, FitInv, Dirs
  <2>. QED  BY <2>2, <2>3
<1>. QED  BY <1>2, <1>3, <1>4, <1>5, <1>6

LEMMA ListFits ==
    ASSUME ServerInv, Inv, ListDir \/ ListFails \/ DeleteStamp
    PROVE  Inv'
<1>0. ServerSame
  BY AgentLeavesServer DEF Agent
<1>1. MovesOn'
  BY <1>0, MovesOnKept DEF Inv
<1>2. CASE ListDir
  <2>1. /\ inputs' = inputs /\ stamp' = stamp /\ pc' = pc /\ ready' = ready
        /\ notKept' = notKept /\ interrupted' = interrupted
    BY <1>2 DEF ListDir, hostVars, classVars, Running
  <2>2. /\ pc \in Dirs /\ listed' /\ names' = {f \in Under(pc) : There(f)}
        /\ todo' = names' \cap Selected(pc)
    BY <1>2 DEF ListDir
  <2>3. NamesInv'
    <3>1. ASSUME stamp # NoStamp, NEW f \in Under(pc) \ names'
          PROVE  MayLack(f)
      <4>1. f \in Files /\ ~There(f)
        BY <2>2, <3>1, FilesAssumption DEF Under
      <4>. QED  BY <3>1, <4>1, UnlistedMayLack DEF Inv
    <3>. QED  BY <1>0, <2>1, <3>1, SamePlace DEF NamesInv, Under
  <2>4. CopiedInv'
    BY <2>1, <2>2 DEF CopiedInv, Selected
  <2>5. FitInv'
    BY <1>0, <2>1, SamePlace DEF Inv, FitInv
  <2>6. PhaseInv'
    BY <2>1, <2>2 DEF Inv, PhaseInv
  <2>. QED  BY <1>1, <2>3, <2>4, <2>5, <2>6 DEF Inv
<1>3. CASE ListFails
  <2>1. /\ inputs' = inputs /\ stamp' = stamp /\ ready' = ready /\ interrupted' = interrupted
        /\ pc \in Dirs /\ listed' = FALSE
    BY <1>3 DEF ListFails, NextDir, hostVars, Running
  <2>2. \/ pc = "inputs" /\ pc' = "modules" /\ notKept'
        \/ pc = "modules" /\ pc' = "extras" /\ notKept' = notKept
    <3>1. notKept \in BOOLEAN
      BY DEF ServerInv, TypeOK
    <3>. QED  BY <1>3, <3>1 DEF ListFails, NextDir, NotKeptIn, Dirs
  <2>. QED
    BY <1>0, <1>1, <2>1, <2>2, SamePlace DEF Inv, PhaseInv, NamesInv, CopiedInv, FitInv, Dirs
<1>4. CASE DeleteStamp
  <2>1. /\ inputs' = inputs /\ ready' = ready /\ interrupted' = interrupted /\ listed' = listed
        /\ pc = "extras" /\ pc' = "late_extras"
    BY <1>4 DEF DeleteStamp, classVars, Running
  <2>2. stamp' = NoStamp \/ (~notKept /\ stamp' = stamp)
    BY <1>4 DEF DeleteStamp, StampAfterCopy
  <2>. QED
    BY <1>0, <1>1, <2>1, <2>2, SamePlace DEF Inv, PhaseInv, NamesInv, CopiedInv, FitInv, Dirs
<1>. QED  BY <1>2, <1>3, <1>4

LEMMA CopyFits ==
    ASSUME ServerInv, Inv, NEW g \in Files, CopyFile(g) \/ CopyExtra(g)
    PROVE  Inv'
<1>0. ServerSame
  BY AgentLeavesServer DEF Agent
<1>1. MovesOn'
  BY <1>0, MovesOnKept DEF Inv
<1>2. /\ stamp' = stamp /\ pc' = pc /\ ready' = ready /\ interrupted' = interrupted
      /\ listed' = listed /\ names' = names /\ todo' = todo \ {g}
      /\ Fetched(g) \/ NotFetched(g)
      /\ pc \in Dirs \cup {"extras", "late_extras"}
  BY DEF CopyFile, CopyExtra, classVars, Running
<1>3. notKept' = notKept \/ (pc = "inputs" /\ notKept')
  <2>1. notKept \in BOOLEAN
    BY DEF ServerInv, TypeOK
  <2>. QED  BY <2>1 DEF CopyFile, CopyExtra, classVars, NotKeptIn, Dirs
<1>4. pc = "inputs" /\ ~notKept' => Fetched(g) /\ ~notKept
  BY DEF CopyFile, CopyExtra, NotKeptIn
<1>5. ASSUME stamp # NoStamp, NEW f \in Files, UpTo(f, stamp)
      PROVE  UpTo(f, stamp)'
  BY <1>0, <1>2, <1>5, TransferKeeps DEF Inv
<1>6. Matching \subseteq Files
  BY FilesAssumption
<1>7. stamp # NoStamp /\ FilesFit => FilesFit'
  BY <1>5, <1>6 DEF FilesFit
<1>8. FitInv'
  BY <1>2, <1>3, <1>7 DEF Inv, FitInv, Dirs
<1>9. NamesInv'
  BY <1>0, <1>2 DEF Inv, NamesInv, Under, MayLack, ServerSame
<1>10. CopiedInv'
  <2>. SUFFICES ASSUME pc = "inputs", listed, stamp # NoStamp, ~notKept',
                       NEW f \in (Matching \cap names) \ todo'
                PROVE  UpTo(f, stamp)'
    BY <1>2 DEF CopiedInv
  <2>1. Fetched(g) /\ ~notKept
    BY <1>4
  <2>2. CASE f = g
    BY <1>0, <1>2, <2>1, <2>2, FetchedFits DEF Inv
  <2>3. CASE f # g
    <3>1. f \in (Matching \cap names) \ todo
      BY <1>2, <2>3
    <3>2. UpTo(f, stamp)
      BY <2>1, <3>1 DEF Inv, CopiedInv
    <3>. QED  BY <1>5, <1>6, <3>2
  <2>. QED  BY <2>2, <2>3
<1>11. PhaseInv'
  BY <1>2 DEF Inv, PhaseInv
<1>. QED  BY <1>1, <1>8, <1>9, <1>10, <1>11 DEF Inv

LEMMA PurgeFits ==
    ASSUME ServerInv, Inv, PurgeDir
    PROVE  Inv'
<1>0. ServerSame
  BY AgentLeavesServer DEF Agent
<1>1. MovesOn'
  BY <1>0, MovesOnKept DEF Inv
<1>2. /\ stamp' = stamp /\ ready' = ready /\ notKept' = notKept /\ interrupted' = interrupted
      /\ listed' = FALSE /\ pc \in Dirs /\ listed /\ todo = {}
      /\ inputs' = [f \in Files |-> IF f \in Purged(pc) THEN 0 ELSE inputs[f]]
  BY DEF PurgeDir, NextDir, classVars, Running
<1>3. \/ pc = "inputs" /\ pc' = "modules"
      \/ pc = "modules" /\ pc' = "extras"
  BY DEF PurgeDir, NextDir, Dirs
<1>4. stamp # NoStamp /\ ~notKept => FilesFit'
  <2>. SUFFICES ASSUME stamp # NoStamp, ~notKept, NEW f \in Matching
                PROVE  UpTo(f, stamp)'
    BY DEF FilesFit
  <2>1. f \in Files
    BY FilesAssumption
  <2>2. CASE f \in Purged(pc)
    <3>1. MayLack(f)
      BY <1>2, <2>2 DEF Inv, NamesInv, Purged
    <3>2. inputs'[f] = 0
      BY <1>2, <2>1, <2>2
    <3>. QED  BY <1>0, <1>2, <3>1, <3>2 DEF MayLack, UpTo, ServerSame
  <2>3. CASE f \notin Purged(pc)
    <3>1. inputs'[f] = inputs[f]
      BY <1>2, <2>1, <2>3
    <3>2. UpTo(f, stamp)
      BY <1>2, <1>3, <2>1, <2>3 DEF Inv, CopiedInv, FitInv, FilesFit, Purged, Under
    <3>. QED  BY <1>0, <1>2, <3>1, <3>2 DEF UpTo, ServerSame
  <2>. QED  BY <2>2, <2>3
<1>. QED
  BY <1>1, <1>2, <1>3, <1>4 DEF Inv, PhaseInv, NamesInv, CopiedInv, FitInv, Dirs

LEMMA StutterFits ==
    ASSUME ServerInv, Inv, UNCHANGED vars
    PROVE  Inv'
<1>1. ServerSame /\ inputs' = inputs /\ stamp' = stamp
  BY DEF ServerSame, vars, serverVars, hostVars
<1>2. /\ pc' = pc /\ ready' = ready /\ notKept' = notKept /\ interrupted' = interrupted
      /\ listed' = listed /\ names' = names /\ todo' = todo
  BY DEF vars, classVars, scanVars
<1>3. MovesOn'
  BY <1>1, MovesOnKept DEF Inv
<1>. QED
  BY <1>1, <1>2, <1>3, SamePlace DEF Inv, PhaseInv, NamesInv, CopiedInv, FitInv, Under

LEMMA InvStep == ServerInv /\ Inv /\ [Next]_vars => Inv'
BY ServerFits, StartFits, ListFits, CopyFits, PurgeFits, StutterFits DEF Next, Agent

(* A stamp that a host holds between two runs vouches for every file that  *)
(* matches the name patterns, whatever failed and whatever changed while   *)
(* the files were copied, unless a run was killed that copied for this     *)
(* very stamp (update_policy.cf:269-303, 330-335).                         *)
THEOREM StampVouches == Spec => []StampFits
<1>1. Init => ServerInv /\ Inv
  BY TypeInit, InitFits
<1>2. ServerInv /\ Inv /\ [Next]_vars => (ServerInv /\ Inv)'
  BY TypeStep, InvStep
<1>3. ServerInv /\ Inv => StampFits
  BY DEF Inv, FitInv, FilesFit, StampFits, Stamped
<1>. QED  BY <1>1, <1>2, <1>3, PTL DEF Spec
-----------------------------------------------------------------------------
(* What the purge and the extra paths rest on: inputs has nothing newer    *)
(* than the server, and what the listing of a directory does not show was  *)
(* taken out of masterfiles or is not in inputs.                           *)

NoneNewer == \A f \in Files : inputs[f] <= master[f]

UnlistedGone ==
    pc \in Dirs /\ listed =>
        /\ todo \subseteq names
        /\ \A f \in Under(pc) \ names : f \in removed \/ inputs[f] = 0

PurgeInv == NoneNewer /\ UnlistedGone

(* The version of def.json that the stamp stands for, the extra paths that *)
(* both def.json files list, and a path that has been copied.              *)
DefStamped == validated[stamp].ver[DefJson]
Wanted == ListedIn[inputs[DefJson]] \cap ListedIn[DefStamped]
Brought(f) == f \in removed \/ inputs[f] >= validated[stamp].ver[f]
DefGone == inputs[DefJson] = 0 /\ DefJson \in removed

(* Where the paths of a run come from: the def.json it started with, when  *)
(* that was new enough, or else the one it has copied.                     *)
DefKnown ==
    \/ DefGone
    \/ pc = "inputs" /\ DefJson \in removed /\ (listed => DefJson \notin names)
    \/ defUpdated /\ DefStamped <= inputs[DefJson]
    \/ \E v \in Versions :
         extras = ListedIn[v] /\ DefStamped <= v /\ v <= inputs[DefJson]

PathsKnown ==
    /\ hub => stamp = NoStamp /\ pc \notin {"stamp", "def"}
    /\ pc \in {"stamp", "def"} => extras = ListedIn[inputs[DefJson]] /\ ~defUpdated

PathsBrought ==
    stamp # NoStamp /\ faults = 0 =>
        /\ pc \in {"idle", "stamp"} /\ stamp \notin interrupted =>
             \A f \in Wanted : Brought(f)
        /\ pc \in Dirs \cup {"extras"} => DefKnown
        /\ pc = "extras" => \A f \in extras \ todo : Brought(f)
        /\ pc = "late_extras" =>
             DefGone \/ (/\ DefStamped <= inputs[DefJson]
                         /\ \A f \in Wanted \ todo : Brought(f))

ExtrasInv == PathsKnown /\ PathsBrought

LEMMA PurgeInit == Init => PurgeInv
<1>. SUFFICES ASSUME Init PROVE PurgeInv
  OBVIOUS
<1>1. inputs = master /\ \A f \in Files : master[f] \in Nat
  BY DEF Init
<1>. QED  BY <1>1 DEF Init, PurgeInv, NoneNewer, UnlistedGone, Dirs

(* A step makes a file older only when it was removed: that is what the    *)
(* invariant and PurgesOnlyRemoved have in common.                         *)
OlderMeansRemoved == \A f \in Files : inputs'[f] < inputs[f] => f \in removed

LEMMA TransferForward ==
    ASSUME ServerInv, NoneNewer, ServerSame, NEW g \in Files, Fetched(g) \/ NotFetched(g)
    PROVE  /\ NoneNewer' /\ OlderMeansRemoved
           /\ \A f \in Files : f # g => inputs'[f] = inputs[f]
           /\ \A f \in Files : inputs[f] \in Nat /\ inputs'[f] \in Nat /\ master[f] \in Nat
<1>1. \A f \in Files : inputs[f] \in Nat /\ master[f] \in Nat /\ inputs[f] <= master[f]
  BY DEF ServerInv, TypeOK, Versions, NoneNewer
<1>2. inputs \in [Files -> Versions] /\ master' = master
  BY DEF ServerInv, TypeOK, ServerSame
<1>3. inputs' = [inputs EXCEPT ![g] = master[g]] \/ inputs' = inputs
  BY DEF Fetched, NotFetched
<1>. QED  BY <1>1, <1>2, <1>3 DEF NoneNewer, OlderMeansRemoved

LEMMA PurgeStep ==
    ASSUME ServerInv, PhaseInv, PurgeInv, [Next]_vars
    PROVE  PurgeInv' /\ OlderMeansRemoved
<1>1. \A f \in Files : inputs[f] \in Nat /\ master[f] \in Nat /\ inputs[f] <= master[f]
  BY DEF ServerInv, TypeOK, Versions, PurgeInv, NoneNewer
<1>2. ASSUME Server PROVE PurgeInv' /\ OlderMeansRemoved
  <2>1. Untouched
    BY <1>2 DEF Server, Publish, Remove, Validate
  <2>2. removed \subseteq removed' /\ \A f \in Files : master'[f] >= master[f]
    <3>1. master \in [Files -> Nat]
      BY DEF ServerInv, TypeOK, Versions
    <3>2. CASE Validate
      BY <3>1, <3>2 DEF Validate
    <3>3. ASSUME NEW g \in Files, Publish(g) \/ Remove(g)
          PROVE  /\ removed \subseteq removed'
                 /\ master' = [master EXCEPT ![g] = @ + 1] \/ master' = master
      BY <3>3 DEF Publish, Remove
    <3>. QED  BY <1>2, <3>1, <3>2, <3>3 DEF Server
  <2>3. \A f \in Files : master'[f] \in Nat
    BY <1>2, ServerTypeStep DEF ServerInv, TypeOK, Versions
  <2>. QED
    BY <1>1, <2>1, <2>2, <2>3
       DEF Untouched, hostVars, scanVars, PurgeInv, NoneNewer, UnlistedGone, OlderMeansRemoved, Under
<1>3. ASSUME Agent \/ Kill, UNCHANGED inputs, ~ListDir,
             UNCHANGED <<pc, listed, names, todo>> \/ ~listed' \/ pc' \notin Dirs
      PROVE  PurgeInv' /\ OlderMeansRemoved
  BY <1>1, <1>3, AgentLeavesServer
     DEF PurgeInv, NoneNewer, UnlistedGone, OlderMeansRemoved, ServerSame, Under
<1>4. CASE Start
  BY <1>3, <1>4 DEF Agent, Start, hostVars, ListDir, Dirs
<1>5. CASE CopyStamp
  BY <1>3, <1>5 DEF Agent, CopyStamp, AfterStamp, ListDir, Dirs
<1>6. CASE CopyDef
  <2>1. ServerSame /\ pc' = "inputs" /\ UNCHANGED <<listed, names, todo>> /\ pc = "def"
    BY <1>6, AgentLeavesServer DEF Agent, CopyDef, scanVars
  <2>2. DefJson \in Files
    BY FilesAssumption
  <2>3. NoneNewer' /\ OlderMeansRemoved
    BY <1>6, <2>1, <2>2, TransferForward DEF CopyDef, PurgeInv
  <2>4. ~listed
    BY <2>1 DEF PhaseInv, Dirs
  <2>. QED  BY <2>1, <2>3, <2>4 DEF PurgeInv, UnlistedGone
<1>7. CASE ListDir
  <2>1. ServerSame /\ UNCHANGED <<inputs, pc>> /\ pc \in Dirs
        /\ names' = {f \in Under(pc) : There(f)} /\ todo' \subseteq names'
    BY <1>7, AgentLeavesServer DEF Agent, ListDir, hostVars
  <2>2. \A f \in Under(pc) : f \in Files
    BY FilesAssumption DEF Under
  <2>3. \A f \in Under(pc) \ names' : f \in removed \/ inputs[f] = 0
    BY <1>1, <2>1, <2>2 DEF There
  <2>. QED
    BY <1>1, <2>1, <2>3 DEF PurgeInv, NoneNewer, UnlistedGone, OlderMeansRemoved, ServerSame, Under
<1>8. CASE ListFails
  BY <1>3, <1>8 DEF Agent, ListFails, NextDir, hostVars, ListDir
<1>9. ASSUME NEW g \in Files, CopyFile(g) PROVE PurgeInv' /\ OlderMeansRemoved
  <2>1. ServerSame /\ UNCHANGED <<pc, listed, names>> /\ todo' = todo \ {g} /\ g \in todo
        /\ pc \in Dirs /\ listed
    BY <1>9, AgentLeavesServer DEF Agent, CopyFile
  <2>2. /\ NoneNewer' /\ OlderMeansRemoved
        /\ \A f \in Files : f # g => inputs'[f] = inputs[f]
    BY <1>9, <2>1, TransferForward DEF CopyFile, PurgeInv
  <2>3. g \in names /\ todo \subseteq names
    BY <2>1 DEF PurgeInv, UnlistedGone
  <2>4. \A f \in Under(pc) \ names : f \in Files /\ f # g
    BY <2>3, FilesAssumption DEF Under
  <2>. QED  BY <2>1, <2>2, <2>3, <2>4 DEF PurgeInv, UnlistedGone, ServerSame, Under
<1>10. ASSUME NEW g \in Files, CopyExtra(g) PROVE PurgeInv' /\ OlderMeansRemoved
  <2>1. ServerSame /\ UNCHANGED pc /\ pc \in {"extras", "late_extras"}
    BY <1>10, AgentLeavesServer DEF Agent, CopyExtra
  <2>2. NoneNewer' /\ OlderMeansRemoved
    BY <1>10, <2>1, TransferForward DEF CopyExtra, PurgeInv
  <2>. QED  BY <2>1, <2>2 DEF PurgeInv, UnlistedGone, Dirs
<1>11. CASE PurgeDir
  <2>1. ServerSame /\ ~listed' /\ pc \in Dirs /\ listed
        /\ inputs' = [f \in Files |-> IF f \in Under(pc) \ names THEN 0 ELSE inputs[f]]
    BY <1>11, AgentLeavesServer DEF Agent, PurgeDir, NextDir, Purged
  <2>2. \A f \in Files : f \in Under(pc) \ names => f \in removed \/ inputs[f] = 0
    BY <2>1 DEF PurgeInv, UnlistedGone
  <2>3. \A f \in Files : inputs'[f] <= inputs[f] /\ (inputs'[f] < inputs[f] => f \in removed)
    BY <1>1, <2>1, <2>2
  <2>4. \A f \in Files : inputs'[f] <= master'[f]
    BY <1>1, <2>1 DEF ServerSame
  <2>. QED  BY <2>1, <2>3, <2>4 DEF PurgeInv, NoneNewer, UnlistedGone, OlderMeansRemoved
<1>12. CASE DeleteStamp
  BY <1>3, <1>12 DEF Agent, DeleteStamp, ListDir, Dirs
<1>13. CASE End
  BY <1>3, <1>13 DEF Agent, End, hostVars, ListDir, Dirs
<1>14. CASE Kill
  BY <1>3, <1>14 DEF Kill, hostVars, ListDir, Dirs
<1>15. CASE UNCHANGED vars
  BY <1>1, <1>15 DEF vars, serverVars, hostVars, scanVars, PurgeInv, NoneNewer, UnlistedGone,
                     OlderMeansRemoved, Under
<1>. QED
  BY <1>2, <1>4, <1>5, <1>6, <1>7, <1>8, <1>9, <1>10, <1>11, <1>12, <1>13, <1>14, <1>15
     DEF Next, Agent

(* A file of inputs goes away or back only when it was taken out of        *)
(* masterfiles, whatever fails, is killed or changes while directories are *)
(* listed, copied and purged (update_policy.cf:298-303, 307-314, 629).     *)
THEOREM NothingElsePurged == Spec => PurgesOnlyRemoved
<1>1. Init => ServerInv /\ Inv /\ PurgeInv
  BY TypeInit, InitFits, PurgeInit
<1>2. ServerInv /\ Inv /\ PurgeInv /\ [Next]_vars
          => (ServerInv /\ Inv /\ PurgeInv)' /\ [OlderMeansRemoved]_vars
  BY TypeStep, InvStep, PurgeStep DEF Inv
<1>. QED
  BY <1>1, <1>2, PTL DEF Spec, PurgesOnlyRemoved, OlderMeansRemoved
-----------------------------------------------------------------------------
(* The extra paths                                                         *)

(* A path that is taken off the list of extra paths is not put back.  The  *)
(* promise fails without it: a killed run may leave a def.json that lists  *)
(* the path no more, and a def.json that lists it again may come with the  *)
(* recursive copy, too late for that run's list of paths.                  *)
NotPutBack ==
    \A u, v, w \in Versions :
        u <= v /\ v <= w => ListedIn[u] \cap ListedIn[w] \subseteq ListedIn[v]

LEMMA StampedNumbers ==
    ASSUME ServerInv, MovesOn, stamp # NoStamp
    PROVE  /\ \A f \in Files : /\ inputs[f] \in Nat /\ master[f] \in Nat
                               /\ validated[stamp].ver[f] \in Nat
                               /\ validated[stamp].ver[f] <= master[f]
           /\ inputs[DefJson] \in Versions /\ DefStamped \in Versions
           /\ DefJson \in Files
<1>1. stamp \in 1 .. Len(validated) /\ validated \in Seq(Snapshots)
  BY StampIndex
<1>2. validated[stamp] \in Snapshots
  BY <1>1
<1>3. DefJson \in Files
  BY FilesAssumption
<1>. QED
  BY <1>1, <1>2, <1>3 DEF MovesOn, Snapshots, ServerInv, TypeOK, Versions, DefStamped

(* A path that has been copied stays copied: only a removed file gets older. *)
LEMMA BroughtStays ==
    ASSUME ServerInv, MovesOn, stamp # NoStamp, stamp' = stamp,
           validated'[stamp] = validated[stamp], removed \subseteq removed',
           OlderMeansRemoved, NEW f \in Files, inputs'[f] \in Nat, Brought(f)
    PROVE  Brought(f)'
<1>1. inputs[f] \in Nat /\ validated[stamp].ver[f] \in Nat
  BY StampedNumbers
<1>. QED  BY <1>1 DEF Brought, OlderMeansRemoved

(* A transfer that does not fail brings the path, and no file gets older.  *)
LEMMA TransferBrings ==
    ASSUME ServerInv, MovesOn, NoneNewer, ServerSame, stamp # NoStamp, stamp' = stamp,
           NEW g \in Files, Fetched(g) \/ NotFetched(g), faults' = 0
    PROVE  /\ faults = 0 /\ Brought(g)'
           /\ \A f \in Files : Brought(f) => Brought(f)'
           /\ inputs[DefJson] <= inputs'[DefJson] /\ inputs'[DefJson] \in Versions
           /\ DefJson \in removed => inputs'[DefJson] = inputs[DefJson]
           /\ DefStamped' = DefStamped
<1>1. /\ \A f \in Files : /\ inputs[f] \in Nat /\ master[f] \in Nat
                          /\ validated[stamp].ver[f] \in Nat
                          /\ validated[stamp].ver[f] <= master[f]
      /\ DefJson \in Files
  BY StampedNumbers
<1>2. faults \in Nat /\ inputs \in [Files -> Versions] /\ master \in [Files -> Versions]
  BY DEF ServerInv, TypeOK
<1>3. \/ There(g) /\ inputs' = [inputs EXCEPT ![g] = master[g]] /\ faults = 0
      \/ ~There(g) /\ inputs' = inputs /\ faults = 0
  BY <1>2 DEF Fetched, NotFetched, Failure
<1>4. \A f \in Files : inputs'[f] \in Nat
  BY <1>1, <1>2, <1>3
<1>5. \A f \in Files : inputs[f] <= master[f]
  BY DEF NoneNewer
<1>6. /\ validated' = validated /\ removed' = removed
  BY DEF ServerSame
<1>7. Brought(g)'
  BY <1>1, <1>2, <1>3, <1>6 DEF Brought, There
<1>8. \A f \in Files : Brought(f) => Brought(f)'
  BY <1>4, <1>6, TransferForward, BroughtStays
<1>9. /\ inputs[DefJson] <= inputs'[DefJson] /\ inputs'[DefJson] \in Versions
      /\ DefJson \in removed => inputs'[DefJson] = inputs[DefJson]
  BY <1>1, <1>2, <1>3, <1>5 DEF There
<1>. QED  BY <1>3, <1>6, <1>7, <1>8, <1>9 DEF DefStamped

LEMMA ExtrasInit == Init => ExtrasInv
<1>. SUFFICES ASSUME Init PROVE ExtrasInv
  OBVIOUS
<1>1. PathsKnown
  BY DEF Init, PathsKnown, NoStamp
<1>2. stamp # NoStamp => \A f \in Wanted : Brought(f)
  <2>. SUFFICES ASSUME stamp # NoStamp, NEW f \in Wanted PROVE Brought(f)
    OBVIOUS
  <2>1. ServerInv
    BY TypeInit
  <2>2. f \in Files /\ stamp = 1 /\ validated[1].ver = master /\ inputs = master
    <3>1. inputs[DefJson] \in Versions
      BY <2>1, FilesAssumption DEF ServerInv, TypeOK
    <3>2. f \in Files
      BY <3>1, ListedType DEF Wanted
    <3>. QED  BY <3>2 DEF Init, Snapshot, NoStamp, Stamp
  <2>. QED  BY <2>1, <2>2 DEF Brought, ServerInv, TypeOK, Versions
<1>. QED  BY <1>1, <1>2 DEF Init, ExtrasInv, PathsBrought, Dirs
(* What stays known while neither the run nor its files move on.           *)
LEMMA ExtrasSame ==
    ASSUME ServerInv, MovesOn, ExtrasInv, OlderMeansRemoved,
           stamp # NoStamp => validated'[stamp] = validated[stamp],
           removed \subseteq removed', inputs' = inputs, stamp' = stamp, pc' = pc,
           extras' = extras, defUpdated' = defUpdated, todo' = todo,
           hub' = hub, faults' = faults, interrupted' = interrupted,
           (names' = names /\ listed' = listed) \/ names' \cap removed = {}
    PROVE  ExtrasInv'
<1>1. PathsKnown'
  BY DEF ExtrasInv, PathsKnown
<1>2. SUFFICES ASSUME stamp # NoStamp, faults = 0
               PROVE  PathsBrought'
  BY <1>1 DEF ExtrasInv, PathsBrought
<1>3. /\ \A f \in Files : inputs[f] \in Nat
      /\ inputs[DefJson] \in Versions /\ DefStamped \in Versions
  BY <1>2, StampedNumbers
<1>4. Wanted' = Wanted /\ DefStamped' = DefStamped /\ Wanted \subseteq Files
  BY <1>2, <1>3, ListedType DEF Wanted, DefStamped
<1>5. \A f \in Files : Brought(f) => Brought(f)'
  BY <1>2, <1>3, BroughtStays
<1>6. DefKnown => DefKnown'
  BY <1>4 DEF DefKnown, DefGone
<1>7. extras \subseteq Files
  BY DEF ServerInv, TypeOK
<1>. QED
  BY <1>2, <1>4, <1>5, <1>6, <1>7 DEF ExtrasInv, PathsBrought, DefGone

LEMMA ExtrasServer ==
    ASSUME ServerInv, MovesOn, ExtrasInv, Server \/ UNCHANGED vars
    PROVE  ExtrasInv'
<1>1. /\ stamp # NoStamp => validated'[stamp] = validated[stamp]
      /\ removed \subseteq removed'
      /\ Untouched
  BY ServerKeeps DEF vars, serverVars, Untouched
<1>2. OlderMeansRemoved
  <2>1. \A f \in Files : inputs[f] \in Nat
    BY DEF ServerInv, TypeOK, Versions
  <2>. QED  BY <1>1, <2>1 DEF Untouched, hostVars, OlderMeansRemoved
<1>. QED
  BY <1>1, <1>2, ExtrasSame DEF Untouched, hostVars, classVars, scanVars

(* The first pass, up to the recursive copies.                             *)
LEMMA ExtrasStart ==
    ASSUME ServerInv, PhaseInv, MovesOn, NoneNewer, ExtrasInv, Start \/ CopyStamp \/ CopyDef
    PROVE  ExtrasInv'
<1>0. ServerSame
  BY AgentLeavesServer DEF Agent
<1>1. faults \in Nat
  BY DEF ServerInv, TypeOK
<1>2. CASE Start
  <2>1. /\ stamp' = stamp /\ inputs' = inputs /\ faults' = faults
        /\ interrupted' = interrupted /\ pc = "idle" /\ defUpdated' = FALSE
        /\ pc' = (IF hub THEN "inputs" ELSE "stamp") /\ extras' = ListedIn[inputs[DefJson]]
    BY <1>2 DEF Start, hostVars, Running
  <2>2. PathsKnown'
    BY <1>0, <2>1 DEF ExtrasInv, PathsKnown, ServerSame
  <2>3. stamp # NoStamp => pc' = "stamp"
    BY <2>1 DEF ExtrasInv, PathsKnown
  <2>. QED
    BY <1>0, <2>1, <2>2, <2>3
       DEF ExtrasInv, PathsBrought, ServerSame, Wanted, DefStamped, Brought, Dirs
<1>3. CASE CopyStamp
  <2>1. /\ inputs' = inputs /\ extras' = extras /\ defUpdated' = defUpdated
        /\ interrupted' = interrupted /\ pc = "stamp"
    BY <1>3 DEF CopyStamp, Running
  <2>2. \/ pc' = "def"
        \/ pc' = "idle" /\ stamp' = stamp /\ (faults' = faults \/ faults' # 0)
    BY <1>1, <1>3 DEF CopyStamp, AfterStamp, Failure
  <2>3. PathsKnown'
    BY <1>0, <2>1, <2>2 DEF ExtrasInv, PathsKnown, ServerSame
  <2>. QED
    BY <1>0, <2>1, <2>2, <2>3
       DEF ExtrasInv, PathsBrought, ServerSame, Wanted, DefStamped, Brought, Dirs
<1>4. CASE CopyDef
  <2>1. /\ pc = "def" /\ pc' = "inputs" /\ extras' = extras /\ stamp' = stamp /\ ~listed'
        /\ extras = ListedIn[inputs[DefJson]] /\ ~defUpdated /\ ~hub
    BY <1>4 DEF CopyDef, scanVars, PhaseInv, Dirs, ExtrasInv, PathsKnown
  <2>2. PathsKnown'
    BY <1>0, <2>1 DEF PathsKnown, ServerSame
  <2>3. SUFFICES ASSUME stamp # NoStamp, faults' = 0 PROVE DefKnown'
    BY <2>1, <2>2 DEF ExtrasInv, PathsBrought, Dirs
  <2>4. /\ \A f \in Files : /\ inputs[f] \in Nat /\ master[f] \in Nat
                            /\ validated[stamp].ver[f] \in Nat
                            /\ validated[stamp].ver[f] <= master[f]
        /\ inputs[DefJson] \in Versions /\ DefStamped \in Versions /\ DefJson \in Files
    BY <2>3, StampedNumbers
  <2>5. DefStamped' = DefStamped /\ removed' = removed
    BY <1>0, <2>1 DEF DefStamped, ServerSame
  <2>6. CASE Fetched(DefJson) /\ defUpdated' = (inputs'[DefJson] # inputs[DefJson])
    <3>1. inputs'[DefJson] = master[DefJson]
      BY <2>4, <2>6 DEF Fetched, ServerInv, TypeOK
    <3>2. DefStamped <= inputs'[DefJson]
      BY <2>4, <3>1 DEF DefStamped
    <3>3. CASE inputs'[DefJson] = inputs[DefJson]
      BY <2>1, <2>4, <2>5, <3>2, <3>3 DEF DefKnown, Versions
    <3>. QED  BY <2>5, <2>6, <3>2, <3>3 DEF DefKnown
  <2>7. CASE NotFetched(DefJson) /\ ~There(DefJson)
    <3>1. CASE DefJson \in removed
      BY <2>1, <2>5, <3>1 DEF DefKnown
    <3>2. CASE master[DefJson] = 0
      <4>1. inputs'[DefJson] = inputs[DefJson] /\ inputs[DefJson] = 0 /\ DefStamped = 0
        BY <2>4, <2>7, <3>2 DEF NotFetched, NoneNewer, DefStamped
      <4>. QED  BY <2>1, <2>4, <2>5, <4>1 DEF DefKnown
    <3>. QED  BY <2>4, <2>7, <3>1, <3>2 DEF There
  <2>. QED
    BY <1>1, <1>4, <2>3, <2>6, <2>7 DEF CopyDef, NotFetched, Failure
<1>. QED  BY <1>2, <1>3, <1>4
(* The recursive copies: def.json may come once more, or go.               *)
LEMMA ExtrasDirs ==
    ASSUME ServerInv, MovesOn, PurgeInv, ExtrasInv, ListDir \/ ListFails \/ PurgeDir
    PROVE  ExtrasInv'
<1>0. ServerSame
  BY AgentLeavesServer DEF Agent
<1>1. faults \in Nat /\ \A f \in Files : inputs[f] \in Nat
  BY DEF ServerInv, TypeOK, Versions
<1>2. CASE ListDir
  <2>1. names' \cap removed = {}
    BY <1>2 DEF ListDir, There
  <2>2. OlderMeansRemoved
    BY <1>1, <1>2 DEF ListDir, hostVars, OlderMeansRemoved
  <2>3. /\ inputs' = inputs /\ stamp' = stamp /\ pc' = pc /\ extras' = extras
        /\ defUpdated' = defUpdated /\ hub' = hub /\ faults' = faults
        /\ interrupted' = interrupted /\ pc \in Dirs
    BY <1>2 DEF ListDir, hostVars, classVars, Running
  <2>4. PathsKnown'
    BY <2>3 DEF ExtrasInv, PathsKnown
  <2>5. DefStamped' = DefStamped /\ removed' = removed
    BY <1>0, <2>3 DEF DefStamped, ServerSame
  <2>6. DefKnown => DefKnown'
    BY <2>1, <2>3, <2>5 DEF DefKnown, DefGone
  <2>. QED  BY <2>3, <2>4, <2>6 DEF ExtrasInv, PathsBrought, Dirs
<1>3. CASE ListFails
  <2>1. faults' # 0 /\ hub' = hub /\ stamp' = stamp /\ pc' \in {"modules", "extras"}
    BY <1>1, <1>3 DEF ListFails, NextDir, Failure, hostVars, Running
  <2>2. pc # "stamp" /\ pc # "def"
    BY <1>3 DEF ListFails, Dirs
  <2>. QED  BY <2>1, <2>2 DEF ExtrasInv, PathsKnown, PathsBrought
<1>4. CASE PurgeDir
  <2>1. /\ stamp' = stamp /\ extras' = extras /\ defUpdated' = defUpdated /\ hub' = hub
        /\ faults' = faults /\ interrupted' = interrupted /\ pc \in Dirs /\ listed
        /\ inputs' = [f \in Files |-> IF f \in Under(pc) \ names THEN 0 ELSE inputs[f]]
        /\ \/ pc = "inputs" /\ pc' = "modules"
           \/ pc = "modules" /\ pc' = "extras" /\ todo' = extras
    BY <1>4 DEF PurgeDir, NextDir, classVars, Running, Purged, Dirs
  <2>2. PathsKnown'
    BY <2>1 DEF ExtrasInv, PathsKnown
  <2>3. SUFFICES ASSUME stamp # NoStamp, faults = 0 PROVE DefKnown'
    BY <2>1, <2>2 DEF ExtrasInv, PathsBrought, Dirs
  <2>4. DefKnown
    BY <2>1, <2>3 DEF ExtrasInv, PathsBrought
  <2>5. DefJson \in Files
    BY FilesAssumption
  <2>6. DefStamped' = DefStamped /\ removed' = removed
    BY <1>0, <2>1 DEF DefStamped, ServerSame
  <2>7. CASE DefJson \in Under(pc) \ names
    <3>1. inputs'[DefJson] = 0
      BY <2>1, <2>5, <2>7
    <3>2. DefJson \in removed \/ inputs[DefJson] = 0
      BY <2>1, <2>7 DEF PurgeInv, UnlistedGone
    <3>. QED  BY <2>1, <2>4, <2>6, <3>1, <3>2 DEF DefKnown, DefGone
  <2>8. CASE DefJson \notin Under(pc) \ names
    <3>1. inputs'[DefJson] = inputs[DefJson]
      BY <2>1, <2>5, <2>8
    <3>2. ~(pc = "inputs" /\ DefJson \in removed /\ (listed => DefJson \notin names))
      BY <2>1, <2>5, <2>8 DEF Under
    <3>. QED  BY <2>1, <2>4, <2>6, <3>1, <3>2 DEF DefKnown, DefGone
  <2>. QED  BY <2>7, <2>8
<1>. QED  BY <1>2, <1>3, <1>4

LEMMA ExtrasCopy ==
    ASSUME ServerInv, MovesOn, PurgeInv, ExtrasInv, NotPutBack,
           NEW g \in Files, CopyFile(g) \/ CopyExtra(g)
    PROVE  ExtrasInv'
<1>0. ServerSame
  BY AgentLeavesServer DEF Agent
<1>1. /\ stamp' = stamp /\ pc' = pc /\ extras' = extras /\ defUpdated' = defUpdated
      /\ hub' = hub /\ interrupted' = interrupted /\ listed' = listed /\ names' = names
      /\ todo' = todo \ {g} /\ (Fetched(g) \/ NotFetched(g))
      /\ pc \in Dirs \cup {"extras", "late_extras"}
  BY DEF CopyFile, CopyExtra, classVars, Running
<1>2. PathsKnown'
  BY <1>1 DEF ExtrasInv, PathsKnown, Dirs
<1>3. SUFFICES ASSUME stamp # NoStamp, faults' = 0 PROVE PathsBrought'
  BY <1>1, <1>2 DEF ExtrasInv, PathsBrought
<1>4. /\ faults = 0 /\ Brought(g)' /\ \A f \in Files : Brought(f) => Brought(f)'
      /\ inputs[DefJson] <= inputs'[DefJson] /\ inputs'[DefJson] \in Versions
      /\ DefJson \in removed => inputs'[DefJson] = inputs[DefJson]
      /\ DefStamped' = DefStamped
  BY <1>0, <1>1, <1>3, TransferBrings DEF PurgeInv
<1>5. /\ inputs[DefJson] \in Versions /\ DefStamped \in Versions /\ removed' = removed
      /\ inputs[DefJson] \in Nat /\ inputs'[DefJson] \in Nat /\ DefStamped \in Nat
  BY <1>0, <1>3, <1>4, StampedNumbers DEF ServerSame, Versions
<1>6. DefGone => DefGone'
  BY <1>4, <1>5 DEF DefGone
<1>7. DefKnown => DefKnown'
  <2>1. CASE DefGone
    BY <1>6, <2>1 DEF DefKnown
  <2>2. CASE pc = "inputs" /\ DefJson \in removed /\ (listed => DefJson \notin names)
    BY <1>1, <1>5, <2>2 DEF DefKnown
  <2>3. CASE defUpdated /\ DefStamped <= inputs[DefJson]
    BY <1>1, <1>4, <1>5, <2>3 DEF DefKnown
  <2>4. ASSUME NEW v \in Versions, extras = ListedIn[v], DefStamped <= v, v <= inputs[DefJson]
        PROVE  DefKnown'
    <3>1. v <= inputs'[DefJson]
      BY <1>4, <1>5, <2>4 DEF Versions
    <3>. QED  BY <1>1, <1>4, <2>4, <3>1 DEF DefKnown
  <2>. QED  BY <2>1, <2>2, <2>3, <2>4 DEF DefKnown
<1>8. CASE pc \in Dirs
  BY <1>1, <1>3, <1>4, <1>7, <1>8 DEF ExtrasInv, PathsBrought, Dirs
<1>9. CASE pc = "extras"
  <2>1. extras \subseteq Files
    BY DEF ServerInv, TypeOK
  <2>2. DefKnown /\ \A f \in extras \ todo : Brought(f)
    BY <1>3, <1>4, <1>9 DEF ExtrasInv, PathsBrought
  <2>3. ASSUME NEW f \in extras' \ todo' PROVE Brought(f)'
    <3>1. CASE f = g
      BY <1>4, <3>1 DEF Brought
    <3>2. CASE f # g
      BY <1>1, <1>4, <2>1, <2>2, <2>3, <3>2
    <3>. QED  BY <3>1, <3>2
  <2>. QED  BY <1>1, <1>7, <1>9, <2>2, <2>3 DEF PathsBrought, Dirs
<1>10. CASE pc = "late_extras"
  <2>1. DefGone \/ (/\ DefStamped <= inputs[DefJson]
                    /\ \A f \in Wanted \ todo : Brought(f))
    BY <1>3, <1>4, <1>10 DEF ExtrasInv, PathsBrought
  <2>2. CASE DefGone
    BY <1>1, <1>6, <1>10, <2>2 DEF PathsBrought, Dirs
  <2>3. CASE DefStamped <= inputs[DefJson] /\ \A f \in Wanted \ todo : Brought(f)
    <3>1. ListedIn[DefStamped] \cap ListedIn[inputs'[DefJson]] \subseteq ListedIn[inputs[DefJson]]
      BY <1>4, <1>5, <2>3 DEF NotPutBack
    <3>2. Wanted' \subseteq Wanted
      BY <1>4, <3>1 DEF Wanted
    <3>3. Wanted \subseteq Files
      BY <1>5, ListedType DEF Wanted
    <3>4. ASSUME NEW f \in Wanted' \ todo' PROVE Brought(f)'
      <4>1. CASE f = g
        BY <1>4, <4>1 DEF Brought
      <4>2. CASE f # g
        BY <1>1, <1>4, <2>3, <3>2, <3>3, <3>4, <4>2
      <4>. QED  BY <4>1, <4>2
    <3>5. DefStamped' <= inputs'[DefJson]
      BY <1>4, <1>5, <2>3
    <3>. QED  BY <1>1, <1>10, <3>4, <3>5 DEF PathsBrought, Dirs
  <2>. QED  BY <2>1, <2>2, <2>3
<1>. QED  BY <1>1, <1>8, <1>9, <1>10
(* The end of the run: what only the new def.json lists is still to do.    *)
LEMMA ExtrasEnd ==
    ASSUME ServerInv, PhaseInv, MovesOn, ExtrasInv, NotPutBack, DeleteStamp \/ End \/ Kill
    PROVE  ExtrasInv'
<1>0. ServerSame
  BY AgentLeavesServer DEF Agent
<1>1. CASE DeleteStamp
  <2>1. /\ inputs' = inputs /\ extras' = extras /\ defUpdated' = defUpdated
        /\ hub' = hub /\ faults' = faults /\ pc = "extras" /\ pc' = "late_extras" /\ todo = {}
        /\ todo' = (IF defUpdated THEN ListedIn[inputs[DefJson]] \ extras ELSE {})
        /\ stamp' = NoStamp \/ stamp' = stamp
    BY <1>1 DEF DeleteStamp, classVars, Running, LateExtras, StampAfterCopy
  <2>2. PathsKnown'
    BY <2>1 DEF ExtrasInv, PathsKnown
  <2>3. SUFFICES ASSUME stamp # NoStamp, stamp' = stamp, faults = 0, ~DefGone
                 PROVE  DefStamped <= inputs[DefJson] /\ \A f \in Wanted \ todo' : Brought(f)
    BY <1>0, <2>1, <2>2
       DEF ExtrasInv, PathsBrought, Dirs, ServerSame, DefGone, DefStamped, Wanted, Brought
  <2>4. DefKnown /\ \A f \in extras : Brought(f)
    BY <2>1, <2>3 DEF ExtrasInv, PathsBrought
  <2>5. /\ inputs[DefJson] \in Versions /\ DefStamped \in Versions
        /\ inputs[DefJson] \in Nat /\ DefStamped \in Nat
    BY <2>3, StampedNumbers DEF Versions
  <2>6. CASE defUpdated /\ DefStamped <= inputs[DefJson]
    BY <2>1, <2>4, <2>6 DEF Wanted
  <2>7. ASSUME NEW v \in Versions, extras = ListedIn[v], DefStamped <= v, v <= inputs[DefJson]
        PROVE  DefStamped <= inputs[DefJson] /\ Wanted \subseteq extras
    <3>1. DefStamped <= inputs[DefJson]
      BY <2>5, <2>7 DEF Versions
    <3>. QED  BY <2>5, <2>7, <3>1 DEF NotPutBack, Wanted
  <2>. QED  BY <2>1, <2>3, <2>4, <2>6, <2>7 DEF DefKnown
<1>2. CASE End
  <2>1. /\ inputs' = inputs /\ stamp' = stamp /\ hub' = hub /\ faults' = faults
        /\ pc = "late_extras" /\ pc' = "idle" /\ todo = {}
    BY <1>2 DEF End, hostVars, Running
  <2>2. PathsKnown'
    BY <2>1 DEF ExtrasInv, PathsKnown
  <2>3. SUFFICES ASSUME stamp # NoStamp, faults = 0 PROVE \A f \in Wanted : Brought(f)
    BY <1>0, <2>1, <2>2 DEF ExtrasInv, PathsBrought, Dirs, ServerSame, DefStamped, Wanted, Brought
  <2>4. CASE DefGone
    <3>1. Wanted = {}
      BY <2>4, ListedAssumption DEF DefGone, Wanted
    <3>. QED  BY <3>1
  <2>. QED  BY <2>1, <2>3, <2>4 DEF ExtrasInv, PathsBrought
<1>3. CASE Kill
  <2>1. /\ inputs' = inputs /\ stamp' = stamp /\ hub' = hub /\ faults' = faults
        /\ pc # "idle" /\ pc' = "idle"
        /\ interrupted' = IF ready THEN interrupted \cup {stamp} ELSE interrupted
    BY <1>3 DEF Kill, hostVars
  <2>2. PathsKnown'
    BY <2>1 DEF ExtrasInv, PathsKnown
  <2>3. stamp \in interrupted' \/ pc = "stamp"
    BY <2>1 DEF PhaseInv
  <2>4. SUFFICES ASSUME stamp # NoStamp, faults = 0, stamp \notin interrupted'
                 PROVE  \A f \in Wanted : Brought(f)
    BY <1>0, <2>1, <2>2 DEF ExtrasInv, PathsBrought, Dirs, ServerSame, DefStamped, Wanted, Brought
  <2>. QED  BY <2>1, <2>3, <2>4 DEF ExtrasInv, PathsBrought
<1>. QED  BY <1>1, <1>2, <1>3

(* Without failing transfers, a path that the def.json of the stamp and    *)
(* the one of inputs list has been copied between runs, whichever pass     *)
(* found it in the list and whatever was published or removed meanwhile,   *)
(* if no path is ever put back on the list (update_policy.cf:223-242,      *)
(* 316-328; update_def.cf.in:96-103).                                      *)
THEOREM ListedPathsCopied ==
    ASSUME NotPutBack
    PROVE  Spec => []ExtrasFit
<1>1. Init => ServerInv /\ Inv /\ PurgeInv /\ ExtrasInv
  BY TypeInit, InitFits, PurgeInit, ExtrasInit
<1>2. ASSUME ServerInv, Inv, PurgeInv, ExtrasInv, [Next]_vars
      PROVE  ExtrasInv'
  BY <1>2, NotPutBack, ExtrasServer, ExtrasStart, ExtrasDirs, ExtrasCopy, ExtrasEnd
     DEF Inv, PurgeInv, Next, Agent
<1>3. ServerInv /\ Inv /\ PurgeInv /\ ExtrasInv /\ [Next]_vars
          => (ServerInv /\ Inv /\ PurgeInv /\ ExtrasInv)'
  BY <1>2, TypeStep, InvStep, PurgeStep DEF Inv
<1>4. ServerInv /\ Inv /\ ExtrasInv => ExtrasFit
  <2>. SUFFICES ASSUME ServerInv, Inv, ExtrasInv, Stamped, faults = 0,
                       NEW f \in Wanted
                PROVE  UpTo(f, stamp) \/ f \in removed
    BY DEF ExtrasFit, Wanted, DefStamped
  <2>1. Brought(f) /\ stamp \in 1 .. Len(validated)
    BY StampIndex DEF Stamped, ExtrasInv, PathsBrought
  <2>. QED  BY <2>1 DEF Brought, UpTo, Inv, MovesOn
<1>. QED  BY <1>1, <1>3, <1>4, PTL DEF Spec
=============================================================================
