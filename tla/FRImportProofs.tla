--------------------------- MODULE FRImportProofs ---------------------------
(***************************************************************************)
(* Proofs about FRImport for every set of feeders and every bound.         *)
(***************************************************************************)
EXTENDS FRImport, TLAPS

USE KindsAssumption, BackendAssumption, SwitchesAssumption, BoundsAssumption

-----------------------------------------------------------------------------
(* What can be in a directory and in a schema.                             *)

LEMMA FileFacts ==
  /\ NoDump \in File
  /\ \A d \in File : d # NoDump => d.ver \in 1..MaxDump /\ d.kind \in Kinds
  /\ \A v \in 1..MaxDump, k \in Kinds : [ver |-> v, kind |-> k] \in File
  /\ \A d \in File : d.ver \in 0..MaxDump
  /\ NoDump.ver = 0
BY DEF File, NoDump

LEMMA ContentFacts ==
  /\ NoDump \in Content /\ Empty \in Content
  /\ \A v \in 1..MaxDump, k \in ContentKinds : [ver |-> v, kind |-> k] \in Content
  /\ \A c \in Content : c.ver \in 0..MaxDump
BY DEF Content, NoDump, Empty

-----------------------------------------------------------------------------
TypeInv == TypeOK /\ JobsHaveFiles

(* Every variable keeps its type, and a job that is started on a file has  *)
(* that file: the second fact is needed for the first, since what a job    *)
(* loads is what it found.                                                 *)
LEMMA TypeInvInductive ==
  /\ Init => TypeInv
  /\ TypeInv /\ [Next]_vars => TypeInv'
<1>1. Init => TypeInv
  <2> SUFFICES ASSUME Init PROVE TypeInv
    OBVIOUS
  <2>1. /\ made \in [Feeders -> 0..MaxDump] /\ lastImport \in [Feeders -> 0..MaxDump]
        /\ drop \in [Feeders -> File] /\ imp \in [Feeders -> File]
        /\ importing \in [Feeders -> File] /\ failedMark \in [Feeders -> File]
        /\ schema \in [Feeders -> Content] /\ attached \in [Feeders -> Content]
        /\ jobs \in [Feeders -> JobStates]
    BY FileFacts, ContentFacts DEF Init, JobStates
  <2>2. /\ joined \in BOOLEAN /\ failed \in BOOLEAN /\ attachFailed = {}
        /\ files = {} /\ todo = {} /\ hubs = Feeders
        /\ cutLogs = {} /\ left = {} /\ cut = FALSE
        /\ pc = "idle" /\ exit = "none"
    BY DEF Init
  <2>3. faults \in 0..MaxFaults /\ crashes \in 0..MaxCrashes /\ edits \in 0..MaxEdits
    BY DEF Init
  <2>4. QED
    BY <2>1, <2>2, <2>3 DEF TypeInv, TypeOK, JobsHaveFiles
<1>2. TypeInv /\ [Next]_vars => TypeInv'
  <2> SUFFICES ASSUME TypeInv, [Next]_vars
               PROVE TypeInv'
    OBVIOUS
  <2> USE DEF TypeInv, TypeOK, JobsHaveFiles, dirs, db, script, env, aux, NoFault, Fault,
          Exit, Goto, JobStates
  <2>1. ASSUME NEW f \in Feeders, Arrive(f) PROVE TypeInv'
    BY <2>1, FileFacts, SMTT(60) DEF Arrive
  <2>2. ASSUME NEW f \in Feeders, EditHubs(f) PROVE TypeInv'
    BY <2>2 DEF EditHubs
  <2>3. CASE Crash
    <3>1. /\ files' = {} /\ todo' = {} /\ attachFailed' = {}
          /\ joined' = FALSE /\ failed' = FALSE /\ cut' = TRUE
          /\ jobs' \in [Feeders -> JobStates]
          /\ pc' = "idle" /\ exit' = "killed" /\ crashes' \in 0..MaxCrashes
      BY <2>3 DEF Crash, ScriptGone
    <3>2. /\ cutLogs' \subseteq Feeders
          /\ UNCHANGED <<env, drop, imp, importing, failedMark, db, faults, left>>
      BY <2>3 DEF Crash
    <3>3. QED
      BY <3>1, <3>2
  <2>4. CASE Start
    <3>1. imp' \in [Feeders -> File] /\ drop' \in [Feeders -> File] /\ faults' \in 0..MaxFaults
      BY <2>4, FileFacts DEF Start
    <3>2. /\ files' \subseteq Feeders /\ todo' \subseteq Feeders /\ attachFailed' \subseteq Feeders
          /\ joined' = FALSE /\ failed' = FALSE
          /\ jobs' \in [Feeders -> JobStates]
          /\ pc' \in {"idle", "setup"} /\ exit' \in {"none", "ok", "error", "killed"}
          /\ \A f \in files' : imp'[f] # NoDump
      BY <2>4 DEF Start
    <3>3. UNCHANGED <<env, importing, failedMark, cutLogs, db, crashes, aux>>
      BY <2>4 DEF Start
    <3>4. QED
      BY <3>1, <3>2, <3>3
  <2>5. ASSUME NEW f \in Feeders, SetupSkip(f) PROVE TypeInv'
    BY <2>5 DEF SetupSkip
  <2>6. ASSUME NEW f \in Feeders, SetupEnsure(f) PROVE TypeInv'
    <3>1. schema' \in [Feeders -> Content]
      BY <2>6, ContentFacts DEF SetupEnsure
    <3>2. failed' \in BOOLEAN
      BY <2>6 DEF SetupEnsure
    <3>3. faults' \in 0..MaxFaults
      BY <2>6 DEF SetupEnsure
    <3>4. /\ todo' = todo \ {f}
          /\ UNCHANGED <<env, dirs, attached, lastImport, files, joined, jobs, attachFailed,
                         pc, exit, crashes, aux>>
      BY <2>6 DEF SetupEnsure
    <3>5. QED
      BY <3>1, <3>2, <3>3, <3>4
  <2>7. CASE SetupDone
    BY <2>7 DEF SetupDone
  <2>8. ASSUME NEW f \in Feeders, Undo(f) PROVE TypeInv'
    <3>1. /\ schema' \in [Feeders -> Content] /\ UNCHANGED <<attached, lastImport>>
          /\ faults' \in 0..MaxFaults /\ left' \subseteq Feeders /\ UNCHANGED cut
      BY <2>8, ContentFacts DEF Undo, DropSchema
    <3>2. QED
      BY <2>8, <3>1 DEF Undo
  <2>9. CASE UndoDone
    BY <2>9 DEF UndoDone
  <2>10. ASSUME NEW f \in Feeders, JobMove(f) PROVE TypeInv'
    <3>1. /\ imp' \in [Feeders -> File] /\ importing' \in [Feeders -> File]
          /\ jobs' \in [Feeders -> JobStates] /\ faults' \in 0..MaxFaults
      <4>1. CASE UNCHANGED <<imp, importing>>
        BY <2>10, <4>1 DEF JobMove
      <4>2. CASE /\ importing' = [importing EXCEPT ![f] = imp[f]]
                 /\ imp' = [imp EXCEPT ![f] = NoDump]
        <5>1. imp[f] \in File /\ NoDump \in File
          BY FileFacts
        <5>2. imp' \in [Feeders -> File] /\ importing' \in [Feeders -> File]
          BY <4>2, <5>1
        <5>3. QED
          BY <2>10, <5>2 DEF JobMove
      <4>3. QED
        BY <2>10, <4>1, <4>2 DEF JobMove
    <3>2. \A g \in Feeders \ {f} : jobs'[g] = jobs[g] /\ imp'[g] = imp[g] /\ importing'[g] = importing[g]
      BY <2>10 DEF JobMove
    <3>3. /\ jobs[f] = "queued" /\ pc = "import"
          /\ jobs'[f] = "failed" \/ (jobs'[f] = "moved" /\ importing'[f] = imp[f])
      BY <2>10 DEF JobMove
    <3>4. UNCHANGED <<env, drop, failedMark, cutLogs, db, files, todo, joined, failed, attachFailed,
                      pc, exit, crashes, aux>>
      BY <2>10 DEF JobMove
    <3>5. QED
      BY <3>1, <3>2, <3>3, <3>4
  <2>11. CASE JobNoSuchFile
    BY <2>11 DEF JobNoSuchFile
  <2>12. ASSUME NEW f \in Feeders, JobCommit(f) PROVE TypeInv'
    <3> DEFINE rows == [ver |-> importing[f].ver,
                        kind |-> IF importing[f].kind = "valid" THEN "valid" ELSE "partial"]
    <3>1. importing[f] # NoDump /\ importing[f] \in File
      BY <2>12 DEF JobCommit
    <3>2. importing[f].kind \in {"valid", "corrupt"} \cap Kinds
      <4>1. importing[f].kind \in Kinds /\ importing[f].kind # "badsql"
        BY <2>12, <3>1, FileFacts DEF JobCommit, Accepted
      <4>2. QED
        BY <4>1 DEF DumpKinds
    <3>3. rows \in Content
      BY <3>1, <3>2, FileFacts, ContentFacts DEF ContentKinds
    <3>4. /\ schema' = [schema EXCEPT ![f] = rows]
          /\ lastImport' = [lastImport EXCEPT ![f] = importing[f].ver]
          /\ jobs' = [jobs EXCEPT ![f] = "loaded"]
          /\ jobs[f] = "moved" /\ pc = "import"
          /\ UNCHANGED <<env, dirs, attached, files, todo, joined, failed, attachFailed,
                         pc, exit, faults, crashes, aux>>
      BY <2>12 DEF JobCommit
    <3>5. schema' \in [Feeders -> Content] /\ lastImport' \in [Feeders -> 0..MaxDump]
      BY <3>1, <3>3, <3>4, FileFacts
    <3>6. QED
      BY <3>1, <3>4, <3>5
  <2>13. ASSUME NEW f \in Feeders, JobBreak(f) PROVE TypeInv'
    <3>1. cutLogs' \subseteq Feeders /\ faults' \in 0..MaxFaults
      BY <2>13 DEF JobBreak
    <3>2. /\ jobs[f] \in {"moved", "loaded"} /\ pc = "import"
          /\ jobs' = [jobs EXCEPT ![f] = "broken"]
          /\ UNCHANGED <<env, drop, imp, importing, failedMark, db, files, todo, joined, failed,
                         attachFailed, pc, exit, crashes, aux>>
      BY <2>13 DEF JobBreak
    <3>3. QED
      BY <3>1, <3>2
  <2>14. ASSUME NEW f \in Feeders, JobOk(f) \/ JobFail(f) PROVE TypeInv'
    <3>1. CASE JobOk(f)
      BY <3>1, FileFacts DEF JobOk
    <3>2. CASE JobFail(f)
      <4>1. /\ importing' \in [Feeders -> File] /\ failedMark' \in [Feeders -> File]
            /\ left' \subseteq Feeders /\ faults' \in 0..MaxFaults
        <5>1. importing[f] \in File /\ NoDump \in File
          BY FileFacts
        <5>2. /\ [importing EXCEPT ![f] = NoDump] \in [Feeders -> File]
              /\ [failedMark EXCEPT ![f] = importing[f]] \in [Feeders -> File]
          BY <5>1
        <5>3. importing' \in [Feeders -> File] /\ failedMark' \in [Feeders -> File]
          BY <3>2, <5>2 DEF JobFail
        <5>4. left' \subseteq Feeders /\ faults' \in 0..MaxFaults
          BY <3>2 DEF JobFail
        <5>5. QED
          BY <5>3, <5>4
      <4>2. \A g \in Feeders \ {f} : importing'[g] = importing[g]
        BY <3>2 DEF JobFail
      <4>3. /\ jobs' = [jobs EXCEPT ![f] = "failed"] /\ jobs[f] = "broken"
            /\ UNCHANGED <<env, drop, imp, cutLogs, db, files, todo, joined, failed, attachFailed,
                           pc, exit, crashes, cut>>
        BY <3>2 DEF JobFail
      <4>4. QED
        BY <4>1, <4>2, <4>3
    <3>3. QED
      BY <2>14, <3>1, <3>2
  <2>15. CASE ImportDone \/ RevertStops
    <3>1. CASE ImportDone
      BY <3>1 DEF ImportDone, ParallelFailed, RevertSet, NextPhase, Present
    <3>2. CASE RevertStops
      BY <3>2 DEF RevertStops
    <3>3. QED
      BY <2>15, <3>1, <3>2
  <2>16. ASSUME NEW f \in Feeders, Revert(f) PROVE TypeInv'
    <3>1. /\ schema' \in [Feeders -> Content] /\ UNCHANGED <<attached, lastImport>>
          /\ faults' \in 0..MaxFaults /\ left' \subseteq Feeders /\ UNCHANGED cut
      BY <2>16, ContentFacts DEF Revert, DropSchema
    <3>2. QED
      BY <2>16, <3>1 DEF Revert
  <2>17. CASE RevertDone
    BY <2>17 DEF RevertDone, NextPhase
  <2>18. CASE Duplicates
    <3>1. failed' \in BOOLEAN
      BY <2>18 DEF Duplicates
    <3>2. pc' \in {"idle", "attach"} /\ exit' \in {"none", "ok", "error", "killed"}
      BY <2>18 DEF Duplicates
    <3>3. faults' \in 0..MaxFaults
      BY <2>18 DEF Duplicates
    <3>4. UNCHANGED <<env, dirs, db, files, todo, joined, jobs, attachFailed, crashes, aux>>
      BY <2>18 DEF Duplicates
    <3>5. QED
      BY <3>1, <3>2, <3>3, <3>4
  <2>19. ASSUME NEW f \in Feeders, AttachSchema(f) PROVE TypeInv'
    <3>1. /\ schema' \in [Feeders -> Content] /\ attached' \in [Feeders -> Content]
          /\ attachFailed' \subseteq Feeders /\ left' \subseteq Feeders
          /\ faults' \in 0..MaxFaults
      BY <2>19, ContentFacts DEF AttachSchema, AttachFails
    <3>2. QED
      BY <2>19, <3>1 DEF AttachSchema
  <2>20. ASSUME NEW f \in Feeders, AttachSkip(f) PROVE TypeInv'
    BY <2>20, FileFacts DEF AttachSkip
  <2>21. CASE AttachDone
    BY <2>21 DEF AttachDone
  <2>22. CASE UNCHANGED vars
    BY <2>22 DEF vars
  <2>23. QED
    BY <2>1, <2>2, <2>3, <2>4, <2>5, <2>6, <2>7, <2>8, <2>9, <2>10, <2>11, <2>12,
       <2>13, <2>14, <2>15, <2>16, <2>17, <2>18, <2>19, <2>20, <2>21, <2>22
       DEF Next, Run
<1>3. QED
  BY <1>1, <1>2

(* The types of all variables of the import, whatever arrives, fails or is *)
(* killed.                                                                 *)
THEOREM TypeCorrect == Spec => []TypeOK
<1>1. TypeInv => TypeOK
  BY DEF TypeInv
<1>2. QED
  BY <1>1, TypeInvInductive, PTL DEF Spec
-----------------------------------------------------------------------------
(* The order of dumps, and what the jobs say about it.  Both need that the *)
(* runner gives every job its own file, which xargs does (see README).     *)

LEMMA OrderInductive ==
  ASSUME Backend = "xargs"
  PROVE  ImportInv /\ [Next]_vars => DumpsInOrder'
<1> SUFFICES ASSUME ImportInv, [Next]_vars PROVE DumpsInOrder'
  OBVIOUS
<1> USE DEF ImportInv, TypeOK, dirs, db, script, env, aux, NoFault, Fault, Exit, Goto
<1>1. ASSUME NEW f \in Feeders, Arrive(f) PROVE DumpsInOrder'
  <2>1. PICK v \in {made[f], made[f] + 1}, k \in Kinds :
          /\ v \in 1..MaxDump
          /\ made' = [made EXCEPT ![f] = v]
          /\ drop' = [drop EXCEPT ![f] = [ver |-> v, kind |-> k]]
    BY <1>1 DEF Arrive
  <2>2. UNCHANGED <<imp, importing, lastImport, attached>>
    BY <1>1 DEF Arrive
  <2>3. made[f] <= v /\ made[f] \in Nat
    BY <2>1
  <2>4. QED
    BY <2>1, <2>2, <2>3, FileFacts, ContentFacts DEF DumpsInOrder
<1>2. CASE Start
  <2>1. PICK moved \in SUBSET Present(drop) :
          /\ imp' = [f \in Feeders |-> IF f \in moved THEN drop[f] ELSE imp[f]]
          /\ drop' = [f \in Feeders |-> IF f \in moved THEN NoDump ELSE drop[f]]
    BY <1>2 DEF Start
  <2>2. UNCHANGED <<env, importing, db>>
    BY <1>2 DEF Start
  <2>3. QED
    BY <2>1, <2>2, FileFacts DEF DumpsInOrder, Present
<1>3. ASSUME NEW f \in Feeders, JobMove(f) PROVE DumpsInOrder'
  <2>1. CASE UNCHANGED <<imp, importing>>
    BY <1>3, <2>1 DEF JobMove, DumpsInOrder
  <2>2. CASE /\ importing' = [importing EXCEPT ![f] = imp[f]]
             /\ imp' = [imp EXCEPT ![f] = NoDump]
    <3>1. UNCHANGED <<made, drop, attached, lastImport>> /\ imp[f] # NoDump
      BY <1>3 DEF JobMove, JobsHaveFiles
    <3>2. QED
      BY <2>2, <3>1, FileFacts DEF DumpsInOrder
  <2>3. QED
    BY <1>3, <2>1, <2>2 DEF JobMove
<1>4. ASSUME NEW f \in Feeders, JobCommit(f) PROVE DumpsInOrder'
  <2>1. f \in Pending
    BY <1>4 DEF JobCommit, JobsHaveFiles, Pending
  <2>2. lastImport[f] <= importing[f].ver
    BY <1>4, <2>1 DEF JobCommit, JobsTellTheTruth
  <2>3. QED
    BY <1>4, <2>2, FileFacts, ContentFacts DEF JobCommit, DumpsInOrder
<1>5. ASSUME NEW f \in Feeders, JobOk(f) \/ JobFail(f) PROVE DumpsInOrder'
  <2>1. /\ \A g \in Feeders : importing'[g] \in {importing[g], NoDump}
        /\ UNCHANGED <<made, drop, imp, attached, lastImport>>
    BY <1>5 DEF JobOk, JobFail
  <2>2. QED
    BY <2>1, FileFacts DEF DumpsInOrder
<1>6. ASSUME NEW f \in Feeders, AttachSchema(f) PROVE DumpsInOrder'
  <2>1. schema[f].ver <= lastImport[f]
    <3>1. f \in Pending /\ jobs[f] \in {"ok", "failed"} /\ failedMark[f] = NoDump
      BY <1>6 DEF AttachSchema, KeptBack, Pending, JobsTellTheTruth
    <3>2. schema[f] = Empty \/ schema[f].ver = lastImport[f]
      BY <3>1 DEF JobsTellTheTruth
    <3>3. QED
      BY <3>2 DEF Empty
  <2>2. /\ \A g \in Feeders : attached'[g] = attached[g] \/ (g = f /\ attached'[g] = schema[f])
        /\ UNCHANGED <<made, drop, imp, importing, lastImport>>
    BY <1>6 DEF AttachSchema, AttachFails
  <2>3. QED
    BY <2>1, <2>2 DEF DumpsInOrder
<1>7. ASSUME UNCHANGED <<made, drop, imp, importing, attached, lastImport>> PROVE DumpsInOrder'
  BY <1>7 DEF DumpsInOrder
<1>8. QED
  BY <1>1, <1>2, <1>3, <1>4, <1>5, <1>6, <1>7
     DEF Next, Run, vars, EditHubs, Crash, SetupSkip, SetupEnsure, SetupDone, Undo, UndoDone,
         DropSchema, JobNoSuchFile, JobBreak, ImportDone, Revert, RevertStops, RevertDone,
         Duplicates, AttachSkip, AttachDone

(* A job without a .failed file is one whose own mv failed.                *)
LEMMA FailuresInductive ==
  ASSUME Backend = "xargs"
  PROVE  ImportInv /\ [Next]_vars => FailuresShow'
<1> SUFFICES ASSUME ImportInv, [Next]_vars, NEW g \in Pending', Unmarked(g)'
             PROVE  faults' > 0 /\ (imp'[g] # NoDump \/ importing'[g] # NoDump)
  BY DEF FailuresShow
<1>0. faults \in Nat /\ faults' \in Nat /\ g \in Feeders
  BY TypeInvInductive DEF TypeInv, TypeOK, ImportInv, Pending
<1> USE DEF ImportInv, TypeOK, dirs, db, script, env, aux, NoFault, Fault, Exit, Goto, Unmarked
<1>1. ASSUME g \in Pending, Unmarked(g), faults' >= faults,
             \/ imp'[g] # NoDump \/ importing'[g] # NoDump
             \/ imp'[g] = imp[g] /\ importing'[g] = importing[g]
      PROVE  faults' > 0 /\ (imp'[g] # NoDump \/ importing'[g] # NoDump)
  BY <1>0, <1>1 DEF FailuresShow
<1>2. ASSUME NEW f \in Feeders, JobMove(f)
      PROVE  faults' > 0 /\ (imp'[g] # NoDump \/ importing'[g] # NoDump)
  <2>1. g \in Pending /\ faults' >= faults /\ failedMark' = failedMark
    BY <1>0, <1>2 DEF JobMove, Pending
  <2>2. CASE g = f
    <3>1. /\ jobs'[f] = "failed" /\ imp[f] # NoDump
      BY <1>2, <2>2 DEF JobMove, JobsHaveFiles
    <3>2. UNCHANGED imp /\ faults' = faults + 1
      BY <1>2, <3>1 DEF JobMove
    <3>3. QED
      BY <1>0, <2>2, <3>1, <3>2
  <2>3. CASE g # f
    <3>1. jobs'[g] = jobs[g] /\ imp'[g] = imp[g] /\ importing'[g] = importing[g]
      BY <1>0, <1>2, <2>3 DEF JobMove
    <3>2. QED
      BY <1>1, <2>1, <3>1
  <2>4. QED
    BY <2>2, <2>3
<1>3. ASSUME NEW f \in Feeders, JobOk(f) \/ JobFail(f)
      PROVE  faults' > 0 /\ (imp'[g] # NoDump \/ importing'[g] # NoDump)
  <2>1. g \in Pending /\ faults' >= faults
    BY <1>0, <1>3 DEF JobOk, JobFail, Pending
  <2>2. CASE g = f
    <3>1. JobFail(f)
      BY <1>3, <2>2 DEF JobOk
    <3>2. importing[f] # NoDump /\ importing[f] \in File
      BY <3>1 DEF JobFail, JobsHaveFiles
    <3>3. failedMark'[f] = NoDump
      BY <2>2
    <3>4. UNCHANGED importing /\ faults' = faults + 1
      BY <3>1, <3>2, <3>3 DEF JobFail
    <3>5. QED
      BY <1>0, <2>2, <3>2, <3>4
  <2>3. CASE g # f
    <3>1. /\ jobs'[g] = jobs[g] /\ imp'[g] = imp[g] /\ importing'[g] = importing[g]
          /\ failedMark'[g] = failedMark[g]
      BY <1>0, <1>3, <2>3 DEF JobOk, JobFail
    <3>2. QED
      BY <1>1, <2>1, <3>1
  <2>4. QED
    BY <2>2, <2>3
<1>4. CASE ImportDone
  BY <1>0, <1>1, <1>4 DEF ImportDone, Pending, NextPhase
<1>5. CASE RevertDone \/ Duplicates \/ RevertStops \/ AttachDone
  BY <1>0, <1>1, <1>5 DEF RevertDone, Duplicates, RevertStops, AttachDone, Pending, NextPhase,
                    JobsTellTheTruth
<1>6. ASSUME NEW f \in Feeders, AttachSchema(f) \/ AttachSkip(f)
      PROVE  faults' > 0 /\ (imp'[g] # NoDump \/ importing'[g] # NoDump)
  BY <1>0, <1>1, <1>6 DEF AttachSchema, AttachFails, AttachSkip, Pending
<1>7. ASSUME NEW f \in Feeders, JobCommit(f) \/ JobBreak(f) \/ Revert(f)
      PROVE  faults' > 0 /\ (imp'[g] # NoDump \/ importing'[g] # NoDump)
  BY <1>0, <1>1, <1>7 DEF JobCommit, JobBreak, Revert, DropSchema, Pending
<1>8. CASE Start \/ Crash \/ SetupDone \/ UndoDone \/ JobNoSuchFile
  BY <1>8 DEF Start, Crash, SetupDone, UndoDone, JobNoSuchFile, OneJobForAll, Pending
<1>9. ASSUME NEW f \in Feeders, SetupSkip(f) \/ SetupEnsure(f) \/ Undo(f)
      PROVE  faults' > 0 /\ (imp'[g] # NoDump \/ importing'[g] # NoDump)
  BY <1>9 DEF SetupSkip, SetupEnsure, Undo, Pending
<1>10. ASSUME NEW f \in Feeders, Arrive(f) \/ EditHubs(f)
       PROVE  faults' > 0 /\ (imp'[g] # NoDump \/ importing'[g] # NoDump)
  BY <1>0, <1>1, <1>10 DEF Arrive, EditHubs, Pending
<1>11. CASE UNCHANGED vars
  BY <1>0, <1>1, <1>11 DEF vars, Pending
<1>12. QED
  BY <1>2, <1>3, <1>4, <1>5, <1>6, <1>7, <1>8, <1>9, <1>10, <1>11 DEF Next, Run

LEMMA JobsInductive ==
  ASSUME Backend = "xargs"
  PROVE  ImportInv /\ [Next]_vars => JobsTellTheTruth'
<1> SUFFICES ASSUME ImportInv, [Next]_vars PROVE JobsTellTheTruth'
  OBVIOUS
<1> USE DEF ImportInv, TypeOK, dirs, db, script, env, aux, NoFault, Fault, Exit, Goto, JobStates
<1>1. ASSUME NEW f \in Feeders, Arrive(f) \/ EditHubs(f) PROVE JobsTellTheTruth'
  BY <1>1 DEF Arrive, EditHubs, JobsTellTheTruth, Pending, Present
<1>2. CASE Crash
  BY <1>2 DEF Crash, JobsTellTheTruth, Pending
<1>3. CASE Start
  BY <1>3 DEF Start, JobsTellTheTruth, Pending
<1>4. ASSUME NEW f \in Feeders, SetupSkip(f) \/ SetupEnsure(f) \/ Undo(f)
      PROVE JobsTellTheTruth'
  BY <1>4 DEF SetupSkip, SetupEnsure, Undo, JobsTellTheTruth, Pending
<1>5. CASE SetupDone
  BY <1>5 DEF SetupDone, JobsTellTheTruth, Pending
<1>6. CASE UndoDone
  BY <1>6 DEF UndoDone, JobsTellTheTruth, Pending
<1>7. ASSUME NEW f \in Feeders, JobMove(f) PROVE JobsTellTheTruth'
  BY <1>7, FileFacts DEF JobMove, JobsTellTheTruth, Pending, JobsHaveFiles, DumpsInOrder
<1>8. CASE JobNoSuchFile
  BY <1>8 DEF JobNoSuchFile, OneJobForAll
<1>9. ASSUME NEW f \in Feeders, JobCommit(f) PROVE JobsTellTheTruth'
  <2>1. f \in Pending /\ pc = "import"
    BY <1>9 DEF JobCommit, JobsHaveFiles, Pending
  <2>2. importing[f] \in File /\ importing[f] # NoDump
    BY <1>9 DEF JobCommit, JobsHaveFiles
  <2>3. schema'[f].ver = lastImport'[f] /\ schema'[f].ver > 0
    BY <1>9, <2>2, FileFacts DEF JobCommit
  <2>4. \A g \in Feeders \ {f} : schema'[g] = schema[g] /\ lastImport'[g] = lastImport[g]
                               /\ jobs'[g] = jobs[g]
    BY <1>9 DEF JobCommit
  <2>5. QED
    BY <1>9, <2>1, <2>3, <2>4 DEF JobCommit, JobsTellTheTruth, Pending
<1>10. ASSUME NEW f \in Feeders, JobBreak(f) PROVE JobsTellTheTruth'
  BY <1>10 DEF JobBreak, JobsTellTheTruth, Pending
<1>11. ASSUME NEW f \in Feeders, JobOk(f) \/ JobFail(f) PROVE JobsTellTheTruth'
  <2>1. CASE JobOk(f)
    BY <2>1 DEF JobOk, JobsTellTheTruth, Pending
  <2>2. CASE JobFail(f)
    <3>1. f \in Pending /\ pc = "import" /\ jobs[f] = "broken"
      BY <2>2 DEF JobFail, JobsHaveFiles, Pending
    <3>2. /\ jobs' = [jobs EXCEPT ![f] = "failed"]
          /\ UNCHANGED <<pc, files, todo, schema, lastImport>>
      BY <2>2 DEF JobFail
    <3>3. /\ failedMark'[f] = NoDump => failedMark[f] = NoDump
          /\ \A g \in Feeders \ {f} : failedMark'[g] = failedMark[g] /\ importing'[g] = importing[g]
      <4>1. importing[f] # NoDump
        BY <2>2 DEF JobFail, JobsHaveFiles
      <4>2. QED
        BY <2>2, <4>1 DEF JobFail
    <3>4. QED
      BY <3>1, <3>2, <3>3 DEF JobsTellTheTruth, Pending
  <2>3. QED
    BY <1>11, <2>1, <2>2
<1>12. CASE ImportDone
  BY <1>12 DEF ImportDone, JobsTellTheTruth, Pending, RevertSet, NextPhase
<1>13. ASSUME NEW f \in Feeders, Revert(f) PROVE JobsTellTheTruth'
  BY <1>13 DEF Revert, DropSchema, JobsTellTheTruth, Pending, Present
<1>14. CASE RevertDone \/ RevertStops
  BY <1>14 DEF RevertDone, RevertStops, JobsTellTheTruth, Pending, NextPhase
<1>15. CASE Duplicates
  <2>1. /\ pc = "dups" /\ pc' \in {"idle", "attach"}
        /\ UNCHANGED <<env, dirs, db, files, todo, joined, jobs>>
    BY <1>15 DEF Duplicates
  <2>2. todo \subseteq files
    BY <2>1 DEF JobsTellTheTruth
  <2>3. QED
    BY <2>1, <2>2 DEF JobsTellTheTruth, Pending
<1>16. ASSUME NEW f \in Feeders, AttachSchema(f) PROVE JobsTellTheTruth'
  BY <1>16 DEF AttachSchema, AttachFails, JobsTellTheTruth, Pending
<1>17. ASSUME NEW f \in Feeders, AttachSkip(f) PROVE JobsTellTheTruth'
  BY <1>17 DEF AttachSkip, JobsTellTheTruth, Pending
<1>18. CASE AttachDone
  BY <1>18 DEF AttachDone, JobsTellTheTruth, Pending
<1>19. CASE UNCHANGED vars
  BY <1>19 DEF vars, JobsTellTheTruth, Pending, Present
<1>20. QED
  BY <1>1, <1>2, <1>3, <1>4, <1>5, <1>6, <1>7, <1>8, <1>9, <1>10, <1>11, <1>12,
     <1>13, <1>14, <1>15, <1>16, <1>17, <1>18, <1>19
     DEF Next, Run

(* The inductive invariant of the import: the order of dumps along the     *)
(* directories, and job states, .failed files and schemas that agree.      *)
THEOREM ImportInvariant ==
  ASSUME Backend = "xargs"
  PROVE  Spec => []ImportInv
<1>1. Init => ImportInv
  <2>1. Init => DumpsInOrder /\ FailuresShow /\ JobsTellTheTruth
    BY FileFacts DEF Init, DumpsInOrder, FailuresShow, JobsTellTheTruth, Pending
  <2>2. QED
    BY <2>1, TypeInvInductive DEF TypeInv, ImportInv
<1>2. ImportInv /\ [Next]_vars => ImportInv'
  BY TypeInvInductive, OrderInductive, FailuresInductive, JobsInductive DEF TypeInv, ImportInv
<1>3. QED
  BY <1>1, <1>2, PTL DEF Spec

-----------------------------------------------------------------------------
(* The import implements FeederTables: what is shown for a feeder is only  *)
(* ever replaced by the dump last imported, dumps are imported in order,   *)
(* and the rows vanish only when a command failed in that feeder's own job *)
(* and left no .failed file; for any number of feeders, dumps, failing     *)
(* commands, kills and edits of __hubs (import.sh, import_file.sh).        *)
THEOREM ImportRefinesFeederTables ==
  ASSUME Backend = "xargs"
  PROVE  Spec => ViewPromise
<1>1. Init => FT!Init
  BY FileFacts DEF Init, FT!Init, Lost, Unmarked
<1>2. ImportInv /\ [Next]_vars => [FT!Next]_(FT!vars)
  <2> SUFFICES ASSUME ImportInv, [Next]_vars PROVE [FT!Next]_(FT!vars)
    OBVIOUS
  <2> DEFINE view == [f \in Feeders |-> attached[f].ver]
  <2>1. ASSUME NEW f \in Feeders, Arrive(f), made' # made PROVE FT!Publish(f)
    <3>1. PICK v \in {made[f], made[f] + 1} : made' = [made EXCEPT ![f] = v]
      BY <2>1 DEF Arrive
    <3>2. made \in [Feeders -> Nat]
      BY DEF ImportInv, TypeOK
    <3>3. v = made[f] + 1
      <4>1. [made EXCEPT ![f] = made[f]] = made
        BY <3>2
      <4>2. QED
        BY <2>1, <3>1, <4>1
    <3>4. UNCHANGED <<attached, lastImport, jobs, failedMark>>
      BY <2>1 DEF Arrive, db, script
    <3>5. Lost' = Lost
      BY <3>4 DEF Lost, Unmarked
    <3>6. QED
      BY <3>1, <3>3, <3>4, <3>5 DEF FT!Publish
  <2>2. ASSUME NEW f \in Feeders, JobCommit(f) PROVE FT!Import(f)
    <3>1. /\ jobs[f] = "moved" /\ pc = "import"
          /\ lastImport' = [lastImport EXCEPT ![f] = importing[f].ver]
          /\ jobs' = [jobs EXCEPT ![f] = "loaded"]
          /\ UNCHANGED <<made, attached, failedMark>>
      BY <2>2 DEF JobCommit, env, dirs
    <3>2. lastImport[f] <= importing[f].ver /\ importing[f].ver <= made[f]
      <4>1. f \in Pending
        BY <3>1 DEF ImportInv, JobsHaveFiles, Pending
      <4>2. QED
        BY <3>1, <4>1 DEF ImportInv, JobsTellTheTruth, DumpsInOrder
    <3>3. importing[f].ver \in lastImport[f] .. made[f]
      BY <3>2, FileFacts DEF ImportInv, TypeOK
    <3>4. Lost' = Lost
      BY <3>1 DEF Lost, Unmarked, ImportInv, TypeOK
    <3>5. QED
      BY <3>1, <3>3, <3>4 DEF FT!Import
  <2>3. ASSUME NEW f \in Feeders, AttachSchema(f), attached' # attached
        PROVE  FT!Refresh(f) \/ FT!Vanish(f)
    <3>1. f \in Pending /\ jobs[f] \in {"ok", "failed"} /\ failedMark[f] = NoDump
      BY <2>3 DEF AttachSchema, KeptBack, Pending, ImportInv, JobsTellTheTruth
    <3>2. /\ attached' = [attached EXCEPT ![f] = schema[f]]
          /\ UNCHANGED <<made, lastImport, jobs, failedMark>>
      BY <2>3 DEF AttachSchema, AttachFails, env, dirs
    <3>3. Lost' = Lost
      BY <3>2 DEF Lost, Unmarked
    <3>4. view' = [view EXCEPT ![f] = schema[f].ver]
      BY <3>2 DEF ImportInv, TypeOK
    <3>5. CASE schema[f] = Empty
      <4>1. jobs[f] = "failed"
        BY <3>1, <3>5 DEF ImportInv, JobsTellTheTruth, Empty
      <4>2. f \in Lost
        BY <3>1, <4>1 DEF Lost, Unmarked
      <4>3. schema[f].ver = 0
        BY <3>5 DEF Empty
      <4>4. QED
        BY <3>2, <3>3, <3>4, <4>2, <4>3 DEF FT!Vanish
    <3>6. CASE schema[f] # Empty
      <4>1. schema[f].ver = lastImport[f] /\ lastImport[f] > 0
        BY <3>1, <3>6 DEF ImportInv, JobsTellTheTruth
      <4>2. QED
        BY <3>2, <3>3, <3>4, <4>1 DEF FT!Refresh
    <3>7. QED
      BY <3>5, <3>6
  <2>4. ASSUME UNCHANGED <<made, lastImport, attached>> PROVE FT!Lose
    <3>1. Lost' \in SUBSET Feeders
      BY DEF Lost
    <3>2. UNCHANGED view
      BY <2>4
    <3>3. QED
      BY <2>4, <3>1, <3>2 DEF FT!Lose
  <2>5. \/ \E f \in Feeders : \/ Arrive(f) /\ made' # made
                              \/ JobCommit(f)
                              \/ AttachSchema(f) /\ attached' # attached
        \/ UNCHANGED <<made, lastImport, attached>>
    BY DEF Next, Run, vars, env, db, Arrive, EditHubs, Crash, Start, SetupSkip, SetupEnsure,
           SetupDone, Undo, UndoDone, DropSchema, JobMove, JobNoSuchFile, JobBreak, JobOk, JobFail,
           ImportDone, Revert, RevertStops, RevertDone, Duplicates, AttachSchema, AttachSkip,
           AttachDone
  <2>6. QED
    BY <2>1, <2>2, <2>3, <2>4, <2>5 DEF FT!Next
<1>3. QED
  BY <1>1, <1>2, ImportInvariant, PTL DEF Spec, ViewPromise, FT!Spec

(* The tables never hold part of a dump when no extractor fails half way,  *)
(* nor nothing instead of a dump: a file the database refuses leaves its   *)
(* schema empty, and that schema is held back (import.sh:127-151).  The    *)
(* exception is a job whose mv fails, which leaves no .failed file.        *)
THEOREM ViewIsComplete ==
  ASSUME Backend = "xargs", "corrupt" \notin Kinds
  PROVE  Spec => ViewComplete
<1> DEFINE Complete == \A f \in Feeders : attached'[f] # attached[f] =>
             attached'[f].kind = "valid" \/ f \in Lost
<1>1. ImportInv /\ [Next]_vars => [Complete]_vars
  <2> SUFFICES ASSUME ImportInv, [Next]_vars PROVE Complete
    OBVIOUS
  <2>1. ASSUME NEW f \in Feeders, AttachSchema(f) PROVE Complete
    <3>1. /\ f \in Pending /\ jobs[f] \in {"ok", "failed"} /\ failedMark[f] = NoDump
      BY <2>1 DEF AttachSchema, KeptBack, Pending, ImportInv, JobsTellTheTruth
    <3>2. \A g \in Feeders : attached'[g] = attached[g] \/ (g = f /\ attached'[g] = schema[g])
      BY <2>1 DEF AttachSchema, AttachFails, ImportInv, TypeOK
    <3>3. CASE jobs[f] = "failed"
      BY <3>1, <3>2, <3>3 DEF Lost, Unmarked
    <3>4. CASE jobs[f] = "ok"
      <4>1. schema[f] \in Content /\ schema[f].ver # 0
        BY <3>1, <3>4, ContentFacts DEF ImportInv, TypeOK, JobsTellTheTruth
      <4>2. schema[f].kind = "valid"
        BY <4>1 DEF Content, ContentKinds, NoDump, Empty
      <4>3. QED
        BY <3>2, <4>2
    <3>5. QED
      BY <3>1, <3>3, <3>4
  <2>2. (\E f \in Feeders : AttachSchema(f)) \/ UNCHANGED attached
    BY DEF Next, Run, vars, env, db, Arrive, EditHubs, Crash, Start, SetupSkip, SetupEnsure,
           SetupDone, Undo, UndoDone, DropSchema, JobMove, JobNoSuchFile, JobCommit, JobBreak,
           JobOk, JobFail, ImportDone, Revert, RevertStops, RevertDone, Duplicates, AttachSkip,
           AttachDone
  <2>3. QED
    BY <2>1, <2>2
<1>2. QED
  BY <1>1, ImportInvariant, PTL DEF Spec, ViewComplete
-----------------------------------------------------------------------------
(* What holds as long as no run was cut short, for each way of running     *)
(* jobs: marks, .importing files and rows in import schemas are those of   *)
(* the jobs of this very run, or of a feeder whose clean-up failed.        *)

MarksMeanFailed ==
  \A f \in Feeders :
    /\ failedMark[f] # NoDump =>
         /\ pc \in {"import", "revert", "attach"}
         /\ f \in files /\ jobs[f] = "failed"
         /\ pc = "attach" => f \in todo
    /\ importing[f] # NoDump =>
         f \in left \/ (pc = "import" /\ jobs[f] \in {"moved", "loaded", "broken"})

(* The feeder's job has committed, and the schema is not attached yet.     *)
Loaded(f) ==
  /\ pc \in {"import", "revert", "attach"}
  /\ jobs[f] \in {"loaded", "ok"} /\ f \in files
  /\ pc = "attach" => f \in todo

(* The feeder's job has failed and the schema is not reverted yet.         *)
Reverting(f) ==
  /\ f \in files
  /\ \/ pc = "import" /\ jobs[f] = "broken"
     \/ pc = "import" /\ failedMark[f] # NoDump
     \/ pc = "revert" /\ f \in todo

RowsMeanLoaded ==
  \A f \in Feeders :
    /\ Loaded(f) => schema[f].kind \in {"valid", "partial"} /\ schema[f].ver = lastImport[f]
    /\ ~Loaded(f) /\ Backend # "for" =>
         schema[f].kind \in {"none", "empty"} \/ f \in left \/ Reverting(f)

(* What the jobs' states say at each stage of the script.                  *)
StagesFit ==
  /\ pc \in {"setup", "undo"} => \A f \in Feeders : jobs[f] = "none"
  /\ pc = "attach" => todo \subseteq files
  /\ pc = "revert" => todo \subseteq Present(failedMark)
  /\ pc = "import" /\ OneJobForAll =>
       \A f \in Feeders : jobs[f] \in {"queued", "failed", "none"}
  /\ pc # "dups"

(* What a run has imported it has attached, or has still to attach.        *)
ImportedIsAttached ==
  pc \in {"attach", "idle"} => \A f \in files :
    jobs[f] = "ok" /\ f \notin attachFailed =>
      attached[f].ver = lastImport[f] \/ (pc = "attach" /\ f \in todo)

CleanInv ==
  ~cut =>
    MarksMeanFailed /\ RowsMeanLoaded /\ StagesFit /\ ImportedIsAttached

LEMMA CleanInit == Init => CleanInv
BY DEF Init, CleanInv, MarksMeanFailed, RowsMeanLoaded, StagesFit, ImportedIsAttached, Loaded,
       NoDump, Empty

(* GNU parallel and xargs tell of every failure.                           *)
LEMMA NotFailedMeansNone ==
  ASSUME failed' \in ParallelFailed, ~failed', Backend # "for"
  PROVE  FailedJobs = {}
<1>1. failed' = (FailedJobs # {} /\ ~(Backend = "for" /\ OneJobForAll))
  BY Zenon DEF ParallelFailed
<1>2. QED
  BY <1>1, Zenon

LEMMA CleanStep ==
  ASSUME ~HandleDuplicates
  PROVE  TypeInv /\ CleanInv /\ [Next]_vars => CleanInv'
<1> SUFFICES ASSUME TypeInv, CleanInv, [Next]_vars, ~cut' PROVE CleanInv'
  BY DEF CleanInv
<1>0. ~cut
  BY DEF Next, Run, vars, Arrive, EditHubs, Crash, Start, SetupSkip, SetupEnsure, SetupDone, Undo,
         UndoDone, DropSchema, JobMove, JobNoSuchFile, JobCommit, JobBreak, JobOk, JobFail,
         ImportDone, Revert, RevertStops, RevertDone, Duplicates, AttachSchema, AttachSkip,
         AttachDone, TypeInv, TypeOK, aux
<1>1. MarksMeanFailed /\ RowsMeanLoaded /\ StagesFit /\ ImportedIsAttached
  BY <1>0 DEF CleanInv
<1> USE <1>1 DEF CleanInv, MarksMeanFailed, RowsMeanLoaded, StagesFit, ImportedIsAttached, Loaded, Reverting,
        TypeInv, TypeOK, dirs, db, script, env, aux, NoFault, Fault, Exit, Goto
<1>2. ASSUME NEW f \in Feeders, Arrive(f) \/ EditHubs(f) PROVE CleanInv'
  BY <1>2 DEF Arrive, EditHubs, Present, OneJobForAll
<1>3. CASE Crash \/ RevertStops
  BY <1>3 DEF Crash, RevertStops
<1>4. CASE Start
  BY <1>4 DEF Start
<1>5. ASSUME NEW f \in Feeders, SetupSkip(f) PROVE CleanInv'
  BY <1>5 DEF SetupSkip
<1>6. ASSUME NEW f \in Feeders, SetupEnsure(f) PROVE CleanInv'
  BY <1>6 DEF SetupEnsure, Empty
<1>7. CASE SetupDone
  BY <1>7 DEF SetupDone, JobsHaveFiles
<1>8. ASSUME NEW f \in Feeders, Undo(f) PROVE CleanInv'
  BY <1>8 DEF Undo, DropSchema, NoDump
<1>9. CASE UndoDone
  BY <1>9 DEF UndoDone
<1>10. ASSUME NEW f \in Feeders, JobMove(f) PROVE CleanInv'
  BY <1>10 DEF JobMove, OneJobForAll
<1>11. CASE JobNoSuchFile
  BY <1>11 DEF JobNoSuchFile, OneJobForAll
<1>12. ASSUME NEW f \in Feeders, JobCommit(f) PROVE CleanInv'
  <2>1. f \in files /\ pc = "import" /\ jobs[f] = "moved"
    BY <1>12 DEF JobCommit, JobsHaveFiles
  <2>2. /\ schema'[f].kind \in {"valid", "partial"} /\ schema'[f].ver = importing[f].ver
        /\ lastImport'[f] = importing[f].ver /\ jobs'[f] = "loaded"
    BY <1>12 DEF JobCommit
  <2>3. \A g \in Feeders \ {f} :
          schema'[g] = schema[g] /\ lastImport'[g] = lastImport[g] /\ jobs'[g] = jobs[g]
    BY <1>12 DEF JobCommit
  <2>4. UNCHANGED <<failedMark, importing, pc, files, todo, joined, attachFailed, attached, left>>
    BY <1>12 DEF JobCommit
  <2>5. MarksMeanFailed' /\ RowsMeanLoaded'
    <3>1. \A g \in Feeders \ {f} : Loaded(g)' = Loaded(g) /\ Reverting(g)' = Reverting(g)
      BY <2>3, <2>4
    <3>2. MarksMeanFailed'
      BY <2>1, <2>2, <2>3, <2>4
    <3>3. Loaded(f)'
      BY <2>1, <2>2, <2>4
    <3>4. QED
      BY <2>2, <2>3, <2>4, <3>1, <3>2, <3>3
  <2>6. StagesFit' /\ ImportedIsAttached'
    BY <2>1, <2>2, <2>3, <2>4 DEF OneJobForAll
  <2>7. QED
    BY <2>5, <2>6
<1>13. ASSUME NEW f \in Feeders, JobBreak(f) PROVE CleanInv'
  BY <1>13 DEF JobBreak, OneJobForAll, JobsHaveFiles
<1>14. ASSUME NEW f \in Feeders, JobOk(f) \/ JobFail(f) PROVE CleanInv'
  <2>1. CASE JobOk(f)
    BY <2>1 DEF JobOk, OneJobForAll, JobsHaveFiles
  <2>2. CASE JobFail(f)
    BY <2>2 DEF JobFail, OneJobForAll, JobsHaveFiles
  <2>3. QED
    BY <1>14, <2>1, <2>2
<1>15. CASE ImportDone
  <2>1. /\ pc = "import" /\ \A f \in files : jobs[f] \in {"ok", "failed"}
        /\ UNCHANGED <<dirs, db, files, jobs, joined, attachFailed, left>>
        /\ pc' \in {"revert", "attach"}
    BY <1>15 DEF ImportDone, NextPhase
  <2>2. \A f \in Feeders : importing[f] # NoDump => f \in left
    BY <2>1 DEF JobsHaveFiles
  <2>3. CASE pc' = "revert"
    <3>1. todo' = Present(failedMark)
      BY <1>15, <2>3 DEF ImportDone, RevertSet, NextPhase
    <3>2. QED
      BY <2>1, <2>2, <2>3, <3>1 DEF JobsHaveFiles, Present
  <2>4. CASE pc' = "attach"
    <3>1. todo' = files /\ ~failed' /\ failed' \in ParallelFailed
      BY <1>15, <2>4 DEF ImportDone
    <3>2. Backend # "for" => FailedJobs = {}
      BY <3>1, NotFailedMeansNone
    <3>3. QED
      BY <2>1, <2>2, <2>4, <3>1, <3>2 DEF JobsHaveFiles, FailedJobs
  <2>5. QED
    BY <2>1, <2>3, <2>4
<1>16. ASSUME NEW f \in Feeders, Revert(f) PROVE CleanInv'
  BY <1>16 DEF Revert, DropSchema, Present, NoDump
<1>17. CASE RevertDone
  BY <1>17 DEF RevertDone, NextPhase
<1>18. CASE Duplicates
  BY <1>18 DEF Duplicates
<1>19. ASSUME NEW f \in Feeders, AttachSchema(f) PROVE CleanInv'
  BY <1>19 DEF AttachSchema, AttachFails, KeptBack, NoDump
<1>20. ASSUME NEW f \in Feeders, AttachSkip(f) PROVE CleanInv'
  BY <1>20 DEF AttachSkip, KeptBack
<1>21. CASE AttachDone
  BY <1>21 DEF AttachDone
<1>22. CASE UNCHANGED vars
  BY <1>22 DEF vars, Present, OneJobForAll
<1>23. QED
  BY <1>2, <1>3, <1>4, <1>5, <1>6, <1>7, <1>8, <1>9, <1>10, <1>11, <1>12, <1>13, <1>14, <1>15,
     <1>16, <1>17, <1>18, <1>19, <1>20, <1>21, <1>22
     DEF Next, Run
LEMMA CleanInvariant ==
  ASSUME ~HandleDuplicates
  PROVE  Spec => [](TypeInv /\ CleanInv)
<1>1. Init => TypeInv /\ CleanInv
  BY TypeInvInductive, CleanInit
<1>2. TypeInv /\ CleanInv /\ [Next]_vars => (TypeInv /\ CleanInv)'
  BY TypeInvInductive, CleanStep
<1>3. QED
  BY <1>1, <1>2, PTL DEF Spec

(* When duplicates are not handled, a run that is not cut short leaves no  *)
(* .failed file, and rows in an import schema or a .importing file only    *)
(* for a feeder whose own clean-up failed.  The loop of parallel.sh        *)
(* overlooks failed jobs and is excluded (import.sh:69-76, 94-104, 150).   *)
THEOREM LeavesNothing ==
  ASSUME ~HandleDuplicates, Backend # "for"
  PROVE  Spec => []NothingLeftBehind
<1>1. TypeInv /\ CleanInv => NothingLeftBehind
  BY DEF CleanInv, MarksMeanFailed, RowsMeanLoaded, Loaded, Reverting, NothingLeftBehind, Present
<1>2. QED
  BY <1>1, CleanInvariant, PTL

(* When duplicates are not handled, a file that cannot be imported costs   *)
(* only its feeder: a run that is not cut short has attached all others    *)
(* when it ends (CHANGELOG.md:381).                                        *)
THEOREM InvalidCostsOne ==
  ASSUME ~HandleDuplicates
  PROVE  Spec => []InvalidSkipped
<1>1. TypeInv /\ CleanInv => InvalidSkipped
  BY DEF CleanInv, ImportedIsAttached, InvalidSkipped
<1>2. QED
  BY <1>1, CleanInvariant, PTL

(* Under the same condition rows that reached an import schema leave it    *)
(* only for the public tables, or when something failed for that very      *)
(* feeder: its attach, its job after the commit, or an earlier clean-up    *)
(* (import.sh:94-104).                                                     *)
THEOREM RowsAreKept ==
  ASSUME ~HandleDuplicates, Backend # "for"
  PROVE  Spec => ImportedRowsKept
<1> DEFINE Kept == ~cut => \A f \in Feeders :
             schema[f].kind = "valid" /\ schema'[f] # schema[f] =>
               \/ attached'[f] = schema[f] \/ f \in attachFailed'
               \/ jobs[f] = "failed" \/ f \in left
<1>1. TypeInv /\ CleanInv /\ [Next]_vars => Kept
  <2> SUFFICES ASSUME TypeInv, MarksMeanFailed, RowsMeanLoaded, StagesFit, [Next]_vars,
                      NEW f \in Feeders, schema[f].kind = "valid", schema'[f] # schema[f],
                      jobs[f] # "failed", f \notin left
               PROVE  attached'[f] = schema[f] \/ f \in attachFailed'
    BY DEF CleanInv
  <2>1. Loaded(f) \/ Reverting(f)
    BY DEF RowsMeanLoaded
  <2>2. pc \in {"import", "revert", "attach"}
    BY <2>1 DEF Loaded, Reverting
  <2> USE DEF TypeInv, TypeOK, db, DropSchema
  <2>3. \A g \in Feeders : ~SetupEnsure(g) /\ ~Undo(g)
    BY <2>2 DEF SetupEnsure, Undo
  <2>4. ASSUME NEW g \in Feeders, JobCommit(g) PROVE FALSE
    <3>1. g = f /\ pc = "import" /\ jobs[f] = "moved"
      BY <2>4 DEF JobCommit
    <3>2. QED
      BY <3>1, <2>1 DEF Loaded, Reverting, MarksMeanFailed
  <2>5. ASSUME NEW g \in Feeders, Revert(g) PROVE FALSE
    <3>1. g = f /\ f \in Present(failedMark)
      BY <2>5 DEF Revert, StagesFit
    <3>2. QED
      BY <3>1 DEF MarksMeanFailed, Present
  <2>6. ASSUME NEW g \in Feeders, AttachSchema(g)
        PROVE  attached'[f] = schema[f] \/ f \in attachFailed'
    BY <2>6 DEF AttachSchema, AttachFails
  <2>7. \E g \in Feeders : SetupEnsure(g) \/ Undo(g) \/ JobCommit(g) \/ Revert(g) \/ AttachSchema(g)
    BY DEF Next, Run, vars, Arrive, EditHubs, Crash, Start, SetupSkip, SetupDone, UndoDone,
           JobMove, JobNoSuchFile, JobBreak, JobOk, JobFail, ImportDone, RevertStops, RevertDone,
           Duplicates, AttachSkip, AttachDone
  <2>8. QED
    BY <2>3, <2>4, <2>5, <2>6, <2>7
<1>2. TypeInv /\ CleanInv /\ [Next]_vars => [Kept]_vars
  BY <1>1
<1>3. QED
  BY <1>2, CleanInvariant, PTL DEF Spec, ImportedRowsKept

-----------------------------------------------------------------------------
(* What duplicate handling adds: a run that goes on to attach has no       *)
(* failed job, unless the loop of parallel.sh overlooked it.               *)
NoneFailed ==
  /\ pc = "revert" => failed
  /\ pc \in {"dups", "attach"} =>
       /\ todo \subseteq files
       /\ failed \/ FailedJobs = {}
  /\ pc = "attach" => ~failed

LEMMA NoneFailedStep ==
  ASSUME HandleDuplicates, Backend # "for"
  PROVE  TypeInv /\ NoneFailed /\ [Next]_vars => NoneFailed'
<1> SUFFICES ASSUME TypeInv, NoneFailed, [Next]_vars PROVE NoneFailed'
  OBVIOUS
<1> USE DEF NoneFailed, TypeInv, TypeOK, FailedJobs, dirs, db, script, env, Exit, Goto
<1>1. CASE ImportDone
  <2>1. failed' = (FailedJobs # {})
    BY <1>1 DEF ImportDone, ParallelFailed
  <2>2. QED
    BY <1>1, <2>1 DEF ImportDone, NextPhase
<1>2. CASE RevertDone
  BY <1>2 DEF RevertDone, NextPhase
<1>3. CASE Duplicates
  BY <1>3 DEF Duplicates
<1>4. ASSUME ~ImportDone, ~RevertDone, ~Duplicates PROVE NoneFailed'
  BY <1>4 DEF Next, Run, vars, Arrive, EditHubs, Crash, Start, SetupSkip, SetupEnsure, SetupDone,
         Undo, UndoDone, JobMove, JobNoSuchFile, JobCommit, JobBreak, JobOk, JobFail, Revert,
         RevertStops, AttachSchema, AttachSkip, AttachDone
<1>5. QED
  BY <1>1, <1>2, <1>3, <1>4

(* A file that cannot be imported leaves the data in use of its feeder as  *)
(* it was (comment at import.sh:101): whatever fails and is killed when    *)
(* duplicates are handled, since the run then ends before it attaches, and *)
(* with xargs as long as no command fails.  Without the handling of        *)
(* duplicates an mv that fails in a job can break it, and the loop of      *)
(* parallel.sh can when a list became one job for no file.                 *)
THEOREM FailedKeepsPrevious ==
  ASSUME \/ HandleDuplicates /\ Backend # "for"
         \/ Backend = "xargs" /\ MaxFaults = 0
  PROVE  Spec => PreviousKept
<1> DEFINE Kept == \A f \in Feeders : jobs[f] = "failed" => attached'[f] = attached[f]
<1> DEFINE Safe == \A f \in Feeders :
             pc = "attach" /\ f \in todo /\ jobs[f] = "failed" => failedMark[f] # NoDump
<1>1. Safe /\ TypeInv /\ [Next]_vars => [Kept]_vars
  <2> SUFFICES ASSUME Safe, TypeInv, [Next]_vars PROVE Kept
    OBVIOUS
  <2>1. ASSUME NEW f \in Feeders, AttachSchema(f) PROVE Kept
    BY <2>1 DEF AttachSchema, AttachFails, KeptBack, TypeInv, TypeOK
  <2>2. (\E f \in Feeders : AttachSchema(f)) \/ UNCHANGED attached
    BY DEF Next, Run, vars, env, db, Arrive, EditHubs, Crash, Start, SetupSkip, SetupEnsure,
           SetupDone, Undo, UndoDone, DropSchema, JobMove, JobNoSuchFile, JobCommit, JobBreak,
           JobOk, JobFail, ImportDone, Revert, RevertStops, RevertDone, Duplicates, AttachSkip,
           AttachDone
  <2>3. QED
    BY <2>1, <2>2
<1>2. CASE Backend = "xargs" /\ MaxFaults = 0
  <2>1. ImportInv => Safe /\ TypeInv
    BY <1>2 DEF ImportInv, TypeInv, TypeOK, FailuresShow, Unmarked, Pending
  <2>2. QED
    BY <1>1, <1>2, <2>1, ImportInvariant, PTL DEF Spec, PreviousKept
<1>3. CASE HandleDuplicates /\ Backend # "for"
  <2>1. Init => TypeInv /\ NoneFailed
    BY TypeInvInductive DEF Init, NoneFailed
  <2>2. TypeInv /\ NoneFailed /\ [Next]_vars => (TypeInv /\ NoneFailed)'
    BY <1>3, TypeInvInductive, NoneFailedStep
  <2>3. NoneFailed => Safe
    BY DEF NoneFailed, FailedJobs
  <2>4. QED
    BY <1>1, <2>1, <2>2, <2>3, PTL DEF Spec, PreviousKept
<1>4. QED
  BY <1>2, <1>3
=============================================================================
