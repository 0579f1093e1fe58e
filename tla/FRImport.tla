------------------------------ MODULE FRImport ------------------------------
(***************************************************************************)
(* The import half of federated reporting: import.sh, run by cf-agent on   *)
(* the superhub, and the import_file.sh jobs it starts, one per dump file. *)
(* One file per feeder and per name suffix can exist, so a directory is a  *)
(* function from feeders to the dump whose file it holds.                  *)
(*                                                                         *)
(* The database functions the scripts call live outside this repository.   *)
(* They are modelled from their use: each psql command is one transaction; *)
(* ensure_feeder_schema leaves an empty import schema, drop_feeder_schema  *)
(* removes it, attach_feeder_schema makes it the feeder's data or, when it *)
(* fails, removes it (comment at import.sh:156).                           *)
(***************************************************************************)
EXTENDS Naturals, FiniteSets

CONSTANTS
  Feeders,            \* feeder hubs, named by their hostkeys
  Kinds,              \* kinds of dump files that arrive, see DumpKinds
  Backend,            \* how run_in_parallel runs jobs: GNU parallel, xargs, or a loop
  Repeats,            \* may the transport deliver the last dump once more
  HandleDuplicates,   \* CFE_FR_HANDLE_DUPLICATES = "yes"
  MaxDump,            \* bound: dumps handed over per feeder
  MaxFaults,          \* bound: failing commands (psql, mv, rm, the compressor) in a behaviour
  MaxCrashes,         \* bound: runs ended at any step in a behaviour, see Crash
  MaxEdits            \* bound: changes an administrator makes to __hubs

(* "badsql" is refused by the database, "corrupt" makes the extractor fail  *)
(* after it has written part of the dump.                                   *)
DumpKinds == {"valid", "badsql", "corrupt"}

ASSUME KindsAssumption == Kinds \subseteq DumpKinds
ASSUME BackendAssumption == Backend \in {"parallel", "xargs", "for"}
ASSUME SwitchesAssumption == Repeats \in BOOLEAN /\ HandleDuplicates \in BOOLEAN
ASSUME BoundsAssumption ==
  MaxDump \in Nat /\ MaxFaults \in Nat /\ MaxCrashes \in Nat /\ MaxEdits \in Nat

VARIABLES
  made,          \* number of the last dump the transport delivered
  drop,          \* <feeder>.sql.gz in the drop directory
  imp,           \* <feeder>.sql.gz in the import directory
  importing,     \* <feeder>.sql.gz.importing
  failedMark,    \* <feeder>.sql.gz.failed
  cutLogs,       \* feeders whose <feeder>.sql.gz.log.gz does not decompress
  hubs,          \* feeders with a row in cfdb.__hubs
  schema,        \* the feeder's import schema
  attached,      \* the feeder's rows in the public tables
  lastImport,    \* public.__hubs.last_import_ts, as the number of the dump
  pc,            \* where import.sh is
  files,         \* dump_files
  todo,          \* what is left of the loop import.sh is in
  joined,        \* dump_files has been rewritten as one line (xargs, line 58)
  jobs,          \* state of each import_file.sh job
  failed,        \* the variable of the same name
  attachFailed,  \* feeders whose attach failed (any_failed)
  exit,          \* exit status of the last run, "none" while one is going on
  faults, crashes, edits,
  left,          \* history: feeders for which a failing command left something behind
  cut            \* history: a run ended before it was through with its files

dirs == <<drop, imp, importing, failedMark, cutLogs>>
db == <<schema, attached, lastImport>>
script == <<files, todo, joined, jobs, failed, attachFailed>>
env == <<made, hubs, edits>>
aux == <<left, cut>>
vars == <<env, dirs, db, script, pc, exit, faults, crashes, aux>>

-----------------------------------------------------------------------------
NoDump == [ver |-> 0, kind |-> "none"]
Empty == [ver |-> 0, kind |-> "empty"]

File == [ver : 1..MaxDump, kind : Kinds] \cup {NoDump}
(* Some of a dump's rows can only be there when its extractor failed.      *)
ContentKinds == {"valid"} \cup (IF "corrupt" \in Kinds THEN {"partial"} ELSE {})
Content == [ver : 1..MaxDump, kind : ContentKinds] \cup {NoDump, Empty}

Present(dir) == {f \in Feeders : dir[f] # NoDump}

JobStates == {"none", "queued", "moved", "loaded", "broken", "ok", "failed"}

TypeOK ==
  /\ made \in [Feeders -> 0..MaxDump]
  /\ drop \in [Feeders -> File]
  /\ imp \in [Feeders -> File]
  /\ importing \in [Feeders -> File]
  /\ failedMark \in [Feeders -> File]
  /\ cutLogs \subseteq Feeders
  /\ hubs \subseteq Feeders
  /\ schema \in [Feeders -> Content]
  /\ attached \in [Feeders -> Content]
  /\ lastImport \in [Feeders -> 0..MaxDump]
  /\ pc \in {"idle", "setup", "undo", "import", "revert", "dups", "attach"}
  /\ files \subseteq Feeders
  /\ todo \subseteq Feeders
  /\ joined \in BOOLEAN
  /\ jobs \in [Feeders -> JobStates]
  /\ failed \in BOOLEAN
  /\ attachFailed \subseteq Feeders
  /\ exit \in {"none", "ok", "error", "killed"}
  /\ faults \in 0..MaxFaults
  /\ crashes \in 0..MaxCrashes
  /\ edits \in 0..MaxEdits
  /\ left \subseteq Feeders
  /\ cut \in BOOLEAN

Init ==
  /\ made = [f \in Feeders |-> 0]
  /\ drop = [f \in Feeders |-> NoDump]
  /\ imp = [f \in Feeders |-> NoDump]
  /\ importing = [f \in Feeders |-> NoDump]
  /\ failedMark = [f \in Feeders |-> NoDump]
  /\ cutLogs = {}
  /\ hubs = Feeders
  /\ schema = [f \in Feeders |-> NoDump]
  /\ attached = [f \in Feeders |-> NoDump]
  /\ lastImport = [f \in Feeders |-> 0]
  /\ pc = "idle"
  /\ files = {} /\ todo = {} /\ joined = FALSE
  /\ jobs = [f \in Feeders |-> "none"]
  /\ failed = FALSE /\ attachFailed = {}
  /\ exit = "none"
  /\ faults = 0 /\ crashes = 0 /\ edits = 0
  /\ left = {} /\ cut = FALSE

ScriptGone ==
  /\ files' = {} /\ todo' = {} /\ joined' = FALSE
  /\ jobs' = [f \in Feeders |-> "none"]
  /\ failed' = FALSE /\ attachFailed' = {}

NoFault == UNCHANGED faults
Fault == faults < MaxFaults /\ faults' = faults + 1

Exit(status) == pc' = "idle" /\ exit' = status
Goto(label) == pc' = label /\ UNCHANGED exit

-----------------------------------------------------------------------------
(* The world around the script.                                            *)

(* transport.sh moves a newer dump of a feeder into the drop directory, or *)
(* the last one once more: that it brings no older one is InOrder of       *)
(* FRTransport, with the exceptions named there.                           *)
Arrive(f) ==
  /\ \E v \in (IF Repeats THEN {made[f]} ELSE {}) \cup {made[f] + 1}, k \in Kinds :
       /\ v \in 1..MaxDump
       /\ made' = [made EXCEPT ![f] = v]
       /\ drop' = [drop EXCEPT ![f] = [ver |-> v, kind |-> k]]
  /\ UNCHANGED <<imp, importing, failedMark, cutLogs, hubs, edits, db, script, pc, exit, faults, crashes, aux>>

(* An administrator removes a feeder from the superhub or adds it again.   *)
EditHubs(f) ==
  /\ edits < MaxEdits
  /\ edits' = edits + 1
  /\ hubs' = IF f \in hubs THEN hubs \ {f} ELSE hubs \cup {f}
  /\ UNCHANGED <<made, dirs, db, script, pc, exit, faults, crashes, aux>>

(* The run and its jobs are killed, or set -e ends the run at a command    *)
(* that is not modelled as failing (chmod, tail, rm, the text tools): what *)
(* is on disk and in the database stays, the variables of the script are   *)
(* gone.  A job that is cut off leaves a log that is cut off, or the one   *)
(* of an earlier run.                                                      *)
Crash ==
  /\ pc # "idle" /\ crashes < MaxCrashes
  /\ crashes' = crashes + 1
  /\ Exit("killed")
  /\ \E torn \in SUBSET {f \in files : pc = "import" /\ jobs[f] \in {"moved", "loaded"}} :
       cutLogs' = cutLogs \cup torn
  /\ ScriptGone
  /\ cut' = TRUE
  /\ UNCHANGED <<env, drop, imp, importing, failedMark, db, faults, left>>

-----------------------------------------------------------------------------
(* Moving files in and setting up schemas.                                 *)

(* A failing mv leaves some of the files behind and is only logged.        *)
Start ==
  /\ pc = "idle"
  /\ \E moved \in SUBSET Present(drop) :
       /\ IF moved = Present(drop) THEN NoFault ELSE Fault
       /\ imp' = [f \in Feeders |-> IF f \in moved THEN drop[f] ELSE imp[f]]
       /\ drop' = [f \in Feeders |-> IF f \in moved THEN NoDump ELSE drop[f]]
  /\ files' = {f \in Feeders : imp'[f] # NoDump}
  /\ todo' = files'
  /\ joined' = FALSE /\ failed' = FALSE /\ attachFailed' = {}
  /\ jobs' = [f \in Feeders |-> "none"]
  /\ IF files' = {} THEN Exit("ok") ELSE pc' = "setup" /\ exit' = "none"
  /\ UNCHANGED <<env, importing, failedMark, cutLogs, db, crashes, aux>>

(* No hub_id for the feeder, or no answer at all: the file is skipped and  *)
(* what is left of dump_files comes back from xargs as a single line.      *)
SetupSkip(f) ==
  /\ pc = "setup" /\ f \in todo
  /\ IF f \in hubs THEN Fault ELSE NoFault
  /\ files' = files \ {f}
  /\ todo' = todo \ {f}
  /\ joined' = TRUE
  /\ UNCHANGED <<env, dirs, db, jobs, failed, attachFailed, pc, exit, crashes, aux>>

(* When psql fails, the function may have done its work all the same.      *)
SetupEnsure(f) ==
  /\ pc = "setup" /\ f \in todo \cap hubs
  /\ \/ NoFault /\ schema' = [schema EXCEPT ![f] = Empty] /\ UNCHANGED failed
     \/ Fault /\ schema' \in {schema, [schema EXCEPT ![f] = Empty]} /\ failed' = TRUE
  /\ todo' = todo \ {f}
  /\ UNCHANGED <<env, dirs, attached, lastImport, files, joined, jobs, attachFailed, pc, exit, crashes, aux>>

SetupDone ==
  /\ pc = "setup" /\ todo = {}
  /\ \/ /\ failed
        /\ todo' = files /\ Goto("undo") /\ UNCHANGED jobs
     \/ /\ ~failed /\ files = {}
        /\ Exit("ok") /\ UNCHANGED <<todo, jobs>>
     \/ /\ ~failed /\ files # {}
        /\ jobs' = [f \in Feeders |-> IF f \in files THEN "queued" ELSE "none"]
        /\ Goto("import") /\ UNCHANGED todo
  /\ UNCHANGED <<env, dirs, db, files, joined, failed, attachFailed, faults, crashes, aux>>

(* drop_feeder_schema, whose own failure is ignored.                       *)
DropSchema(f) ==
  /\ \/ NoFault /\ schema' = [schema EXCEPT ![f] = NoDump] /\ UNCHANGED left
     \/ Fault /\ left' = left \cup {f} /\ UNCHANGED schema
  /\ UNCHANGED <<attached, lastImport, cut>>

Undo(f) ==
  /\ pc = "undo" /\ f \in todo
  /\ DropSchema(f)
  /\ todo' = todo \ {f}
  /\ UNCHANGED <<env, dirs, files, joined, jobs, failed, attachFailed, pc, exit, crashes>>

UndoDone ==
  /\ pc = "undo" /\ todo = {}
  /\ Exit("error")
  /\ UNCHANGED <<env, dirs, db, script, faults, crashes, aux>>

-----------------------------------------------------------------------------
(* The import_file.sh jobs.                                                *)

(* GNU parallel and the loop run one job per line, so a joined list becomes *)
(* one job whose argument names no file; xargs splits it again.             *)
OneJobForAll_NoSplit == joined
OneJobForAll == joined /\ Backend # "xargs" /\ Cardinality(files) > 1

(* When mv itself fails, set -e ends the job before the lines that make a  *)
(* .failed file: the dump and the empty schema stay as they are.           *)
JobMove(f) ==
  /\ pc = "import" /\ jobs[f] = "queued" /\ ~OneJobForAll
  /\ \/ /\ NoFault
        /\ importing' = [importing EXCEPT ![f] = imp[f]]
        /\ imp' = [imp EXCEPT ![f] = NoDump]
        /\ jobs' = [jobs EXCEPT ![f] = "moved"]
     \/ /\ Fault
        /\ jobs' = [jobs EXCEPT ![f] = "failed"]
        /\ UNCHANGED <<importing, imp>>
  /\ UNCHANGED <<env, drop, failedMark, cutLogs, db, files, todo, joined, failed, attachFailed, pc, exit, crashes, aux>>

(* mv finds no such file and set -e ends the job: nothing else has happened. *)
JobNoSuchFile ==
  /\ pc = "import" /\ OneJobForAll
  /\ \E f \in files : jobs[f] = "queued"
  /\ jobs' = [f \in Feeders |-> IF f \in files THEN "failed" ELSE "none"]
  /\ UNCHANGED <<env, dirs, db, files, todo, joined, failed, attachFailed, pc, exit, faults, crashes, aux>>

(* ON_ERROR_STOP keeps the COMMIT away from a file the database refuses.    *)
Accepted_NoErrorStop(file) == TRUE
Accepted(file) == file.kind # "badsql"

(* COMMIT makes the rows and last_import_ts visible together.  The status  *)
(* of the extractor is not looked at: rows it wrote before failing are     *)
(* committed when they end with a statement.                               *)
JobCommit(f) ==
  /\ pc = "import" /\ jobs[f] = "moved"
  /\ Accepted(importing[f])
  /\ schema' = [schema EXCEPT ![f] =
       [ver |-> importing[f].ver,
        kind |-> IF importing[f].kind = "valid" THEN "valid" ELSE "partial"]]
  /\ lastImport' = [lastImport EXCEPT ![f] = importing[f].ver]
  /\ jobs' = [jobs EXCEPT ![f] = "loaded"]
  /\ UNCHANGED <<env, dirs, attached, files, todo, joined, failed, attachFailed, pc, exit, faults, crashes, aux>>

(* The pipeline fails: the database refuses the file, the connection or    *)
(* the compressor is lost before the COMMIT, or after it, when the rows    *)
(* and last_import_ts are in (pipefail).                                   *)
JobBreak(f) ==
  /\ pc = "import"
  /\ \/ /\ jobs[f] = "moved" /\ importing[f].kind # "valid"
        /\ NoFault
        /\ cutLogs' = cutLogs \ {f}
     \/ /\ jobs[f] \in {"moved", "loaded"}
        /\ Fault
        /\ cutLogs' \in {cutLogs \ {f}, cutLogs \cup {f}}
  /\ jobs' = [jobs EXCEPT ![f] = "broken"]
  /\ UNCHANGED <<env, drop, imp, importing, failedMark, db, files, todo, joined, failed, attachFailed, pc, exit, crashes, aux>>

(* A failing rm does not keep exit 0 from being run: set -e does not apply *)
(* inside the list of && and ||.                                           *)
JobOk(f) ==
  /\ pc = "import" /\ jobs[f] = "loaded"
  /\ \/ NoFault /\ importing' = [importing EXCEPT ![f] = NoDump] /\ UNCHANGED left
     \/ Fault /\ left' = left \cup {f} /\ UNCHANGED importing
  /\ cutLogs' = cutLogs \ {f}
  /\ jobs' = [jobs EXCEPT ![f] = "ok"]
  /\ UNCHANGED <<env, drop, imp, failedMark, db, files, todo, joined, failed, attachFailed, pc, exit, crashes, cut>>

(* Should this mv fail as well, there is no .failed file.                  *)
JobFail(f) ==
  /\ pc = "import" /\ jobs[f] = "broken"
  /\ \/ /\ NoFault
        /\ failedMark' = [failedMark EXCEPT ![f] = importing[f]]
        /\ importing' = [importing EXCEPT ![f] = NoDump]
        /\ UNCHANGED left
     \/ /\ Fault
        /\ left' = left \cup {f}
        /\ UNCHANGED <<failedMark, importing>>
  /\ jobs' = [jobs EXCEPT ![f] = "failed"]
  /\ UNCHANGED <<env, drop, imp, cutLogs, db, files, todo, joined, failed, attachFailed, pc, exit, crashes, cut>>

(* The status of run_in_parallel: the loop overlooks one of its jobs.      *)
FailedJobs == {f \in files : jobs[f] = "failed"}

ParallelFailed_Ignored == {FALSE}
ParallelFailed ==
  IF Backend = "for" /\ ~OneJobForAll
  THEN {FailedJobs \ {f} # {} : f \in files}
  ELSE {FailedJobs # {} /\ ~(Backend = "for" /\ OneJobForAll)}

(* Where the run goes on once the files are in. *)
NextPhase_NoTest == "dups"
NextPhase == IF HandleDuplicates THEN "dups" ELSE "attach"

(* The feeders whose import schemas are dropped when a file failed.         *)
RevertSet_AllFiles == files
RevertSet == Present(failedMark)

(* With no .failed file the glob stays as it is, the decompressor finds no *)
(* log to show, and set -e ends the run.                                   *)
ImportDone ==
  /\ pc = "import" /\ \A f \in files : jobs[f] \in {"ok", "failed"}
  /\ failed' \in ParallelFailed
  /\ \/ /\ failed' /\ RevertSet = {}
        /\ Exit("error") /\ cut' = TRUE /\ UNCHANGED todo
     \/ /\ failed' /\ RevertSet # {}
        /\ todo' = RevertSet /\ Goto("revert") /\ UNCHANGED cut
     \/ /\ ~failed'
        /\ todo' = files /\ Goto(NextPhase) /\ UNCHANGED cut
  /\ UNCHANGED <<env, dirs, db, files, joined, jobs, attachFailed, faults, crashes, left>>

Revert(f) ==
  /\ pc = "revert" /\ f \in todo \ cutLogs
  /\ DropSchema(f)
  /\ todo' = todo \ {f}
  /\ UNCHANGED <<env, dirs, files, joined, jobs, failed, attachFailed, pc, exit, crashes>>

(* The log of a job that was cut off cannot be shown: pipefail and set -e  *)
(* end the run here too.                                                   *)
RevertStops ==
  /\ pc = "revert" /\ todo \cap cutLogs # {}
  /\ Exit("error") /\ cut' = TRUE
  /\ UNCHANGED <<env, dirs, db, script, faults, crashes, left>>

RevertDone ==
  /\ pc = "revert" /\ todo = {}
  /\ todo' = files /\ Goto(NextPhase)
  /\ UNCHANGED <<env, dirs, db, files, joined, jobs, failed, attachFailed, faults, crashes, aux>>

-----------------------------------------------------------------------------
(* Duplicates and attaching.                                               *)

(* failed still tells whether a file could not be imported.                *)
Duplicates ==
  /\ pc = "dups"
  /\ \/ NoFault /\ UNCHANGED failed
     \/ Fault /\ failed' = TRUE
  /\ IF failed' THEN Exit("error") ELSE Goto("attach")
  /\ UNCHANGED <<env, dirs, db, files, todo, joined, jobs, attachFailed, crashes, aux>>

(* A .failed file, of this run or an older one, keeps the schema back.      *)
KeptBack_Never(f) == FALSE
KeptBack(f) == failedMark[f] # NoDump

(* The function fails and removes the schema, psql does not reach the      *)
(* database, or its answer is lost when the schema is attached already.    *)
AttachFails(f) ==
  /\ \/ /\ IF schema[f] = NoDump THEN NoFault ELSE Fault
        /\ schema' = [schema EXCEPT ![f] = NoDump]
        /\ UNCHANGED <<attached, left>>
     \/ /\ Fault
        /\ left' = left \cup {f}
        /\ UNCHANGED <<schema, attached>>
     \/ /\ Fault /\ schema[f] # NoDump
        /\ attached' = [attached EXCEPT ![f] = schema[f]]
        /\ schema' = [schema EXCEPT ![f] = NoDump]
        /\ UNCHANGED left
  /\ attachFailed' = attachFailed \cup {f}

AttachSchema(f) ==
  /\ pc = "attach" /\ f \in todo /\ ~KeptBack(f)
  /\ \/ /\ NoFault /\ schema[f] # NoDump
        /\ attached' = [attached EXCEPT ![f] = schema[f]]
        /\ schema' = [schema EXCEPT ![f] = NoDump]
        /\ UNCHANGED <<attachFailed, left>>
     \/ AttachFails(f)
  /\ todo' = todo \ {f}
  /\ UNCHANGED <<env, dirs, lastImport, files, joined, jobs, failed, pc, exit, crashes, cut>>

AttachSkip(f) ==
  /\ pc = "attach" /\ f \in todo /\ KeptBack(f)
  /\ failedMark' = [failedMark EXCEPT ![f] = NoDump]
  /\ todo' = todo \ {f}
  /\ UNCHANGED <<env, drop, imp, importing, cutLogs, db, files, joined, jobs, failed, attachFailed, pc, exit, faults, crashes, aux>>

(* The inventory refresh that follows changes nothing of this state; its   *)
(* failure makes the run exit 1.                                           *)
AttachDone ==
  /\ pc = "attach" /\ todo = {}
  /\ \/ attachFailed # {} /\ Exit("error") /\ NoFault
     \/ attachFailed = {} /\ Exit("ok") /\ NoFault
     \/ attachFailed = {} /\ Exit("error") /\ Fault
  /\ UNCHANGED <<env, dirs, db, script, crashes, aux>>

-----------------------------------------------------------------------------
Run ==
  \/ Start \/ SetupDone \/ UndoDone \/ JobNoSuchFile \/ ImportDone
  \/ RevertStops \/ RevertDone \/ Duplicates \/ AttachDone
  \/ \E f \in Feeders :
       \/ SetupSkip(f) \/ SetupEnsure(f) \/ Undo(f)
       \/ JobMove(f) \/ JobCommit(f) \/ JobBreak(f) \/ JobOk(f) \/ JobFail(f)
       \/ Revert(f) \/ AttachSchema(f) \/ AttachSkip(f)

Next == Run \/ Crash \/ \E f \in Feeders : Arrive(f) \/ EditHubs(f)

Spec == Init /\ [][Next]_vars

(* cf-agent starts import.sh again and again, and a running script goes on. *)
FairSpec == Spec /\ WF_vars(Run)
-----------------------------------------------------------------------------
(* What the import works towards.  A dump only moves on from the drop       *)
(* directory to the tables, no older one behind it.                        *)
DumpsInOrder ==
  \A f \in Feeders :
    /\ attached[f].ver <= lastImport[f] /\ lastImport[f] <= made[f]
    /\ importing[f].ver <= made[f] /\ imp[f].ver <= made[f] /\ drop[f].ver <= made[f]
    /\ imp[f] # NoDump => lastImport[f] <= imp[f].ver /\ importing[f].ver <= imp[f].ver
    /\ drop[f] # NoDump =>
         /\ lastImport[f] <= drop[f].ver /\ importing[f].ver <= drop[f].ver
         /\ imp[f].ver <= drop[f].ver

(* A job is only ever started on a file that is there, and has it.          *)
JobsHaveFiles ==
  /\ pc = "setup" => \A f \in files : imp[f] # NoDump
  /\ pc = "import" => \A f \in Feeders :
       /\ jobs[f] = "none" <=> f \notin files
       /\ jobs[f] = "queued" => imp[f] # NoDump
       /\ jobs[f] \in {"moved", "loaded", "broken"} => importing[f] # NoDump

(* Feeders whose job decides what the run still does with their schema.    *)
Pending == CASE pc \in {"import", "revert", "dups"} -> files
             [] pc = "attach" -> todo
             [] OTHER -> {}

(* A job that fails makes a .failed file, unless a command failed; its dump *)
(* is still there then.                                                    *)
Unmarked(f) == jobs[f] = "failed" /\ failedMark[f] = NoDump

FailuresShow ==
  \A f \in Pending : Unmarked(f) =>
    faults > 0 /\ (imp[f] # NoDump \/ importing[f] # NoDump)

(* Between its job and its turn in the attach loop, a feeder without a     *)
(* .failed file has the rows of the dump last imported in its schema, or   *)
(* none when its job failed.                                               *)
JobsTellTheTruth ==
  /\ pc \in {"dups", "attach"} => todo \subseteq files
  /\ pc = "revert" => todo \subseteq Present(failedMark)
  /\ pc = "setup" /\ ~failed => \A f \in files \ todo : schema[f] = Empty
  /\ \A f \in Pending :
       /\ pc # "import" => jobs[f] \in {"ok", "failed"}
       /\ jobs[f] = "moved" => lastImport[f] <= importing[f].ver
       /\ jobs[f] \in {"queued", "moved"} => schema[f] = Empty
       /\ jobs[f] \in {"broken", "failed"} /\ failedMark[f] = NoDump =>
            schema[f] = Empty \/ (schema[f].ver = lastImport[f] /\ schema[f].ver > 0)
       /\ jobs[f] \in {"loaded", "ok"} /\ failedMark[f] = NoDump =>
            schema[f].ver = lastImport[f] /\ schema[f].ver > 0

ImportInv == TypeOK /\ DumpsInOrder /\ JobsHaveFiles /\ FailuresShow /\ JobsTellTheTruth

-----------------------------------------------------------------------------
(* Properties.                                                             *)

(* The feeders of whose file the run has lost track: with no .failed file   *)
(* it takes them for imported.  FailuresShow says how that comes about, an *)
(* mv that fails in their job (import_file.sh:45 and 65).                  *)
Lost == {f \in Feeders : Unmarked(f)}

FT == INSTANCE FeederTables WITH view <- [f \in Feeders |-> attached[f].ver],
                                 imported <- lastImport, lost <- Lost

(* The rows shown for a feeder only ever move on to the dump last imported, *)
(* whatever fails, is skipped, is killed or is left over from earlier runs; *)
(* they vanish only when the mv of that very feeder's job failed           *)
(* (import.sh, all of it).                                                 *)
ViewPromise == FT!Spec

(* What is attached are all the rows of a dump, never the part of it that  *)
(* was read before something failed (import_file.sh:47), and never an empty *)
(* schema but the one of a job that could not even move its file.          *)
ViewComplete ==
  [][\A f \in Feeders : attached'[f] # attached[f] =>
       attached'[f].kind = "valid" \/ f \in Lost]_vars

(* What a file that cannot be imported costs: the run reverts it, and the  *)
(* data in use for its feeder stays as it was (comment at import.sh:101).  *)
PreviousKept ==
  [][\A f \in Feeders : jobs[f] = "failed" => attached'[f] = attached[f]]_vars

(* An invalid file is skipped: when no run was cut short, a run that has   *)
(* ended has attached every file that it imported, unless attaching that   *)
(* very file failed (CHANGELOG.md:381; import.sh:87-160).                  *)
InvalidSkipped ==
  ~cut /\ pc = "idle" =>
    \A f \in files : jobs[f] = "ok" /\ f \notin attachFailed =>
                        attached[f].ver = lastImport[f]

(* Rows that reached an import schema are not dropped on behalf of another *)
(* feeder's failure: only when a command failed for this very feeder, or a *)
(* run was cut short (import.sh:94-104).                                   *)
ImportedRowsKept ==
  [][~cut => \A f \in Feeders :
       schema[f].kind = "valid" /\ schema'[f] # schema[f] =>
         \/ attached'[f] = schema[f] \/ f \in attachFailed'
         \/ jobs[f] = "failed" \/ f \in left]_vars

(* A run that is not cut short cleans up when a command fails: no .failed  *)
(* file is left to mislead the next run, and for no feeder but the one     *)
(* whose own clean-up failed a .importing file or rows in an import schema *)
(* (import.sh:69-76, 94-104, 150, 156).                                    *)
NothingLeftBehind ==
  ~cut /\ pc = "idle" =>
    /\ Present(failedMark) = {} /\ Present(importing) \subseteq left
    /\ \A f \in Feeders \ left : schema[f].kind \in {"none", "empty"}

(* A file in the import directory is taken as long as its feeder is known: *)
(* no leftover of earlier runs blocks it, nor those after it, for ever     *)
(* (import.sh:29-105).                                                     *)
FileTaken == \A f \in Feeders : []<>(f \in hubs => imp[f] = NoDump)
=============================================================================
