# Verification of the CFEngine Masterfiles Policy Framework

TLA+ models, TLC runs and TLAPS proofs kept beside the masterfiles policy
framework (MPF). Most of the MPF is convergent policy: independent promises that
are evaluated again every few minutes. What can go wrong in an order nobody
tested is in the parts that move data between hosts or keep state between
steps, and those are modelled: federated reporting with the credentials it needs, policy
and CMDB updates, the watchdog, and the libraries for custom promise modules.

Paths are relative to the repository; `FR/` is `templates/federated_reporting/`.
`PROJECT.json` maps each definition of a module to the lines it stands for, lists
the runs, a mutant for every property, the hazards and the theorems.

## 1. Inventory

| Component | State it keeps | Operations | Interacts with | Hard behaviour | What makes it correct |
|---|---|---|---|---|---|
| Dump and transport (`FR/dump.sh`, `transport.sh`, `pull_dumps_from.sh`) | dump file, a hard link per superhub, `<pid>.transporting`, work and drop directories | dump, link, push, pull with one job per feeder | pg_dump, ssh, rsync; the import takes what it drops | several superhubs and a dump at once, killed scripts, reused pids, fallback directory | dumps arrive in order, jobs keep to their own files, nothing is left over, the last dump arrives |
| Import (`FR/import.sh`, `import_file.sh`) | `.sql.gz`, `.importing`, `.failed` files; import schemas; `__hubs` | move in, set up schemas, import in parallel, revert, duplicates, attach | PostgreSQL functions, parallel.sh, the drop directory | a command fails half way, kills, leftovers of earlier runs, joined list of files | a feeder's tables hold one complete dump and only move on; one bad file costs only its feeder; where a failing command breaks this is known |
| Parallel jobs (`FR/parallel.sh`) | slots, jobs, failure | start, wait for a slot, wait for all | its callers | jobs end in any order | no more jobs than slots, returns when all are done, tells of failures |
| Distributed cleanup (`FR/distributed_cleanup.py`) | accounts on all hubs, password file, rows of hosts | interactive setup, status, query, delete on the feeder, delete on the superhub | Mission Portal API, the superhub's tables | tables lag behind the feeders; partial deletions; setup stopped half way | deletes only where the host left, never its last row, ends with one row |
| Policy update (`cfe_internal/update/update_policy.cf`) | inputs, the stamp `cf_promises_validated` | copy stamp, def.json, tree, modules, extra paths; purge; drop the stamp | cf-serverd, cf-execd, the hub's validation | masterfiles change while they are copied, failed transfers, killed agents | the stamp vouches for the files beside it; purge takes only what was removed; hosts catch up |
| Module libraries (`modules/promises/cfengine.py`, `cfengine.sh`) | result classes; shell variables of a request | init, validate, evaluate, terminate, end of input | cf-agent over pipes; the author's functions | one process handles many promises | one fitting reply per request; nothing leaks from one promise to the next |
| Module installation (`modules_presence` in `update_policy.cf`) | moduledir | render vendored modules, copy overrides and user modules | policy update | after a partial update | *planned* |
| CMDB data (`cmdb` in `update_policy.cf`) | data per host, the time of the next request | ask the hub's API, write files, remember the time; copy to hosts | `get_cmdb.php`, Mission Portal | one promise of several fails, a run is killed between files and time, changes within one second | the time vouches for the files; every change arrives |
| Self upgrade (`update.cf.in`, `standalone_self_upgrade.cf.in`, `update_bins.cf`) | package versions, downloads | download, upgrade | package manager | agent replaces itself | *planned* |
| Process management (`update_processes.cf`, `systemd_units.cf`, `limit_robot_agents.cf`) | daemons, units | enable, start, stop | systemd, the process table | daemons that die | *planned* |
| Watchdog (`core/watchdog/templates/watchdog.mustache`) | pid file, its directory, daemons and their databases | find symptoms, list, kill, purge, restart up to ten times | cron, daemons | reused pids, kills, a trap that does not exit, starts that fail | one at a time, databases purged when nothing runs, cf-execd stays up |
| Certificates (`FR/transfer_distributed_cleanup_items.sh`) | certificate per hub, `hubs.cert` and its time | fetch, compare times, join, distribute | ssh, rsync | one hub is down, kills between emptying and filling, times of files | every attached hub's certificate ends up in `hubs.cert`, and that on every hub |
| Accounts (`FR/nova_api.py`, `cfsecret.py`) | robot account per hub, password file | log in, role, rights, user, write and read the password, status | Mission Portal API of each hub | any request is refused, lost, or carried out and answered with an error | is what the cleanup takes for one step, the setup of a hub |
| Database wrapper (`FR/psql_wrapper.sh.mustache`) | attempt, exit code, answer | run a statement, try again on status 2 | psql, `federation.cf` | a connection that breaks after the statement took effect | the outcome of the promise is true |
| Federation policy (`enterprise/federation/federation.cf`) | configuration, roles, services | runs the scripts, sets up database and ssh | all of the above | order of promises | environment of the models |
| Package modules, standard library, inventory, controls, HA, hub maintenance, VCS workflow, tests | none of their own, or a convergent promise each | | | | not modelled, see section 7 |

How they interact. cf-execd starts cf-agent, which first runs `update.cf` (policy
update, processes, upgrade) and then `promises.cf`. On a feeder of federated
reporting the latter runs `dump.sh` and maybe `transport.sh` to push; on the
superhub it runs `transport.sh` to pull, then `import.sh`, then the cleanup. The scripts
share nothing but directories and tables (accounts and certificates go from hub to hub in the same way, by the cleanup's setup and by the script for `hubs.cert`):

```
 feeder                                     superhub
 dump.sh -> transport/<feeder>.sql.gz
              |- ln -f -> transport/<superhub>/...
              |                pull_dumps_from.sh (ssh mkdir, mv, rsync, rm)
              '- push ------> drop dir -> import dir -> .importing -> import schema -> public tables
                                transport.sh       import.sh + import_file.sh jobs        |
                                                               distributed_cleanup.py <----'
                                                                 |  DELETE api/host
 feeder's tables <-----------------------------------------------'
```

Each arrow is modelled by one module, and what one module guarantees is what the
next assumes: `InOrder` of FRTransport is the order in which `Arrive` of FRImport
brings dumps; `ViewPromise` of FRImport (each feeder's tables switch to the dump
last imported in one transaction) is `Import` in DistributedCleanup.

## 2. Modules and how they correspond to the code

**FeederTables** is the abstract specification of the import: per feeder the number of the last dump handed over, of the one last imported, and of the
one whose rows are shown. The rows shown are replaced only by those of the dump last imported, dumps are imported in order, and rows vanish only for
a feeder whose dump the import has lost track of (`lost`). FRImport implements it (`ViewPromise`, checked and proved).
**FeederView** is the one of the transport: the dumps a superhub gets of a feeder are later and later ones. FRTransport implements it up to the drop
directory (`InOrder`, checked and proved).

**FRImport** - `import.sh` and the `import_file.sh` jobs. A directory is a function from
feeders to the dump whose file it holds (`drop`, `imp`, `importing`, `failedMark` for
the four file names); `cutLogs` are the jobs' logs that do not decompress; `schema` is the import schema, `attached` the feeder's rows in
the public tables, `lastImport` the time stamp in `__hubs`. `pc` is where the script is: idle,
setup, undo, import, revert, dups, attach; `todo` what is left of the loop it is in.
A job is its own process, interleaved with the others: `JobMove` (mv to `.importing`), `JobCommit` (the
one psql transaction), `JobBreak` (the pipeline fails, before or after the COMMIT), `JobOk` (rm, exit 0) and `JobFail` (mv to `.failed`, exit 1). Each of these
commands can fail: a failing mv at the start or at the end leaves a failed job without a `.failed` file, a failing rm the `.importing` file of a job that exits 0 (`set -e`
does not apply inside a list of `&&` and `||`), a failing compressor rows that are in although the job fails. What import.sh makes of that is in `ImportDone` and `RevertStops`:
with a failed job but no `.failed` file, or with a log that it cannot show, `set -e` ends the run. How
`run_in_parallel` runs jobs is the constant `Backend`: GNU parallel, xargs, or
parallel.sh's loop, because a list that was rewritten as one line (import.sh:58) is split
by xargs and one argument for the others (`OneJobForAll`), and because GNU parallel alone reports what failed (`ParallelFailed`). `Crash` ends the run
at any step, killed or at a command that is not modelled, and leaves files and committed rows. Two history variables: `left`, the feeders for which a
failing clean-up command left something behind, and `cut`, whether a run has ended before it was through with its files.

**ParallelRun** - `_run_using_for`, the fallback loop of parallel.sh, per job and per `wait -n`.

**FRTransport** - both ends of the transport. On a feeder: `file[f][place]`, the dump at
the top or in a superhub's directory, and `wip`, the `<pid>.transporting` directories; on a
superhub: `pull` and its `job`s, the work directory `<pid>` (`work`, `got`) and the drop
directory. Each ssh is a step that may fail (`Fault`); a job's steps are those of
`pull_dumps_from.sh`: choose the directory, test for files, mkdir, mv, rsync, rm. Pids come from small sets and are
reused, which is what makes leftovers matter. `DirTestAnswered` and `Known` say whether
`ssh test -d` always gets an answer and whether a superhub's directory exists at the start: the
fallback to the top directory depends on both. `OneWord` says whether the transporter's arguments are a single word, see section 6.

**DistributedCleanup** - the script (`run`: step, feeder, hosts to delete, hosts deleted, status of the last response) with
the world it reads late: hosts move and report, feeders dump, dumps are delivered and imported. `left`
and `returned` are history variables. `HubList` fixes the order in which the API names the feeders.

**PolicyUpdate** - bundle `cfe_internal_update_policy_cpv`. A file is the number of its version
on the server; the server's `validated` history says what each stamp stands for. A run
(`Start`, `CopyStamp`, `CopyDef`, `ListDir`, `CopyFile`, `PurgeDir`, `CopyExtra`, `DeleteStamp`, `End`) is
interleaved with edits of masterfiles (`Publish`, `Remove`, `Validate`). The classes that decide
(`validated_updates_ready`, `def_json_updated`, `update_inputs_not_kept`) are variables of the run. What
is only found by a later pass over the bundle, the extra paths of a new def.json, is a phase of its own (`LateExtras`).

**PromiseModulePy, PromiseModuleSh** - the two libraries, from reading a request to
writing the response. Values of attributes are kinds (what JSON type, does it look like a number
or a truth value), which is what conversion and type checking tell apart; classes are named
after the promise that set them. `Automatic` says whether the Python module's author leaves the checks to the library or overrides
`prepare_promiser_and_attributes` or `validate_attributes`; `Swallowed` are the values of which bash reads nothing, see section 6. **PromiseProtocol** is the abstract specification of both:
one reply at most to a request, about that request, with a result that fits it, none after `terminate`.

**HubAccounts** - the setup and the start of a cleanup one API request at a time. `script` is the next request, the hub it goes
to, the password being set, and why a hub is set up; each request may end in any status or exception that `nova_api.py` makes of an answer. It
implements DistributedCleanup (`Implements`), where setting up a hub is one step: `AbstractRun` says which step a request belongs to and
`Started` from when on a run counts. Only accounts and password change here; hosts and rows are empty in the mapping.

**HubCertificates** - `transfer_distributed_cleanup_items.sh`: pull each feeder's certificate, look by the times of files whether
`hubs.cert` is up to date, empty it, join, push. A certificate is the time it was made, because rsync keeps it.

**PsqlWrapper** - the attempts of `psql_wrapper.sh` at one idempotent statement, psql's exit codes, the answer, and the exit code that is the outcome of a promise.

**CmdbData** - the hub's bundle (state file, request, a file per host, state file again) and the copies of the hosts. A run is a sequence of promises
(`Seed`, `Request`, `WriteFile`, `WriteStamp`), each of which can fail on its own; `lost` and `tied` are history variables.

**Watchdog** - each process of the script by its pid: `look` and `claim` at the pid file, `check` for symptoms, `list`, `kill`, purge, `start`, `verify`.
`young` are the processes that started after the pid file was written, which is what the script asks `/proc` for; `dir` is the directory that
the trap removes.

**MCFRImport, MCFRTransport, MCDistributedCleanup, MCPolicyUpdate, MCHubCertificates** give instances their
constants and symmetries. **MCHub** and **MCHost** put programs that share no state into one specification each: a variable `program` says which of
them a behaviour has, and the others stay as they start. MCHub has the parallel jobs, one agent with a module of either library, the
certificates, the accounts and the database wrapper; MCHost the policy update, the CMDB data and the watchdog. Their bounds are constants with the assumptions of
the modules they compose, so what is proved of `HubSpec` and `HostSpec` holds for all values and not for the instance of the run.

**FRImportProofs, FRTransportProofs, DistributedCleanupProofs, PolicyUpdateProofs, CmdbDataProofs, WatchdogProofs** hold the theorems about one
module each; **HostProofs** and **HubProofs** those about the compositions, HubProofs with the invariants of the programs that only MCHub uses.

A definition `Op_Variant` just before `Op` is a form of `Op` with a plausible mistake in it; nothing
uses it but the mutant listed in `PROJECT.json`, which shows that the property would notice the mistake.

## 3. Runs

| Run | Instance | What it shows |
|---|---|---|
| `import` | 2 feeders, 2 dumps each, valid or refused by the database; xargs; 1 failing command (any psql, mv, rm, the compressor), 1 kill, 1 edit of `__hubs` | `ViewPromise`: implements FeederTables. `ViewComplete`: what is attached is a complete dump, except the empty schema of a feeder whose own job failed without a `.failed` file. `ImportedRowsKept`, `InvalidSkipped`: another feeder's failure costs nothing unless the run was cut short. `NothingLeftBehind`: leftovers come only from runs cut short or from the failing clean-up of that feeder. `FileTaken`: no file blocks. `ImportInv`: the inductive invariant of the proofs |
| `import_duplicates` | 3 feeders, 1 dump; GNU parallel, duplicates handled; 1 failing command, 1 edit of `__hubs`, no kill | `PreviousKept`: a failing import leaves the data in use, also when the list has become one broken job |
| `import_stuck` | 3 feeders, 1 dump, GNU parallel, 1 edit of `__hubs`, no fault | **violated** `FileTaken`, section 6 |
| `import_duplicates_block` | 2 feeders, 1 dump, duplicates handled, no faults | **violated** `InvalidSkipped`, section 6 |
| `import_corrupt` | 2 feeders, a corrupt file, no other faults | **violated** `ViewComplete`, section 6 |
| `transport` | 1 feeder pulled from and 1 that pushes with arguments of one word, 1 superhub, 2 pull pids, 1 job pid, 2 dumps, 1 fault, 1 kill | `InOrder` in spite of leftovers; `NoResidue`; `KeepsUp` |
| `transport_superhubs` | 1 feeder, 2 superhubs with the same pid and no directory yet, tests that may go unanswered, 2 dumps, 1 fault, 1 kill | `TypeOK`; `OwnWip`: two jobs never share a working directory; `NothingLost`: unless a command fails, the last dump stays in some directory until it is handed over |
| `cleanup` | 1 host, 2 feeders, 2 reports, 2 moves, 2 setups, 2 faults (requests, SQL, second factors, kills) | `OnlyWhereLeft`, `SecretFits`, `LastRowKept`, `CleanedUp` |
| `host` | *policy*: def.json, a policy file, a module, an extra path; hub or host; 2 edits, 1 failing transfer, 1 kill. *CMDB*: 2 hosts, 3 seconds, 2 changes each, 2 faults. *watchdog*: 2 pids, 3 daemons, 3 tries, 3 faults, with /proc | `HostTypeOK`. Policy: `StampFits`, `ExtrasFit`, `PurgesOnlyRemoved`, `CatchesUp`. CMDB: `HostFilesFit`, `Arrives`. Watchdog: `OneAtATime`, `DatabasesFree`, `ExecdStays` |
| `policy_rescan` | the policy update, 1 edit, no kill | **violated** `StampFitsModules`, section 6 |
| `hub` | *parallel*: 5 lines, 2 slots, statuses 0 and 1. *modules*: 2 promisers, 3 attributes (Python: required int, true/false, undeclared) and 3 kinds of values; checked by the library (`Automatic`); shell: one required, one unknown, one value of two that bash reads as nothing. *certificates*: 2 feeders, 4 points in time, 1 edit, 2 faults. *accounts*: 2 feeders, 3 setups, 3 faults. *psql*: 10 attempts, 11 faults | `HubTypeOK`. `AtMostSlots`, `AllDone`; `ReturnAlmostRight`: the loop overlooks one failure at most. `Promised`: both libraries implement PromiseProtocol; `ValidMeansReadable`, `RequiredPresentOrStale`: what "valid" means; `OwnClasses`: no class leaks. `Ends`: the loop returns and a Python module ends with its agent. `CertsSpread`. `Implements`: accounts implement the cleanup. `Report` |
| `hub_certs` | certificates of 2 feeders | **violated** `BundleComplete`, section 6 |

### Why the bounds are enough

- *Import.* Feeders share only the script's control: its lists, `failed` and the exit
  statuses. Two feeders show what one does to another; three show a list of which one part is
  skipped, one fails and one succeeds. Two dumps are one in use and one that replaces it, with a
  kill in between. One failing command meets a kill, an invalid file of the other feeder and two dumps; what two of them do was checked by hand with one dump, and the proofs need no bound.
- *Transport.* Two dumps are an old one left over and a new one; two pids are one that is reused and one that is not.
  One job pid for all superhubs is the worst case for names; two superhubs are the ones that can meet on one feeder.
- *Cleanup.* The statements about one host do not mention another: hosts share only the feeder that
  is being processed. Two feeders are where the host was and is; two moves bring it back. Two setups are an old password and a new one.
- *Policy.* One file of each sort the code tells apart: augments, matching the patterns, under modules/,
  extra. Two edits are one before and one during a run. The safety properties were also checked by hand with three edits (7.1 million states).
- *CMDB.* Two hosts: one file may be written and the other not. Two changes can be in one second or in two, before, during and after a request. Two faults are
  a failed write and a kill or a lost state file; the theorem needs no bound.
- *Watchdog.* Two pids are the one in the pid file and another; both come again. Three of the script's ten tries (`Tries`) are a first, a middle and a last one;
  three faults kill a watchdog, reuse its pid and break the next. Daemons differ only in cf-execd, which is looked for.
- *Certificates.* Two feeders are one done and one still to do when the script is killed; four points in time are two certificates, a renewal and the making of `hubs.cert`.
- *Accounts.* Two feeders: one set up when the script ends, one not. Three setups of which each may stop, up to three failures that matter; failures before anything changed are free.
- *Database wrapper.* The script's ten attempts, and one fault more than them.
- *Modules.* What one request leaves for the next needs two promisers; a third request finds nothing that a second does not.
- *Loop.* Five lines and two slots: the loop fills its slots twice and has more than one job to wait for after the last line.

Symmetry is used only in runs without liveness properties and over sets that nothing orders or names
(feeders in `import_duplicates`; superhubs and the rest in `transport_superhubs`).

`CHECK_DEADLOCK FALSE` is set in `hub` (the function returns, a module ends, faults are bounded)
and in the transport runs (all dumps delivered and nothing left to do).

### Fairness

| Specification | Fair | Because |
|---|---|---|
| FRImport | `Run` weakly | cf-agent starts import.sh again, and a running script goes on |
| FRTransport | each feeder's and each superhub's scripts weakly | cf-agent starts them every few minutes |
| ParallelRun (in MCHub) | `Next` weakly | jobs end, the shell goes on |
| Modules (in MCHub) | handling weakly | the process runs |
| HubCertificates (in MCHub) | start and script weakly | cf-agent runs the script again and again, and it goes on |
| DistributedCleanup | the script, dump, delivery and import weakly; carrying out a deletion weakly; setting up one feeder strongly | cf-agent runs all of them again and again; a feeder does what it has accepted; an administrator sets up a feeder the script cannot log in to, at some moment when no run is in progress, hence strongly |
| PolicyUpdate (in MCHost) | agent steps and validation weakly | cf-execd; the hub's agent validates what has changed |
| CmdbData (in MCHost) | the hub's bundle and each host's copy weakly | cf-execd |
| Watchdog (in MCHost) | a start and the steps of each process weakly | cron, and the script goes on |

HubAccounts and PsqlWrapper are checked for safety only and need none.

Faults, kills, edits, moves and reports are never fair: they need not happen. The liveness properties
say what holds once they stop (their number is bounded), or exclude runs with faults where one
fault loses a dump by design (`KeepsUp`: the next dump replaces it).

## 4. Assumptions about what is not in the repository

- *Database functions* (`ensure_feeder_schema`, `drop_feeder_schema`, `attach_feeder_schema`, ...): from their use in
  import.sh. The first leaves an empty schema, the second none; the third makes it the feeder's data or, when it fails, removes it (comment at
  import.sh:156). One psql command is one transaction, with the exceptions the scripts make themselves.
- *Processes.* A kill ends a script and its jobs. In the import, where `set -e` ends the run at any command that is not guarded, commands that are not modelled as failing (chmod, tail,
  rm of the logs, the text tools) are covered by the same action as a kill, and the commands of a job each by a branch of its own. ssh, rsync and psql fail before or without effect unless
  the script can tell the difference (API deletions and SQL of the cleanup, and the psql commands of the import, may take effect and fail).
- *GNU parallel, xargs*: their splitting of input and their exit statuses, as parallel.sh and import.sh use them.
- *cf-agent*: a promise is kept once per pass and run; one command promise of the same name runs at a time (one import, one
  cleanup); with modules it sends a request only after the reply to the last; what a Python module's own hooks make of attributes is anything when `Automatic` is FALSE, and then `ValidMeansReadable` says nothing; it purges after
  copying, whether or not transfers failed.
- *API of the hubs.* Any request may be refused, fail, get lost or be carried out and answered with something else. Roles and rights decide nothing later in the
  script; a second factor may be asked for, with the right password too, and may be missing or wrong, without effect on the account.
- *`get_cmdb.php`* answers with all changes from the second it is given on, that second included.
- *Clocks.* The hubs' clocks agree: rsync keeps a file's time, and certificates are compared by it.
- *cron* starts watchdogs far enough apart that one has written the pid file before the next looks (`Overlaps = FALSE`); `/proc` tells whether a
  process is younger than the file. Where there is no `/proc` (`HasProc = FALSE`) the theorems hold too; `ExecdStays` does not, because a
  process that has got the pid keeps all watchdogs away.
- *Policy server.* A host without def.json has no extra paths (`ListedIn[0] = {}`). Listing the tree is one step; each file is read in a step of its own. A removed file does
  not come back under the same name. Validation is one step. After a kill nothing is assumed of the run.
- *Cleanup.* Reports of one host have increasing times. Per feeder one dump is taken and one has arrived at a time, in order.

## 5. What is proved

TLAPS proves these for all values of the constants: any number of feeders, files, jobs, dumps, faults and kills. Every safety property of a
passing run is the statement of a theorem, and so are the refinements. Where a hypothesis is needed it is named, with what goes wrong without it.

**Import.** `TypeCorrect`, and with `Backend = "xargs"`: `ImportInvariant`, `ImportRefinesFeederTables` and, when no extractor
fails half way, `ViewIsComplete`. FeederTables alone is not inductive: attaching is safe only because a schema without a
`.failed` file holds the dump last imported, or nothing when its job failed. The inductive invariant `ImportInv` therefore has the order of dumps along
the directories (`DumpsInOrder`: nothing older is ever behind something newer), that a job has the file
it was started on (`JobsHaveFiles`), that a failed job has a `.failed` file unless a command failed, in which case its dump is still there (`FailuresShow`), and that job states,
`.failed` files and schemas agree for every feeder
the run has still to deal with (`JobsTellTheTruth`). The refinement maps `attached[f].ver` to `view`, `lastImport` to `imported` and the feeders with a failed job but no
`.failed` file to `lost`: `Arrive` is `Publish` or a stutter, `JobCommit` is `Import`, attaching is `Refresh`, or `Vanish` when the schema is the empty one of a lost feeder, the steps at
which a feeder gets or stops being lost are `Lose`, everything else stutters. With GNU parallel the invariant is false (section 6), hence the assumption.

What one feeder costs another is proved without the handling of duplicates: `InvalidCostsOne` (`InvalidSkipped`) for every backend, `LeavesNothing` (`NothingLeftBehind`) and
`RowsAreKept` (`ImportedRowsKept`) for xargs and GNU parallel, because the loop of parallel.sh overlooks one failing job and the run then does not revert it. They speak of runs that were not
cut short (`~cut`): killed, or ended by `set -e` because no `.failed` file is there (import.sh:98) or a log cannot be shown. That is the price of a failing mv, and no property hides it: section 6 has it as
a finding. Their invariant `CleanInv`: a `.failed` file belongs to a feeder
whose job failed (`MarksMeanFailed`), an import schema has rows only where a job of this run has committed them (`Loaded`), where they are about to be reverted (`Reverting`)
or where the feeder's own clean-up failed (`left`) (`RowsMeanLoaded`), each phase
leaves what the next expects (`StagesFit`), and at the end what was imported is attached (`ImportedIsAttached`). With duplicates handled they
are false: one invalid file ends the run between import and attaching (section 6, 1). `FailedKeepsPrevious` (`PreviousKept`) has two cases: duplicates handled and not the loop, where
a run with a failed job attaches nothing, whatever fails or is killed; or xargs and no failing command, where it follows from
`ImportInv`. The cases left out are false: the failing mv of section 6 (import_file.sh:45) and the joined list (import.sh:126).

**Transport.** With any number of superhubs, pids and kills: `TypeCorrect`, `OwnDirectory` (`OwnWip`), `LastDumpStays` (`NothingLost`) and `NothingStays`
(`NoResidue`), whether or not `test -d` is answered. A job at work in a `.transporting` directory made it where there was none, so nobody else has it (`HasWip`).
For the last dump that is not enough: `rm -rf` on the feeder is safe only because the work directory of the pull has the same dump (`Fetched`), a file moved there replaces nothing
(`MovesToEmpty`), a fetched one replaces nothing either, because a pull starts in a directory that was not there and such a directory has nothing (`WorkDirs`), and
a link that `dump.sh` replaces is never newer than the file it links (`NewestAtTop`). For `NoResidue`, a job works in its superhub's directory or at the top
(`OwnPlace`), a dump it found in the former stays there until it is moved, so the move succeeds (`StillThere`), and while nothing has failed every directory is that
of a pull or job at work (`OnlyAtWork`).

`DumpsInOrder` (`InOrder`): what each superhub gets is a FeederView of the dumps taken, step by step. The invariant `OrderInv` says of all that may
still be delivered - the directory a job is about to fetch, what a pull has fetched, what is being pushed - that it is not older than what was delivered and not
newer than the file that waits on the feeder. Leftovers of killed scripts do not count: they are never fetched, because `mkdir` fails on them. The hypotheses are those of section
6: `test -d` is answered, and each superhub has its directory; otherwise a pull takes the dump at the top and leaves an older one for the next.

**Distributed cleanup.** `TypeCorrect`, `SecretOpensSuperhub`, `DeletesOnlyWhereLeft` and `HostsStayKnown`, from the assumptions that `HubList` is a
list of exactly the feeders and that the superhub is none of them. The invariant (`RowsTell`) says of every copy of a row - on the feeder, in a dump,
arrived, on the superhub - that there is none where the host never was, that under a feeder it never left all are newer than its last move, and that then those
elsewhere are not. So a candidate, which is newer elsewhere, has left. Rows in transit are in the invariant because the script reads tables that
are older than the feeders it deletes from. `HostsStayKnown` (`LastRowKept`) adds `KeepInv`, for hosts that never moved back: the rows of two
feeders are apart in time (`Apart`), and a row that is about to go - in the script's list, deleted on the feeder but still shown, or deleted from one table of the superhub and not the
other (`Doomed`) - is older, in every copy on its way, than one shown under another feeder (`Later`).

**Accounts.** `RequestsImplementCleanup` (`Implements`): HubAccounts, which sends one API request after the other, implements DistributedCleanup, where the setup of
a hub is one step. `Place` says for each point of the script which hub, which password and which reason belong to it, `OldPasswords` that accounts only have
passwords that were chosen, and `FileFits` that the password in the file is the superhub's, without which the status request that follows the setup of a feeder would not be the
start of a run. Lemma by lemma each request is shown to be the abstract step that `Shown` names, or a stutter: a setup takes effect when the request that sets the password does,
and refused or lost requests are the abstract step's failure. A run counts from the first request that only a run makes (`Started`).

**Module libraries.** `LibrariesKeepToProtocol` (`Promised`): every behaviour of a module of either library is one of PromiseProtocol, for any
attributes, values and promisers, agents that die and modules that stop included. `ValidIsReadable`, `ClassesOfThePromise` and
`RequiredIsThere` say what a reply means. A reply is sent in one step and read in another, so the
invariants (`PyReplies`, `ShReplies`) keep what it was computed from; that of the shell library also says where each shell variable may come
from (`ShellFrom`): this request, or an earlier one of the same process.

**Parallel jobs.** `SlotsBoundJobs`, and, when no job exits 127, `ReturnsWhenAllDone` and
`OneFailureOverlooked`. The invariant `LoopInv` counts: jobs not waited for plus free slots never exceed
the slots; and while `failure` is unset, at most the job waited for by the first `wait -n` after the loop has failed.

**Database wrapper.** `ReportsTrue` (the statement of `Report`), for any number of attempts: an answer that has arrived fits the database until the wrapper ends.

**Policy update.** `TypeCorrect`, `StampVouches`, `NothingElsePurged` and `ListedPathsCopied`. A stamp is copied before the names and files it vouches for are read,
and masterfiles only moves on from what was validated (`MovesOn`); so what is read later is good enough, and what
could not be read sets `update_inputs_not_kept`, which takes the stamp away. The invariant follows that through the phases of a run
(`NamesInv`, `CopiedInv`, `FitInv`). A run that was killed is excluded: `interrupted`. `NothingElsePurged` (`PurgesOnlyRemoved`) rests on
`PurgeInv`: nothing in inputs is newer than in masterfiles, and a file that the listing of its directory lacks was removed or is not in inputs.
`ListedPathsCopied` (`ExtrasFit`) rests on `ExtrasInv`: the list of a run comes from a def.json at least as new as the stamp's, be it the one it began with, the copied one or the one
a later pass finds (`PathsKnown`), and each path on it is still to be copied or has been (`PathsBrought`). Its hypothesis is `NotPutBack`, section 6.

**CMDB data.** `FilesVouchedFor`, the statement of `HostFilesFit` without bounds: what a run has still to write, the files and the time fit together at every
promise, so a kill between any two is harmless.

**Watchdog.** `OneWatchdog` and `NothingBroken` (the statements of `OneAtATime` and `DatabasesFree`), for any pids and daemons, with and without `/proc`. The watchdog at work is the one that wrote the pid file, no process
with its pid starts while it lives (`Holds`), and who is about to claim the file has seen that nobody works (`ClaimsFree`). While it works alone, the daemons that
run are those on its list and not yet killed (`Lists`).

**Compositions.** `TypesOfAll`, `FilesOfHostsFit`, `WatchdogAlone` and `PurgedUnderNoDaemon` are the last two and the types for `HostSpec`; `TypesOnHub` the types for `HubSpec`, those of the certificates
included. A composition takes a step of one program and leaves the others alone (`HubSteps`), so its invariant is the conjunction of theirs.

Only model-checked: liveness, because fairness and `ENABLED` are out of the prover's reach (`FileTaken`, `KeepsUp`, `CleanedUp`, `CatchesUp`, `Arrives`,
`ExecdStays`, `Ends`, `CertsSpread`), and the properties of the violated runs. TLC also checks the theorems with hypotheses on an
instance that satisfies these.

## 6. Where code and documents disagree

With a run that shows it:

1. `import_duplicates_block`: with duplicate handling on, one invalid file ends the run before any
   schema is attached (import.sh:113 tests a `failed` that import jobs set). CHANGELOG.md:381: invalid dumps are skipped.
2. `import_stuck`: after a skip the list of files is one line (import.sh:58), which GNU parallel and the loop make one job for a file that does not exist.
   The skipped file stays, so no other file is imported as long as it lies there; import.sh:57 speaks of skipping that file.
3. `import_corrupt`: an extractor that fails half way does not stop the transaction (import_file.sh:54):
   part of a dump is committed and attached.
4. `policy_rescan`: when copying a module fails the stamp stays (update_policy.cf:307-314), against the comment at 333-335 there.
5. `hub_certs`: a certificate made before `hubs.cert` was built and fetched after it is older than `hubs.cert`, so it is never joined
   (transfer_distributed_cleanup_items.sh:39, rsync -a), against the comment at lines 37-38. `CertsSpread` exempts such certificates (`Overtaken`).

Met while modelling, without a run of their own:

- import_file.sh:45: a failing mv ends the job before the lines that make a `.failed` file. When another feeder's job has made one, the revert loop passes by and the empty schema
  of this feeder is attached: its rows are gone until its next dump, against the comment at import.sh:101 ("the original/in-use/previous schema is left intact"). To see it, check
  `PreviousKept` with the constants of `import.cfg`. A failing mv at import_file.sh:65 does the same when the pipeline failed before the COMMIT.
- import.sh:97-98: when no `.failed` file is there the glob stays as it is, decompressing its log fails, and `set -e` with pipefail ends the run: what the other feeders have imported stays in
  their import schemas, and is emptied there when their next dumps are set up. A log that was cut off when a run was killed stops the loop in the same way, as long as its `.failed` file lies there.
- import_file.sh:61: the pipeline can fail after the COMMIT (pipefail: the compressor). The rows are dropped as those of a failed file while `last_import_ts` says that they are in.
- import_file.sh:61-66: `set -e` does not apply inside the list, so a failing rm is followed by exit 0 and leaves the `.importing` file for good.
- transport.sh:50: the arguments of the transporter are quoted, so rsync takes the several words of the default (config.sh.mustache) as one option and every push fails; line 52 then removes the dump.
  `OneWord` is FALSE for that; `transport` has a single word, without which `KeepsUp` fails for feeders that push.
- distributed_cleanup.py:444: the output is searched for "ERROR", but a psql that cannot connect says `psql: error`, and one whose connection breaks `connection to server was lost`. The script goes on as
  if the rows were deleted; the next run finds them again.
- cfengine.sh:67: in `IFS='$\n'` there is no newline but the characters `$`, `\` and `n`. bash drops one of them from the end of a line that has no other one (`/a/run` becomes `/a/ru`), and nothing is left of
  the value `n`, so a required attribute with it is found missing. `RequiredPresentOrStale` does not say that a complete request is valid.
- parallel.sh:82: the status of the first job waited for after the loop is never looked at, so one failure may be lost; parallel.sh:102
  says 0 is returned only if all runs exited with 0. `ReturnAlmostRight` is what does hold, and is proved.
- parallel.sh:84: a job that exits 127 ends the waiting, and jobs are still running when the function returns. The theorems exclude it.
- cfengine.sh:24: `reset_state` finds no unexported variable, so attributes of earlier promises of the same process count for later ones: a request without a required attribute can be
  found valid. `RequiredPresentOrStale` is what does hold.
- watchdog.mustache: a `Pathology #5`, cf-check's report of damaged databases, is in the list of the watchdog's README (line 76), but what cf-check says (watchdog.mustache:235-243) never increments `PATHOLOGY_COUNT`.
- watchdog.mustache:5-12: the trap removes the directory and does not exit. The watchdog goes on without a process list, kills nothing, and purges databases of running daemons; `DatabasesFree` exempts signals.
- watchdog.mustache:52-62: two watchdogs that look at the pid file together both go on.
- update_policy.cf:471-495: a host's file that cannot be written is not asked for again until that host's data change; `HostFilesFit` and `Arrives` leave it out.
- import.sh:126: with GNU parallel, a `.failed` file left by a killed run and such a joined list, only the schema of that file is reverted,
  and the empty schemas of the files that were never read are attached: `ViewComplete` and `PreviousKept` fail for `Backend = "parallel"`, `Repeats = TRUE`.
- dump.sh:77: a superhub that falls back to the top directory may move the dump away between two `ln -f`; dump.sh
  ends there and later superhubs miss that dump.
- pull_dumps_from.sh:37: an ssh that fails is taken for a missing directory. The fallback takes the newer dump from the top and leaves the older one for
  the next pull: `InOrder` fails for `DirTestAnswered = FALSE`. The same can happen once, with the first dump, before a superhub's directory exists; `transport` starts after that.
- distributed_cleanup.py:355: the decision rests on imported tables. A host that moves back to a feeder while the superhub
  still shows it elsewhere can be deleted where it is now; `LastRowKept` excludes hosts that came back, `OnlyWhereLeft` does not say where they are.
- update_policy.cf:269-303: a host that saw a new stamp copies whatever masterfiles holds then, validated or not. MPF.md:351 calls the stamp a safety mechanism.
- update_policy.cf:270: an agent killed between the stamp and the files does not scan again for that stamp (`CatchesUp` excludes it).
- update_policy.cf:226-242: when copying def.json fails but the recursive copy brings it, its extra paths are not copied until the next change; and
  the list is that of the def.json the run began with, unless `def_json_updated` sends it back. So `ExtrasFit` fails when a path is taken off the list
and put back (one version of def.json without it between two with it): the run starts with the list that lacks it and brings the def.json that has it. The
instance of `host` has no such list, and the theorem excludes it (`NotPutBack`).

## 7. What is not modelled, and why

- *Data and wording*: contents of dumps, SQL, log messages, filters, permissions, ownership. No property is about them.
- *`federation.cf`* apart from the scripts it runs: configuration classes, packages, ssh keys and roles are independent convergent promises.
- *In `update_policy.cf`*: `policy_server.dat`, the python symlink, permissions and the choice of a user's own update bundle. `modules_presence` is planned (step 6).
- *In the cleanup*: command line, log level; roles and rights are requests of HubAccounts that change no state of it. Credentials are a number that fits or does not.
- *In the watchdog*: the archives and reports it collects, how it is installed into cron, and the variants for cron.d and Windows (this is the script for AIX). Its symptoms are one free choice.
- *In the CMDB data*: the content of a host's data, and the client library that reads it.
- *In the module libraries*: logging, the record file, defaults of attributes; what an author's functions do is a free choice.
- *Package modules* translate one request to one command line: text conversion, for tests rather than for a model checker.
- *Standard library, inventory, controls*: parameterised bodies, variables and classes computed anew in each run. No state of their own.
- *HA, hub maintenance, VCS workflow*: copies of keys and settings; the programs that hold state are outside the repository.
- *Tests, build, CI*: no part of the running system.

## 8. Plan

Order: what moves users' data first, then what distributes policy, then what runs on one host.

| Step | Modules | Questions | State |
|---|---|---|---|
| 1 | FeederTables, FRImport, ParallelRun | does a feeder's data survive failures and kills | built, proved |
| 2 | FeederView, FRTransport | do dumps arrive, in order, once | built, proved |
| 3 | PromiseProtocol, PromiseModulePy, PromiseModuleSh | does a module answer what it was asked | built, proved |
| 4 | DistributedCleanup | is a host deleted only where it left | built, proved |
| 5 | PolicyUpdate | does the stamp tell the truth | built, proved |
| 6 | CmdbData: hub and host | is every change handed on | built, proved |
| 7 | Watchdog | one at a time, databases purged when nothing runs | built, proved; `ExecdStays` rests on fairness and stays with TLC |
| 8 | HubCertificates, PsqlWrapper, HubAccounts | every hub ends with every certificate; a retried statement is reported truly; setup is one step | built; PsqlWrapper and the refinement of HubAccounts proved, of HubCertificates the types |
| 9 | ModulesPresence, on top of PolicyUpdate's inputs | are the modules in moduledir those of inputs, and vendored ones overridden | to be built: 3 module files, 1 failing copy |
| 10 | SelfUpgrade, Daemons | no run of the agent is lost to its own upgrade; units as wanted | to be built: 2 versions, 1 failing download |
| 11 | composition of FRTransport and FRImport through the drop directory | FeederTables end to end, without assuming `Arrive` | to be built: 1 feeder, 2 dumps |

Theorems worth proving next, in order: what `hubs.cert` holds at every step of HubCertificates (every certificate in it was fetched, and is older than the file
or lost with `Overtaken`); the import with duplicates handled under xargs, for the properties that are proved without it; the
transport and the import composed, where `InOrder` takes the place of `Arrive`; and the modules of steps 9 and 10 with their invariants.
