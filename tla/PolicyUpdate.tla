---------------------------- MODULE PolicyUpdate ----------------------------
(***************************************************************************)
(* Bundle cfe_internal_update_policy_cpv of                                *)
(* cfe_internal/update/update_policy.cf: an agent run copies masterfiles   *)
(* of the policy server to its inputs directory, file by file, while the   *)
(* server's files may change, transfers may fail and the agent may be      *)
(* killed.  A host other than the hub scans the server's files only when   *)
(* the validation stamp (cf_promises_validated) it copied first has        *)
(* changed.  A promise of a bundle is kept at most once in a run; what     *)
(* only a later pass finds (the extra paths of a new def.json) is a step   *)
(* of its own at the end of the run.                                       *)
(*                                                                         *)
(* A file is the number of its version on the server, 0 where there is     *)
(* none.                                                                   *)
(***************************************************************************)
EXTENDS Integers, Sequences, FiniteSets

CONSTANTS
    Files,      \* the files of masterfiles, but for the stamp
    Matching,   \* those whose names match input_name_patterns
    InModules,  \* those under modules/
    DefJson,    \* the augments file def.json, one of Matching
    New,        \* files that masterfiles does not have at first
    ListedIn,   \* ListedIn[v]: input_paths_extra of version v of def.json
    MaxEdits,   \* bound on the changes of masterfiles
    MaxFaults,  \* bound on the transfers that fail
    MaxKills    \* bound on the agent runs that are killed

Versions == 0 .. MaxEdits + 1

ASSUME FilesAssumption ==
    /\ Matching \subseteq Files /\ InModules \subseteq Files
    /\ DefJson \in Matching /\ New \subseteq Files
(* Without a def.json there are no extra paths (update_def.cf.in:96-103).  *)
ASSUME ListedAssumption ==
    ListedIn \in [Versions -> SUBSET Files] /\ ListedIn[0] = {}
ASSUME BoundsAssumption ==
    MaxEdits \in Nat /\ MaxFaults \in Nat /\ MaxKills \in Nat

VARIABLES
    \* policy server
    master,     \* version of each file of masterfiles
    removed,    \* files that were taken out of masterfiles
    validated,  \* what masterfiles was when each stamp was written
    \* host
    hub,        \* class am_policy_hub
    disabled,   \* class cfengine_internal_disable_cf_promises_validated
    inputs,     \* version of each file in inputs
    stamp,      \* inputs/cf_promises_validated
    \* agent run
    pc,
    ready,      \* class am_policy_hub|validated_updates_ready
    extras,     \* input_paths_extra as the run found it when it started
    defUpdated, \* class def_json_updated
    notKept,    \* class update_inputs_not_kept
    listed,     \* the directory's names on the server have been read
    names,      \* ... and which they are
    todo,       \* files that the promise has still to look at
    \* history and bounds
    interrupted, \* stamps that a host held when its copying was killed
    edits, faults, kills

serverVars == <<master, removed, validated, edits>>
hostVars == <<inputs, stamp>>
classVars == <<ready, extras, defUpdated, notKept>>
scanVars == <<listed, names, todo>>
vars == <<serverVars, hub, disabled, hostVars, pc, classVars, scanVars,
          interrupted, faults, kills>>

NoStamp == 0
Stamp == Len(validated)
Snapshot == [ver |-> master, gone |-> removed]
There(f) == master[f] > 0 /\ f \notin removed
Dirs == {"inputs", "modules"}

Init ==
    /\ master = [f \in Files |-> IF f \in New THEN 0 ELSE 1]
    /\ removed = {}
    /\ validated = << Snapshot >>
    /\ hub \in BOOLEAN /\ disabled \in BOOLEAN
    /\ inputs = master
    /\ stamp \in IF hub THEN {NoStamp} ELSE {NoStamp, Stamp}
    /\ pc = "idle"
    /\ ready = FALSE /\ extras = {} /\ defUpdated = FALSE /\ notKept = FALSE
    /\ listed = FALSE /\ names = {} /\ todo = {}
    /\ interrupted = {} /\ edits = 0 /\ faults = 0 /\ kills = 0

-----------------------------------------------------------------------------
(* The policy server: administrators change masterfiles, and the hub's     *)
(* agent writes a new stamp when it finds that what has changed is valid.  *)

Edit ==
    /\ edits < MaxEdits
    /\ edits' = edits + 1

Untouched == UNCHANGED <<hub, disabled, hostVars, pc, classVars, scanVars,
                         interrupted, faults, kills>>

Publish(f) ==
    /\ Edit
    /\ f \notin removed
    /\ master' = [master EXCEPT ![f] = @ + 1]
    /\ UNCHANGED <<removed, validated>> /\ Untouched

Remove(f) ==
    /\ Edit
    /\ There(f)
    /\ removed' = removed \cup {f}
    /\ UNCHANGED <<master, validated>> /\ Untouched

Validate ==
    /\ Snapshot # validated[Stamp]
    /\ validated' = Append(validated, Snapshot)
    /\ UNCHANGED <<master, removed, edits>> /\ Untouched

-----------------------------------------------------------------------------
(* One transfer of a file: it arrives as it is on the server, or not.      *)

Failure ==
    /\ faults < MaxFaults
    /\ faults' = faults + 1

Fetched(f) ==
    /\ There(f)
    /\ inputs' = [inputs EXCEPT ![f] = master[f]]
    /\ UNCHANGED faults

NotFetched(f) ==
    /\ Failure \/ (~There(f) /\ UNCHANGED faults)
    /\ UNCHANGED inputs

Running == UNCHANGED <<serverVars, hub, disabled, interrupted, kills>>

-----------------------------------------------------------------------------
(* The promises of the bundle, in their order.                             *)

(* A run starts with the augments of the inputs it finds; the hub has no   *)
(* use for a stamp.                                                        *)
Start ==
    /\ pc = "idle"
    /\ pc' = IF hub THEN "inputs" ELSE "stamp"
    /\ ready' = (hub \/ disabled)
    /\ extras' = ListedIn[inputs[DefJson]]
    /\ defUpdated' = FALSE /\ notKept' = FALSE
    /\ listed' = FALSE /\ names' = {} /\ todo' = {}
    /\ UNCHANGED <<hostVars, faults>> /\ Running

AfterStamp == IF ready' THEN "def" ELSE "idle"

CopyStamp ==
    /\ pc = "stamp"
    /\ \/ /\ stamp # Stamp
          /\ stamp' = Stamp /\ ready' = TRUE
          /\ UNCHANGED faults
       \/ stamp = Stamp /\ UNCHANGED <<stamp, ready, faults>>
       \/ Failure /\ UNCHANGED <<stamp, ready>>
    /\ pc' = AfterStamp
    /\ UNCHANGED <<inputs, extras, defUpdated, notKept, scanVars>> /\ Running

CopyDef ==
    /\ pc = "def"
    /\ pc' = "inputs"
    /\ \/ Fetched(DefJson) /\ defUpdated' = (inputs'[DefJson] # inputs[DefJson])
       \/ NotFetched(DefJson) /\ UNCHANGED defUpdated
    /\ UNCHANGED <<stamp, ready, extras, notKept, scanVars>> /\ Running

(* The two recursive copies, of inputs and of its modules directory.  Only *)
(* the first one notes in a class that something was not kept.             *)
Selected(dir) == IF dir = "inputs" THEN Matching ELSE InModules
Under(dir) == IF dir = "inputs" THEN Files ELSE InModules
NotKeptIn_Modules(dir) == notKept \/ dir = "modules"
NotKeptIn(dir) == notKept \/ dir = "inputs"

NextDir ==
    /\ pc' = IF pc = "inputs" THEN "modules" ELSE "extras"
    /\ todo' = IF pc = "inputs" THEN {} ELSE extras
    /\ listed' = FALSE /\ names' = {}

ListDir ==
    /\ pc \in Dirs
    /\ ~listed
    /\ listed' = TRUE
    /\ names' = {f \in Under(pc) : There(f)}
    /\ todo' = names' \cap Selected(pc)
    /\ UNCHANGED <<hostVars, pc, classVars, faults>> /\ Running

ListFails ==
    /\ pc \in Dirs
    /\ ~listed
    /\ Failure
    /\ notKept' = NotKeptIn(pc)
    /\ NextDir
    /\ UNCHANGED <<hostVars, ready, extras, defUpdated>> /\ Running

CopyFile(f) ==
    /\ pc \in Dirs
    /\ listed
    /\ f \in todo
    /\ todo' = todo \ {f}
    /\ \/ Fetched(f) /\ UNCHANGED notKept
       \/ NotFetched(f) /\ notKept' = NotKeptIn(pc)
    /\ UNCHANGED <<stamp, pc, ready, extras, defUpdated, listed, names>>
    /\ Running

(* purge => "true": what is in the directory and not among the names goes. *)
Purged_Unselected(dir) == Under(dir) \ (names \cap Selected(dir))
Purged(dir) == Under(dir) \ names

PurgeDir ==
    /\ pc \in Dirs
    /\ listed
    /\ todo = {}
    /\ inputs' = [f \in Files |-> IF f \in Purged(pc) THEN 0 ELSE inputs[f]]
    /\ NextDir
    /\ UNCHANGED <<stamp, classVars, faults>> /\ Running

(* The paths of input_paths_extra, missing_ok and without classes.         *)
CopyExtra(f) ==
    /\ pc \in {"extras", "late_extras"}
    /\ f \in todo
    /\ todo' = todo \ {f}
    /\ Fetched(f) \/ NotFetched(f)
    /\ UNCHANGED <<stamp, pc, classVars, listed, names>> /\ Running

(* What the second pass finds: paths that only the new def.json lists.     *)
LateExtras_None == {}
LateExtras == IF defUpdated THEN ListedIn[inputs[DefJson]] \ extras ELSE {}

StampAfterCopy_Kept == stamp
StampAfterCopy_Previous == IF notKept THEN stamp - 1 ELSE stamp
StampAfterCopy == IF notKept THEN NoStamp ELSE stamp

DeleteStamp ==
    /\ pc = "extras"
    /\ todo = {}
    /\ stamp' = StampAfterCopy
    /\ pc' = "late_extras"
    /\ todo' = LateExtras
    /\ UNCHANGED <<inputs, classVars, listed, names, faults>> /\ Running

End ==
    /\ pc = "late_extras"
    /\ todo = {}
    /\ pc' = "idle"
    /\ UNCHANGED <<hostVars, classVars, scanVars, faults>> /\ Running

(* The agent is killed; the next run knows nothing of this one.            *)
Kill ==
    /\ pc # "idle"
    /\ kills < MaxKills
    /\ kills' = kills + 1
    /\ pc' = "idle"
    /\ interrupted' = IF ready THEN interrupted \cup {stamp} ELSE interrupted
    /\ UNCHANGED <<serverVars, hub, disabled, hostVars, classVars, scanVars,
                   faults>>

-----------------------------------------------------------------------------
Server == Validate \/ \E f \in Files : Publish(f) \/ Remove(f)

Agent ==
    \/ Start \/ CopyStamp \/ CopyDef \/ ListDir \/ ListFails \/ PurgeDir
    \/ DeleteStamp \/ End
    \/ \E f \in Files : CopyFile(f) \/ CopyExtra(f)

Next == Server \/ Agent \/ Kill

Spec == Init /\ [][Next]_vars

(* cf-execd starts the update policy again and again; the hub's agent      *)
(* validates what has changed in masterfiles.                              *)
FairSpec == Spec /\ WF_vars(Agent) /\ WF_vars(Validate)

-----------------------------------------------------------------------------
(* Type invariant: every variable keeps its type.                          *)
TypeOK ==
    /\ master \in [Files -> Versions] /\ removed \subseteq Files
    /\ validated \in Seq([ver : [Files -> Versions], gone : SUBSET Files])
    /\ Stamp >= 1
    /\ hub \in BOOLEAN /\ disabled \in BOOLEAN
    /\ inputs \in [Files -> Versions] /\ stamp \in 0 .. Stamp
    /\ pc \in {"idle", "stamp", "def", "extras", "late_extras"} \cup Dirs
    /\ ready \in BOOLEAN /\ extras \subseteq Files
    /\ defUpdated \in BOOLEAN /\ notKept \in BOOLEAN
    /\ listed \in BOOLEAN /\ names \subseteq Files /\ todo \subseteq Files
    /\ interrupted \subseteq 0 .. Stamp
    /\ edits \in 0 .. MaxEdits /\ faults \in 0 .. MaxFaults
    /\ kills \in 0 .. MaxKills

(* The file is as stamp s validated it, or as it became since.             *)
UpTo(f, s) ==
    \/ f \in removed /\ inputs[f] = 0
    \/ f \notin validated[s].gone /\ inputs[f] >= validated[s].ver[f]

Stamped == pc = "idle" /\ stamp # NoStamp /\ stamp \notin interrupted

(* Between runs, the stamp in inputs vouches for every file that matches   *)
(* the name patterns: no failed transfer, no listing that failed and no    *)
(* change during the copy leaves the stamp beside older files              *)
(* (update_policy.cf:269-303, 330-335).  A killed run may.                 *)
StampFits == Stamped => \A f \in Matching : UpTo(f, stamp)

(* The same for all that the run copies to inputs: what the comment of     *)
(* update_policy.cf:333-335 says ("any problem copying to $(inputs_dir)")  *)
(* and the code does for the first of the three copies only.               *)
StampFitsModules == Stamped => \A f \in Matching \cup InModules : UpTo(f, stamp)

(* Without failing transfers, a path that the def.json of the stamp and    *)
(* the one of inputs both list has been copied, in the very run that       *)
(* brought the def.json that lists it (update_policy.cf:223-242, 316-328), *)
(* as long as no path that was taken off the list is put back on it.       *)
ExtrasFit ==
    Stamped /\ faults = 0 =>
        \A f \in ListedIn[inputs[DefJson]]
                    \cap ListedIn[validated[stamp].ver[DefJson]] :
            UpTo(f, stamp) \/ f \in removed

(* A file of inputs goes away or back to an older version only when it was *)
(* taken out of masterfiles: the purge deletes nothing that the name       *)
(* patterns do not match, that a failed listing does not show or that was  *)
(* added meanwhile (update_policy.cf:298-303, 307-314, 629).               *)
PurgesOnlyRemoved ==
    [][\A f \in Files : inputs'[f] < inputs[f] => f \in removed]_vars

(* When masterfiles has stopped changing, the files that match the name    *)
(* patterns become those of the server and stay so, on the hub and on      *)
(* every host that was not killed while copying for the last stamp.        *)
InputsCurrent ==
    \A f \in Matching : inputs[f] = IF f \in removed THEN 0 ELSE master[f]
CatchesUp ==
    <>[](InputsCurrent \/ (~hub /\ ~disabled /\ Stamp \in interrupted))
=============================================================================
