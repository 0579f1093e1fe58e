----------------------------- MODULE PsqlWrapper -----------------------------
(***************************************************************************)
(* psql_wrapper.sh, with which federation.cf runs superhub_schema and      *)
(* ensure_feeders in every agent run: one statement, tried again while     *)
(* psql loses the server, and an exit code that makes the promise kept     *)
(* (0), repaired (1) or failed (2).                                        *)
(***************************************************************************)
EXTENDS Naturals

CONSTANTS
  MaxAttempts,
  NoCode,
  MaxFaults     \* bound: failed attempts, kills, and changes of the feeders

ConstantsOK == MaxAttempts \in Nat \ {0} /\ MaxFaults \in Nat /\ NoCode \notin Nat

VARIABLES
  ensured,      \* is the database as the statement makes it
  attempt,      \* ATTEMPT, 0 when the wrapper does not run
  psql,         \* RETURN_CODE, NoCode while psql runs
  out,          \* the exit_code that the statement printed
  exit,         \* of the last wrapper that ended
  changed,      \* history: has the statement changed the database in this run
  unheard,      \* history: has a connection broken after the statement took effect
  faults

vars == <<ensured, attempt, psql, out, exit, changed, unheard, faults>>

Codes == {0, 1, 2, NoCode}
TypeOK ==
  /\ ensured \in BOOLEAN /\ changed \in BOOLEAN /\ unheard \in BOOLEAN
  /\ attempt \in 0..MaxAttempts /\ psql \in Codes /\ out \in Codes /\ exit \in Codes
  /\ faults \in 0..MaxFaults

Init ==
  /\ ensured = FALSE /\ attempt = 0 /\ psql = NoCode /\ out = NoCode /\ exit = NoCode
  /\ changed = FALSE /\ unheard = FALSE /\ faults = 0

Fault == faults < MaxFaults /\ faults' = faults + 1

(* A feeder that is added to the configuration.                            *)
Drift ==
  /\ attempt = 0 /\ ensured /\ Fault
  /\ ensured' = FALSE /\ exit' = NoCode
  /\ UNCHANGED <<attempt, psql, out, changed, unheard>>

Start ==
  /\ attempt = 0 /\ attempt' = 1
  /\ psql' = NoCode /\ out' = NoCode /\ exit' = NoCode /\ changed' = FALSE /\ unheard' = FALSE
  /\ UNCHANGED <<ensured, faults>>

(* The statement commits, and its answer says whether it changed anything. *)
Takes == ensured' = TRUE /\ changed' = (changed \/ ~ensured)

(* psql ends with 1 when the statement or su fails, with 2 without a       *)
(* connection: one that never was, or one that broke before or after the   *)
(* statement took effect.                                                  *)
Psql ==
  /\ attempt > 0 /\ psql = NoCode
  /\ \/ Takes /\ psql' = 0 /\ out' = (IF ensured THEN 0 ELSE 1) /\ UNCHANGED <<unheard, faults>>
     \/ Takes /\ psql' = 2 /\ out' = NoCode /\ unheard' = TRUE /\ Fault
     \/ psql' \in {1, 2} /\ out' = NoCode /\ Fault /\ UNCHANGED <<ensured, changed, unheard>>
  /\ UNCHANGED <<attempt, exit>>

Again == psql = 2 /\ attempt < MaxAttempts

Retry ==
  /\ attempt > 0 /\ Again
  /\ attempt' = attempt + 1 /\ psql' = NoCode
  /\ UNCHANGED <<ensured, out, exit, changed, unheard, faults>>

(* Any other code than 0 means that there is no answer to pass on.         *)
ExitCode_Answer == IF out = NoCode THEN 0 ELSE out
ExitCode == IF psql # 0 THEN 2 ELSE out

End ==
  /\ attempt > 0 /\ psql # NoCode /\ ~Again
  /\ exit' = ExitCode /\ attempt' = 0 /\ psql' = NoCode /\ out' = NoCode
  /\ UNCHANGED <<ensured, changed, unheard, faults>>

Kill ==
  /\ attempt > 0 /\ Fault
  /\ attempt' = 0 /\ psql' = NoCode /\ out' = NoCode
  /\ UNCHANGED <<ensured, exit, changed, unheard>>

Next == Start \/ Psql \/ Retry \/ End \/ Drift \/ Kill

Spec == Init /\ [][Next]_vars

-----------------------------------------------------------------------------
(* What the promise reports is true, whatever attempts came before: kept   *)
(* and repaired mean that the statement holds, repaired that this run      *)
(* changed the database, and kept that it did not, unless the answer of    *)
(* the attempt that did was lost (psql_wrapper.sh.mustache:18-45).         *)
Report ==
  /\ exit \in {0, 1} => ensured
  /\ exit = 1 => changed
  /\ exit = 0 /\ changed => unheard
=============================================================================
