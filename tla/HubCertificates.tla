--------------------------- MODULE HubCertificates ---------------------------
(***************************************************************************)
(* transfer_distributed_cleanup_items.sh, which the agent on the superhub  *)
(* runs again and again: it pulls the certificate of every feeder, joins   *)
(* all certificates into hubs.cert, which distributed_cleanup.py trusts,   *)
(* and pushes hubs.cert to the feeders.                                    *)
(*                                                                         *)
(* A certificate is the time it was made, 0 when there is none: rsync -a   *)
(* keeps the times of files, and the script goes by them.                  *)
(***************************************************************************)
EXTENDS Naturals

CONSTANTS
  Feeders,
  Superhub,    \* makes a certificate in the same directory; not a feeder
  MaxTime,     \* bound: certificates made and hubs.cert built
  MaxEdits,    \* bound: changes of the list of feeders
  MaxFaults    \* bound: failed transfers and kills

Hubs == Feeders \cup {Superhub}
ConstantsOK == Superhub \notin Feeders /\ {MaxTime, MaxEdits, MaxFaults} \subseteq Nat

VARIABLES
  clock,
  made,         \* made[h]: the certificate of hub h
  attached,     \* the feeders that are pulled from
  copy,         \* copy[h]: the superhub's copy of it
  bundle,       \* hubs.cert: its time, and the certificate of each hub in it
  atFeeder,     \* atFeeder[f]: the hubs.cert that f has
  script,       \* step, the feeders it was given, and those still to do
  edits, faults

vars == <<clock, made, attached, copy, bundle, atFeeder, script, edits, faults>>

Times == 0..MaxTime
Certs == [Hubs -> Times]
Bundles == [time : Times, certs : Certs]
Off == [step |-> "off", given |-> {}, left |-> {}]

TypeOK ==
  /\ clock \in Times /\ made \in Certs /\ copy \in Certs /\ attached \in SUBSET Feeders
  /\ bundle \in Bundles /\ atFeeder \in [Feeders -> Bundles]
  /\ script \in [step : {"off", "pull", "check", "join", "push"}, given : SUBSET Feeders, left : SUBSET Feeders]
  /\ edits \in 0..MaxEdits /\ faults \in 0..MaxFaults

NoCerts == [h \in Hubs |-> 0]
NoBundle == [time |-> 0, certs |-> NoCerts]

Init ==
  /\ clock = 0 /\ made = NoCerts /\ attached = Feeders /\ copy = NoCerts
  /\ bundle = NoBundle /\ atFeeder = [f \in Feeders |-> NoBundle]
  /\ script = Off /\ edits = 0 /\ faults = 0

Tick == clock < MaxTime /\ clock' = clock + 1
Fault == faults < MaxFaults /\ faults' = faults + 1

-----------------------------------------------------------------------------
(* The agent of a hub copies a new certificate into the directory.         *)
MakeCert(h) ==
  /\ clock + 1 < MaxTime /\ Tick
  /\ made' = [made EXCEPT ![h] = clock + 1]
  /\ copy' = IF h = Superhub THEN [copy EXCEPT ![h] = clock + 1] ELSE copy
  /\ UNCHANGED <<attached, bundle, atFeeder, script, edits, faults>>

Attach(f) ==
  /\ edits < MaxEdits /\ edits' = edits + 1
  /\ attached' = IF f \in attached THEN attached \ {f} ELSE attached \cup {f}
  /\ UNCHANGED <<clock, made, copy, bundle, atFeeder, script, faults>>

(* Without a feeder the script does nothing.                               *)
Start ==
  /\ script.step = "off" /\ attached # {}
  /\ script' = [step |-> "pull", given |-> attached, left |-> attached]
  /\ UNCHANGED <<clock, made, attached, copy, bundle, atFeeder, edits, faults>>

Through(f) == [script EXCEPT !.left = @ \ {f}]

(* A failed rsync is logged; that ssh can not ask for the name of the      *)
(* feeder ends the script (set -e).                                        *)
Pull(f) ==
  /\ script.step = "pull" /\ f \in script.left
  /\ \/ /\ made[f] > 0 /\ copy' = [copy EXCEPT ![f] = made[f]]
        /\ script' = Through(f) /\ UNCHANGED faults
     \/ /\ made[f] = 0 /\ script' = Through(f) /\ UNCHANGED <<copy, faults>>
     \/ script' \in {Through(f), Off} /\ Fault /\ UNCHANGED copy
  /\ UNCHANGED <<clock, made, attached, bundle, atFeeder, edits>>

(* ls -t1 *.cert | head -n1 | grep -q hubs.cert                            *)
UpToDate_Exists == bundle.time > 0
UpToDate == bundle.time > 0 /\ \A h \in Hubs : copy[h] <= bundle.time

(* The shell empties hubs.cert before sed joins the others.                *)
Check ==
  /\ script.step = "pull" /\ script.left = {}
  /\ \/ /\ UpToDate /\ script' = [script EXCEPT !.step = "push", !.left = script.given]
        /\ UNCHANGED <<clock, bundle>>
     \/ /\ ~UpToDate /\ Tick
        /\ bundle' = [NoBundle EXCEPT !.time = clock + 1]
        /\ script' = [script EXCEPT !.step = "join"]
  /\ UNCHANGED <<made, attached, copy, atFeeder, edits, faults>>

Join ==
  /\ script.step = "join"
  /\ bundle' = [bundle EXCEPT !.certs = copy]
  /\ script' = [script EXCEPT !.step = "push", !.left = script.given]
  /\ UNCHANGED <<clock, made, attached, copy, atFeeder, edits, faults>>

Push(f) ==
  /\ script.step = "push" /\ f \in script.left
  /\ \/ atFeeder' = [atFeeder EXCEPT ![f] = bundle] /\ UNCHANGED faults
     \/ UNCHANGED atFeeder /\ Fault
  /\ script' = Through(f)
  /\ UNCHANGED <<clock, made, attached, copy, bundle, edits>>

End ==
  /\ script.step = "push" /\ script.left = {} /\ script' = Off
  /\ UNCHANGED <<clock, made, attached, copy, bundle, atFeeder, edits, faults>>

Kill ==
  /\ script.step # "off" /\ script' = Off /\ Fault
  /\ UNCHANGED <<clock, made, attached, copy, bundle, atFeeder, edits>>

Script == (\E f \in Feeders : Pull(f) \/ Push(f)) \/ Check \/ Join \/ End
Next == (\E h \in Hubs : MakeCert(h)) \/ (\E f \in Feeders : Attach(f)) \/ Start \/ Script \/ Kill

Spec == Init /\ [][Next]_vars
FairSpec == Spec /\ WF_vars(Start) /\ WF_vars(Script)

-----------------------------------------------------------------------------
(* Once the script has looked, hubs.cert has the certificates of all the   *)
(* feeders that the superhub has copies of (the comment at lines 37-38).   *)
BundleComplete == script.step = "push" => \A f \in Feeders : bundle.certs[f] = copy[f]

(* hubs.cert was built after the certificate was made, without it: the     *)
(* script will not notice.                                                 *)
Overtaken(h) == made[h] < bundle.time /\ bundle.certs[h] # made[h]

(* Transfers that fail and scripts that are killed, even between emptying  *)
(* and filling hubs.cert, cost an attached feeder nothing else: in the end *)
(* its current certificate is in hubs.cert, and it has that hubs.cert      *)
(* (transfer_distributed_cleanup_items.sh:29-44).                          *)
CertsSpread ==
  <>[]\A f \in attached : /\ bundle.certs[f] = made[f] \/ Overtaken(f)
                          /\ atFeeder[f] = bundle
=============================================================================
