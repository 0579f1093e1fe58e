---------------------------- MODULE FeederTables ----------------------------
(***************************************************************************)
(* What federated reporting promises to the reader of the superhub's       *)
(* tables: the rows shown for a feeder are those of the dump that was last *)
(* imported when they were switched to, and dumps are imported in the      *)
(* order they were taken.  A feeder whose dump the import has lost track   *)
(* of may show nothing until its next dump.  Dumps of a feeder are         *)
(* numbered from 1; 0 stands for "none".                                   *)
(***************************************************************************)
EXTENDS Naturals

CONSTANT Feeders    \* the feeder hubs that report to the superhub

VARIABLES
  made,             \* made[f]: number of the last dump handed to the superhub
  imported,         \* imported[f]: number of the last dump taken into the database
  view,             \* view[f]: number of the dump whose rows the tables hold
  lost              \* feeders whose dump the import has lost track of

vars == <<made, imported, view, lost>>

Init == /\ made = [f \in Feeders |-> 0]
        /\ imported = [f \in Feeders |-> 0]
        /\ view = [f \in Feeders |-> 0]
        /\ lost = {}

(* The feeder hands over one more dump. *)
Publish(f) == /\ made' = [made EXCEPT ![f] = @ + 1]
              /\ UNCHANGED <<imported, view, lost>>

(* A dump is imported; dumps in between may be missed. *)
Import(f) == \E v \in imported[f] .. made[f] :
               /\ imported' = [imported EXCEPT ![f] = v]
               /\ UNCHANGED <<made, view, lost>>

(* The tables switch to the dump last imported. *)
Refresh(f) == /\ imported[f] > 0
              /\ view' = [view EXCEPT ![f] = imported[f]]
              /\ UNCHANGED <<made, imported, lost>>

(* The tables switch to nothing. *)
Vanish(f) == /\ f \in lost
             /\ view' = [view EXCEPT ![f] = 0]
             /\ UNCHANGED <<made, imported, lost>>

Lose == lost' \in SUBSET Feeders /\ UNCHANGED <<made, imported, view>>

Next == Lose \/ \E f \in Feeders : Publish(f) \/ Import(f) \/ Refresh(f) \/ Vanish(f)

Spec == Init /\ [][Next]_vars
=============================================================================
