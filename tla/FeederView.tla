----------------------------- MODULE FeederView -----------------------------
(***************************************************************************)
(* What the transport promises to the import: a superhub sees the dumps of *)
(* a feeder in the order in which they were taken, some of them never, and *)
(* none after a later one.  Dumps of a feeder are numbered in that order;  *)
(* 0 stands for "none".                                                    *)
(***************************************************************************)
EXTENDS Naturals

CONSTANT Feeders    \* the feeder hubs

VARIABLES
  made,             \* made[f]: number of the last dump that was taken
  view              \* view[f]: number of the last dump that was delivered

vars == <<made, view>>

Init == /\ made = [f \in Feeders |-> 0]
        /\ view = [f \in Feeders |-> 0]

(* The feeder takes one more dump. *)
Publish(f) == /\ made' = [made EXCEPT ![f] = @ + 1]
              /\ UNCHANGED view

(* A later dump is delivered; dumps in between may be missed. *)
Refresh(f) == \E v \in (view[f] + 1) .. made[f] :
                /\ view' = [view EXCEPT ![f] = v]
                /\ UNCHANGED made

Next == \E f \in Feeders : Publish(f) \/ Refresh(f)

Spec == Init /\ [][Next]_vars
=============================================================================
