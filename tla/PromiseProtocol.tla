-------------------------- MODULE PromiseProtocol --------------------------
(***************************************************************************)
(* What cf-agent may count on from a custom promise module, whatever       *)
(* library it is built with: one reply at most to each request, about that *)
(* request, with a result that fits it, and nothing after a reply to       *)
(* "terminate".                                                            *)
(***************************************************************************)
EXTENDS FiniteSets

CONSTANTS
  Requests,       \* records with at least the field op
  NoRequest

VARIABLES
  asked,          \* the request of cf-agent that is or was handled last
  reply,          \* the reply to it: operation and result, or NoReply
  ended           \* has the module's process ended

vars == <<asked, reply, ended>>

NoReply == [op |-> "none", result |-> "none"]

Results(op) ==
  CASE op = "validate_promise" -> {"valid", "invalid", "error"}
    [] op = "evaluate_promise" -> {"kept", "repaired", "not_kept", "error"}
    [] op \in {"init", "terminate"} -> {"success", "failure", "error"}
    [] OTHER -> {"error"}

Init == asked = NoRequest /\ reply = NoReply /\ ended = FALSE

Waiting == asked # NoRequest /\ reply = NoReply

Ask == /\ ~ended /\ ~Waiting
       /\ asked' \in Requests /\ reply' = NoReply
       /\ UNCHANGED ended

(* "terminate" is the last request that is answered. *)
Answer == /\ ~ended /\ Waiting
          /\ reply' \in [op : {asked.op}, result : Results(asked.op)]
          /\ ended' = (asked.op = "terminate")
          /\ UNCHANGED asked

(* A module may also end without an answer. *)
Die == ~ended /\ ended' = TRUE /\ UNCHANGED <<asked, reply>>

Next == Ask \/ Answer \/ Die

Spec == Init /\ [][Next]_vars
=============================================================================
