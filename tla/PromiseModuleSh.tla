-------------------------- MODULE PromiseModuleSh --------------------------
(***************************************************************************)
(* A custom promise module built with the shell library cfengine.sh: the   *)
(* loop that reads a request, performs it and writes the response, and the *)
(* shell variables that live on from one request to the next.              *)
(*                                                                         *)
(* The attributes of a request are a function from their names to values;  *)
(* the empty value can be sent too.  A value stands for what is left of it *)
(* when bash has read it, and that can be nothing.  do_validate,           *)
(* do_evaluate and the lists of attributes are the module author's.        *)
(***************************************************************************)
EXTENDS FiniteSets

CONSTANTS
  Names, Values,      \* attribute names, and values other than Empty
  Empty,
  Swallowed,          \* values of which reading leaves nothing: "n", "$", "=" and a backslash
  Promisers,
  Required, Optional, \* required_attributes and optional_attributes
  AllValid,           \* all_attributes_are_valid = "yes"
  NoRequest

VARIABLES
  agentUp,      \* does cf-agent hold the other ends of the pipes
  asked,        \* the request read last
  reply,        \* the response to it
  shell,        \* the request_attribute_* variables, Empty when not set
  classes,      \* response_classes
  ended,        \* has the process ended
  earlier       \* history: attributes that were in an earlier request

vars == <<agentUp, asked, reply, shell, classes, ended, earlier>>

Operations == {"init", "validate_promise", "evaluate_promise", "terminate"}

Attributes == UNION {[S -> Values \cup {Empty}] : S \in SUBSET Names}
Requests == [op : Operations, promiser : Promisers, attrs : Attributes]

ConstantsOK ==
  /\ Required \cup Optional \subseteq Names /\ Empty \notin Values /\ Swallowed \subseteq Values
  /\ AllValid \in BOOLEAN /\ "none" \notin Promisers /\ NoRequest \notin Requests

(* Classes stand for the promiser whose evaluation has set them.           *)
NoClasses == "none"
NoReply == [op |-> "none", result |-> "none", classes |-> NoClasses]
Results == {"valid", "invalid", "kept", "repaired", "not_kept", "error", "success"}

TypeOK ==
  /\ agentUp \in BOOLEAN
  /\ asked \in Requests \cup {NoRequest}
  /\ reply \in [op : Operations, result : Results, classes : Promisers \cup {NoClasses}]
              \cup {NoReply}
  /\ shell \in [Names -> Values \cup {Empty}]
  /\ classes \in Promisers \cup {NoClasses}
  /\ ended \in BOOLEAN
  /\ earlier \subseteq Names

Init ==
  /\ agentUp = TRUE /\ asked = NoRequest /\ reply = NoReply
  /\ shell = [n \in Names |-> Empty] /\ classes = NoClasses
  /\ ended = FALSE /\ earlier = {}

Waiting == asked # NoRequest /\ reply = NoReply

(* cf-agent sends one request at a time and waits for the response to it.  *)
Ask(r) ==
  /\ agentUp /\ ~ended /\ ~Waiting
  /\ asked' = r /\ reply' = NoReply
  /\ earlier' = IF asked = NoRequest THEN {} ELSE earlier \cup DOMAIN asked.attrs
  /\ UNCHANGED <<agentUp, shell, classes, ended>>

AgentEnds ==
  /\ agentUp /\ agentUp' = FALSE
  /\ UNCHANGED <<asked, reply, shell, classes, ended, earlier>>

(* reset_state unsets only the variables that env lists, and those of the  *)
(* attributes are not exported.                                            *)
Kept(n) == shell[n]

(* IFS='$\n' has no newline in it but the characters $, \ and n: at the    *)
(* end of a line, read drops one of them.                                  *)
Read(v) == IF v \in Swallowed THEN Empty ELSE v

Received == [n \in Names |-> IF n \in DOMAIN asked.attrs THEN Read(asked.attrs[n]) ELSE Kept(n)]

OldClasses_Kept == classes
OldClasses == NoClasses

Respond(result, c) ==
  /\ shell' = Received
  /\ classes' = c
  /\ reply' = [op |-> asked.op, result |-> result, classes |-> c]
  /\ UNCHANGED <<agentUp, asked, earlier>>

Handling(op) == ~ended /\ Waiting /\ asked.op = op

Unknown == ~AllValid /\ DOMAIN asked.attrs \ (Required \cup Optional) # {}

Missing_Never == FALSE
Missing == \E n \in Required : Received[n] = Empty

(* do_validate can find more that is wrong.                                *)
Validate ==
  /\ Handling("validate_promise")
  /\ \E result \in {"valid", "invalid"} :
       /\ Unknown \/ Missing => result = "invalid"
       /\ Respond(result, OldClasses)
  /\ UNCHANGED ended

(* do_evaluate sets the result, unless it forgets to, and the classes.     *)
Evaluate ==
  /\ Handling("evaluate_promise")
  /\ \E result \in {"error", "kept", "repaired", "not_kept"}, c \in {OldClasses, asked.promiser} :
       Respond(result, c)
  /\ UNCHANGED ended

AfterTerminate_GoesOn == FALSE
AfterTerminate == TRUE

Terminate ==
  /\ Handling("terminate")
  /\ Respond("success", OldClasses)
  /\ ended' = AfterTerminate

UnknownOperation ==
  /\ Handling("init")
  /\ Respond("error", OldClasses)
  /\ UNCHANGED ended

(* At the end of input the library goes on with empty requests, until a    *)
(* response to one of them meets a closed pipe.                            *)
EndOfInput ==
  /\ ~agentUp /\ ~ended
  /\ ended' = TRUE
  /\ UNCHANGED <<agentUp, asked, reply, shell, classes, earlier>>

Handle == Validate \/ Evaluate \/ Terminate \/ UnknownOperation \/ EndOfInput

Next == AgentEnds \/ Handle \/ \E r \in Requests : Ask(r)

Spec == Init /\ [][Next]_vars

-----------------------------------------------------------------------------
(* Properties.                                                             *)

(* The response that cf-agent reads is about the request it has sent       *)
(* (cfengine.sh:140-145, 75-80).                                           *)
Protocol == INSTANCE PromiseProtocol WITH reply <- [op |-> reply.op, result |-> reply.result]
Promised == Protocol!Spec

(* reset_state does not reset the attributes, which are not exported: a    *)
(* required attribute is overlooked when an earlier request to the same    *)
(* module carried it.  Only then, and an attribute that the module does    *)
(* not know never goes unnoticed (cfengine.sh:24, 54-57, 91-109).          *)
RequiredPresentOrStale ==
  reply.result = "valid" =>
    /\ \A n \in Required :
         n \in earlier \/ (n \in DOMAIN asked.attrs /\ asked.attrs[n] # Empty)
    /\ AllValid \/ DOMAIN asked.attrs \subseteq Required \cup Optional

(* The classes in a response come from evaluating that very promise        *)
(* (cfengine.sh:141): none are left from an earlier one.                   *)
OwnClasses ==
  reply.classes # NoClasses => asked.op = "evaluate_promise" /\ reply.classes = asked.promiser
=============================================================================
