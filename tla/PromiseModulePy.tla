-------------------------- MODULE PromiseModulePy --------------------------
(***************************************************************************)
(* A custom promise module built with the Python library cfengine.py: the  *)
(* request loop of PromiseModule, the conversion and checking of           *)
(* attributes, and the state an instance keeps from request to request.    *)
(*                                                                         *)
(* A value stands for its kind: as cf-agent sends it, a string ("truth"    *)
(* for "true" and "false", "number" for digits, "text" for the others), a  *)
(* "list" or an "object"; after the conversion also "int" and "bool".      *)
(***************************************************************************)
EXTENDS FiniteSets

CONSTANTS
  Declared,       \* add_attribute calls: name -> [typing, required, validator]
  Automatic,      \* are attributes checked as they come, or does the module's author override
                  \* prepare_promiser_and_attributes or validate_attributes
  Names, Values,  \* attribute names and kinds of values in requests
  Promisers,
  NoRequest

Typings == {"string", "int", "slist", "data container", "true/false"}
Sent == {"truth", "number", "text", "list", "object"}

VARIABLES
  agentUp,        \* does cf-agent hold the other ends of the pipes
  asked,          \* the request read last
  reply,          \* the response to it
  resultClasses,  \* self._result_classes
  ended           \* has the process ended

vars == <<agentUp, asked, reply, resultClasses, ended>>

Operations == {"init", "validate_promise", "evaluate_promise", "terminate", "other"}

Attributes == UNION {[S -> Values] : S \in SUBSET Names}
Requests ==
  [op : {"validate_promise", "evaluate_promise"}, promiser : Promisers, attrs : Attributes]
  \cup [op : {"init", "terminate", "other"}]

ConstantsOK ==
  /\ DOMAIN Declared \subseteq Names
  /\ \A n \in DOMAIN Declared :
       Declared[n] \in [typing : Typings, required : BOOLEAN, validator : BOOLEAN]
  /\ Automatic \in BOOLEAN /\ Values \subseteq Sent /\ "none" \notin Promisers /\ NoRequest \notin Requests

(* Classes stand for the promiser whose evaluation has returned them.      *)
NoClasses == "none"
NoReply == [op |-> "none", result |-> "none", classes |-> NoClasses]
Results == {"valid", "invalid", "kept", "repaired", "not_kept", "error", "success", "failure"}

TypeOK ==
  /\ agentUp \in BOOLEAN
  /\ asked \in Requests \cup {NoRequest}
  /\ reply \in [op : Operations, result : Results, classes : Promisers \cup {NoClasses}]
              \cup {NoReply}
  /\ resultClasses \in Promisers \cup {NoClasses}
  /\ ended \in BOOLEAN

Init ==
  /\ agentUp = TRUE /\ asked = NoRequest /\ reply = NoReply
  /\ resultClasses = NoClasses /\ ended = FALSE

Waiting == asked # NoRequest /\ reply = NoReply

(* cf-agent sends one request at a time and waits for the response to it.  *)
Ask(r) ==
  /\ agentUp /\ ~ended /\ ~Waiting
  /\ asked' = r /\ reply' = NoReply
  /\ UNCHANGED <<agentUp, resultClasses, ended>>

AgentEnds ==
  /\ agentUp /\ agentUp' = FALSE
  /\ UNCHANGED <<asked, reply, resultClasses, ended>>

-----------------------------------------------------------------------------
(* Attributes.                                                             *)

HasValidationAttributes == DOMAIN Declared # {}

(* Only strings are converted, and only when they can be read as the       *)
(* declared type.                                                          *)
Converted(n, v) ==
  CASE ~HasValidationAttributes \/ n \notin DOMAIN Declared -> v
    [] v = "truth" /\ Declared[n].typing = "true/false" -> "bool"
    [] v = "number" /\ Declared[n].typing = "int" -> "int"
    [] OTHER -> v

CfengineType(v) ==
  CASE v \in {"truth", "number", "text"} -> "string"
    [] v = "int" -> "int"
    [] v = "list" -> "slist"
    [] v = "object" -> "data container"
    [] v = "bool" -> "true/false"

Lacking_None(attrs) == {}
Lacking(attrs) == {n \in DOMAIN Declared : Declared[n].required /\ n \notin DOMAIN attrs}

Undeclared(attrs) == DOMAIN attrs \ DOMAIN Declared

RightType(attrs, n) == CfengineType(Converted(n, attrs[n])) = Declared[n].typing

(* self._result is None until an outcome is noted.                          *)
Passed_Unset == "none"
Passed == "valid"

(* What validating can result in.  A custom validator, and after it the    *)
(* module's validate_promise, may refuse the promise or break; validators  *)
(* of attributes run before a wrong type further on is noticed.  Nothing   *)
(* is known of checks that the author has taken over.                      *)
Validations(attrs) ==
  IF ~Automatic \/ ~HasValidationAttributes THEN {Passed, "invalid", "error"}
  ELSE IF Lacking(attrs) # {} \/ Undeclared(attrs) # {} THEN {"invalid"}
  ELSE IF \A n \in DOMAIN attrs : RightType(attrs, n) THEN {Passed, "invalid", "error"}
  ELSE {"invalid"} \cup
       {"error" : n \in {m \in DOMAIN attrs : Declared[m].validator /\ RightType(attrs, m)}}

-----------------------------------------------------------------------------
(* Requests.                                                               *)

Handling(op) == ~ended /\ Waiting /\ asked.op = op

Respond(result, c) ==
  /\ reply' = [op |-> asked.op, result |-> result, classes |-> c]
  /\ UNCHANGED <<agentUp, asked>>

HandleInit ==
  /\ Handling("init")
  /\ \E result \in {"success", "failure"} : Respond(result, NoClasses)
  /\ UNCHANGED <<resultClasses, ended>>

HandleValidate ==
  /\ Handling("validate_promise")
  /\ \E result \in Validations(asked.attrs) : Respond(result, NoClasses)
  /\ UNCHANGED <<resultClasses, ended>>

(* evaluate_promise returns a result, or a result and classes, or breaks.  *)
ClassesBefore_Kept == resultClasses
ClassesBefore == NoClasses

HandleEvaluate ==
  /\ Handling("evaluate_promise")
  /\ \E result \in {"kept", "repaired", "not_kept", "error"}, c \in {ClassesBefore, asked.promiser} :
       /\ resultClasses' = c
       /\ Respond(result, c)
  /\ UNCHANGED ended

HandleTerminate ==
  /\ Handling("terminate")
  /\ \E result \in {"success", "failure"} : Respond(result, NoClasses)
  /\ ended' = TRUE
  /\ UNCHANGED resultClasses

(* An exception outside of validating and evaluating ends the process: an  *)
(* unknown operation, a prepare_promiser_and_attributes, protocol_init or  *)
(* protocol_terminate that breaks, or a response that can not be written.  *)
Raise ==
  /\ ~ended /\ Waiting
  /\ ended' = TRUE
  /\ UNCHANGED <<agentUp, asked, reply, resultClasses>>

(* At the end of input json.loads raises for the empty line.               *)
EndOfInput_Ignored == FALSE
EndOfInput == ~agentUp /\ ~Waiting

Eof ==
  /\ ~ended /\ EndOfInput
  /\ ended' = TRUE
  /\ UNCHANGED <<agentUp, asked, reply, resultClasses>>

Handle ==
  HandleInit \/ HandleValidate \/ HandleEvaluate \/ HandleTerminate \/ Raise \/ Eof

Next == AgentEnds \/ Handle \/ \E r \in Requests : Ask(r)

Spec == Init /\ [][Next]_vars

-----------------------------------------------------------------------------
(* Properties.                                                             *)

(* The response that cf-agent reads is about the request it has sent       *)
(* (cfengine.py:147-151, 184-226).                                         *)
Protocol == INSTANCE PromiseProtocol WITH reply <- [op |-> reply.op, result |-> reply.result]
Promised == Protocol!Spec

Readable(v, typing) ==
  CASE typing = "string" -> v \in {"truth", "number", "text"}
    [] typing = "int" -> v = "number"
    [] typing = "slist" -> v = "list"
    [] typing = "data container" -> v = "object"
    [] typing = "true/false" -> v = "truth"

(* With declared attributes and the automatic checks, a promise is called  *)
(* valid only when it has all the required ones and no other, each as the  *)
(* policy can write a value of the declared type (cfengine.py:153-182,     *)
(* 266-292).                                                               *)
ValidMeansReadable ==
  reply.result = "valid" /\ Automatic /\ HasValidationAttributes =>
    /\ DOMAIN asked.attrs \subseteq DOMAIN Declared
    /\ \A n \in DOMAIN Declared : Declared[n].required => n \in DOMAIN asked.attrs
    /\ \A n \in DOMAIN asked.attrs : Readable(asked.attrs[n], Declared[n].typing)

(* The classes in a response come from evaluating that very promise        *)
(* (cfengine.py:372, 391): an evaluation that returns none sends none.     *)
OwnClasses ==
  reply.classes # NoClasses => asked.op = "evaluate_promise" /\ reply.classes = asked.promiser
=============================================================================
