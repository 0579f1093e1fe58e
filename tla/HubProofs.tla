------------------------------ MODULE HubProofs ------------------------------
(***************************************************************************)
(* Proofs about MCHub, the programs of the superhub and of its agent, for  *)
(* any number of jobs, slots, attributes, promises, feeders, setups,       *)
(* attempts and faults: each program has an inductive invariant of its own *)
(* and takes its own steps only, so all of them hold together.  What a     *)
(* promise module does is a behaviour of PromiseProtocol, and the requests *)
(* of the clean up script are one of DistributedCleanup.                   *)
(***************************************************************************)
EXTENDS MCHub, Sequences, FiniteSetTheorems, TLAPS

-----------------------------------------------------------------------------
(* The loop over parallel jobs                                             *)

LEMMA TypeInductive ==
  /\ Init => TypeOK
  /\ TypeOK /\ LoopInv /\ [Next]_vars => TypeOK'
<1>. USE NAssumption, SlotsAssumption, StatusesAssumption
<1>1. Init => TypeOK
  <2> SUFFICES ASSUME Init PROVE TypeOK
    OBVIOUS
  <2>1. failure \in BOOLEAN /\ status \in [Items -> Statuses \cup {0}]
    BY DEF Init
  <2>2. QED
    BY <2>1 DEF Init, TypeOK
<1>2. TypeOK /\ LoopInv /\ [Next]_vars => TypeOK'
  <2> SUFFICES ASSUME TypeOK, LoopInv, [Next]_vars PROVE TypeOK'
    OBVIOUS
  <2> USE DEF TypeOK, Items
  <2>1. ASSUME NEW i \in Items, JobEnds(i) PROVE TypeOK'
    BY <2>1 DEF JobEnds
  <2>2. ASSUME NEW i \in Items, WaitForSlot(i) PROVE TypeOK'
    <3>1. job_slots' \in 0..Slots
      BY <2>2 DEF WaitForSlot, SlotFree, FreedSlots
    <3>2. failure' \in BOOLEAN
      BY <2>2 DEF WaitForSlot, Noted
    <3>3. QED
      BY <2>2, <3>1, <3>2 DEF WaitForSlot
  <2>3. CASE StartJob
    BY <2>3 DEF StartJob, SlotFree
  <2>4. CASE EndOfInput
    BY <2>4 DEF EndOfInput
  <2>5. CASE WaitFirst
    BY <2>5 DEF WaitFirst
  <2>6. CASE WaitRest
    <3>1. failure' \in BOOLEAN
      BY <2>6 DEF WaitRest, Noted
    <3>2. pc' \in {"rest", "returned"} /\ ended' \subseteq ended
      BY <2>6 DEF WaitRest
    <3>3. QED
      BY <2>6, <3>1, <3>2 DEF WaitRest
  <2>7. CASE UNCHANGED vars
    BY <2>7 DEF vars
  <2>8. QED
    BY <2>1, <2>2, <2>3, <2>4, <2>5, <2>6, <2>7 DEF Next
<1>3. QED
  BY <1>1, <1>2

-----------------------------------------------------------------------------
(* Slots: the jobs not waited for are finitely many and are counted.       *)

LEMMA JobsFinite ==
  ASSUME TypeOK
  PROVE  /\ IsFiniteSet(running) /\ IsFiniteSet(running \cup ended)
         /\ Cardinality(running) \in Nat /\ Cardinality(running \cup ended) \in Nat
         /\ Cardinality(running) <= Cardinality(running \cup ended)
<1>. USE NAssumption, SlotsAssumption, StatusesAssumption
<1>1. IsFiniteSet(Items)
  BY FS_Interval DEF Items
<1>2. IsFiniteSet(running \cup ended)
  BY <1>1, FS_Subset, running \cup ended \in SUBSET Items DEF TypeOK
<1>3. IsFiniteSet(running) /\ Cardinality(running) <= Cardinality(running \cup ended)
  BY <1>2, FS_Subset, running \in SUBSET (running \cup ended)
<1>4. QED
  BY <1>2, <1>3, FS_CardinalityType

LEMMA JobWaitedFor ==
  ASSUME TypeOK, NEW i \in ended, running' = running, ended' = ended \ {i}
  PROVE  /\ Cardinality(running' \cup ended') \in Nat
         /\ Cardinality(running' \cup ended') <= Cardinality(running \cup ended)
<1>1. running' \cup ended' \in SUBSET (running \cup ended) /\ IsFiniteSet(running \cup ended)
  BY JobsFinite
<1>2. IsFiniteSet(running' \cup ended')
  BY <1>1, FS_Subset
<1>3. QED
  BY <1>1, <1>2, FS_Subset, FS_CardinalityType

LEMMA LoopInductive ==
  /\ Init => LoopInv
  /\ TypeOK /\ LoopInv /\ [Next]_vars => LoopInv'
<1>. USE NAssumption, SlotsAssumption, StatusesAssumption
<1>1. Init => LoopInv
  BY FS_EmptySet DEF Init, LoopInv, Waited, Started
<1>2. TypeOK /\ LoopInv /\ [Next]_vars => LoopInv'
  <2> SUFFICES ASSUME TypeOK, LoopInv, [Next]_vars PROVE LoopInv'
    OBVIOUS
  <2> USE DEF TypeOK, LoopInv, Items, Waited, Started
  <2>1. ASSUME NEW i \in Items, JobEnds(i) PROVE LoopInv'
    <3>1. running' \cup ended' = running \cup ended /\ running' \cap ended' = {}
      BY <2>1 DEF JobEnds
    <3>2. Waited' = Waited /\ \A j \in Waited : status'[j] = status[j]
      BY <2>1 DEF JobEnds
    <3>3. pc # "returned" \/ ~(127 \notin Statuses)
      BY <2>1 DEF JobEnds, NoJobs
    <3>4. running' \subseteq Started' /\ ended' \subseteq Started' /\ Started' = Started
      BY <2>1 DEF JobEnds
    <3>5. UNCHANGED <<next, job_slots, failure, pc>>
      BY <2>1 DEF JobEnds
    <3>6. Cardinality(running' \cup ended') + job_slots' <= Slots
      BY <3>1, <3>5
    <3>7. QED
      BY <3>1, <3>2, <3>3, <3>4, <3>5, <3>6 DEF NoJobs
  <2>2. ASSUME NEW i \in Items, WaitForSlot(i) PROVE LoopInv'
    <3>1. running' \cup ended' = (running \cup ended) \ {i} /\ i \in running \cup ended
      BY <2>2 DEF WaitForSlot
    <3>2. Cardinality(running' \cup ended') = Cardinality(running \cup ended) - 1
      <4> DEFINE W == running \cup ended
      <4>1. IsFiniteSet(W) /\ i \in W
        BY <3>1, JobsFinite
      <4>2. Cardinality(W \ {i}) = Cardinality(W) - 1
        BY <4>1, FS_RemoveElement
      <4>3. QED
        BY <3>1, <4>2
    <3>3. job_slots' = job_slots + 1
      BY <2>2 DEF WaitForSlot, FreedSlots
    <3>4. Waited' = Waited \cup {i} /\ i \notin Waited
      BY <2>2 DEF WaitForSlot
    <3>5. pc' = "read" /\ pc = "read" /\ status' = status /\ (failure' <=> failure \/ status[i] # 0)
      BY <2>2 DEF WaitForSlot, Noted
    <3>6. Cardinality(running' \cup ended') + job_slots' <= Slots
      BY <3>2, <3>3, JobsFinite
    <3>7. QED
      BY <2>2, <3>4, <3>5, <3>6 DEF WaitForSlot
  <2>3. CASE StartJob
    <3>1. running' \cup ended' = (running \cup ended) \cup {next + 1} /\ next + 1 \notin running \cup ended
      BY <2>3 DEF StartJob
    <3>2. Cardinality(running' \cup ended') = Cardinality(running \cup ended) + 1
      BY <3>1, JobsFinite, FS_AddElement
    <3>3. job_slots' = job_slots - 1
      BY <2>3 DEF StartJob
    <3>4. Cardinality(running' \cup ended') + job_slots' <= Slots
      BY <3>2, <3>3, JobsFinite
    <3>5. Waited' = Waited
      BY <2>3 DEF StartJob
    <3>6. QED
      BY <2>3, <3>1, <3>4, <3>5 DEF StartJob
  <2>4. CASE EndOfInput
    BY <2>4 DEF EndOfInput
  <2>5. CASE WaitFirst
    <3>1. CASE NoJobs /\ pc' = "returned" /\ UNCHANGED ended
      BY <2>5, <3>1 DEF WaitFirst, NoJobs
    <3>2. ASSUME NEW i \in ended, ended' = ended \ {i},
                 pc' = IF status[i] = 127 THEN "returned" ELSE "rest"
          PROVE  LoopInv'
      <4>1. Waited' = Waited \cup {i} /\ pc = "first"
        BY <2>5, <3>2 DEF WaitFirst
      <4>2. Cardinality(running' \cup ended') <= Cardinality(running \cup ended)
        BY <2>5, <3>2, JobWaitedFor DEF WaitFirst
      <4>3. Cardinality(running' \cup ended') \in Nat
        BY <2>5, <3>2, JobWaitedFor DEF WaitFirst
      <4>4. status[i] = 127 => 127 \in Statuses
        BY DEF TypeOK
      <4>5. QED
        BY <2>5, <3>2, <4>1, <4>2, <4>3, <4>4, JobsFinite DEF WaitFirst
    <3>3. QED
      BY <2>5, <3>1, <3>2 DEF WaitFirst
  <2>6. CASE WaitRest
    <3>1. CASE NoJobs /\ pc' = "returned" /\ UNCHANGED <<ended, failure>>
      BY <2>6, <3>1 DEF WaitRest, NoJobs
    <3>2. ASSUME NEW i \in ended, ended' = ended \ {i},
                 IF status[i] = 127 THEN pc' = "returned" /\ UNCHANGED failure
                 ELSE UNCHANGED pc /\ failure' = Noted(i)
          PROVE  LoopInv'
      <4>1. Waited' = Waited \cup {i} /\ pc = "rest" /\ i \notin Waited
        BY <2>6, <3>2 DEF WaitRest
      <4>2. Cardinality(running' \cup ended') <= Cardinality(running \cup ended)
        BY <2>6, <3>2, JobWaitedFor DEF WaitRest
      <4>3. Cardinality(running' \cup ended') \in Nat
        BY <2>6, <3>2, JobWaitedFor DEF WaitRest
      <4>4. Cardinality(running' \cup ended') + job_slots' <= Slots
        BY <2>6, <4>2, <4>3, JobsFinite DEF WaitRest
      <4>5. UNCHANGED <<next, job_slots, running, status>>
        BY <2>6 DEF WaitRest
      <4>6. failure' = Noted(i) \/ (status[i] = 127 /\ 127 \in Statuses /\ failure' = failure)
        BY <3>2
      <4>7. pc' \in {"rest", "returned"} /\ (pc' = "returned" => 127 \in Statuses)
        BY <3>2, <4>1
      <4>8. failure' => \E j \in Waited' : status'[j] # 0
        BY <4>1, <4>5, <4>6 DEF Noted
      <4>9. ~failure' /\ 127 \notin Statuses =>
              \A j, k \in Waited' : status'[j] # 0 /\ status'[k] # 0 => j = k
        <5>. SUFFICES ASSUME ~failure', 127 \notin Statuses
                      PROVE  \A j, k \in Waited' : status'[j] # 0 /\ status'[k] # 0 => j = k
          OBVIOUS
        <5>1. ~failure /\ status[i] = 0
          BY <4>6 DEF Noted
        <5>2. \A j, k \in Waited : status[j] # 0 /\ status[k] # 0 => j = k
          BY <4>1, <5>1
        <5>3. status' = status
          BY <4>5
        <5>. HIDE DEF Waited
        <5>4. QED
          BY <4>1, <5>1, <5>2, <5>3
      <4>10. running' \subseteq Started' /\ ended' \subseteq Started' /\ running' \cap ended' = {}
        BY <3>2, <4>5
      <4>11. QED
        BY <4>1, <4>4, <4>5, <4>7, <4>8, <4>9, <4>10
    <3>3. QED
      BY <2>6, <3>1, <3>2 DEF WaitRest
  <2>7. CASE UNCHANGED vars
    BY <2>7 DEF vars, NoJobs
  <2>8. QED
    BY <2>1, <2>2, <2>3, <2>4, <2>5, <2>6, <2>7 DEF Next
<1>3. QED
  BY <1>1, <1>2
-----------------------------------------------------------------------------
LEMMA LoopInvariant == Spec => [](TypeOK /\ LoopInv)
BY TypeInductive, LoopInductive, PTL DEF Spec

(* No more jobs run at once than there are slots, whatever their exit      *)
(* statuses (parallel.sh:69-77).                                           *)
THEOREM SlotsBoundJobs == Spec => []AtMostSlots
<1>. USE NAssumption, SlotsAssumption, StatusesAssumption
<1>1. TypeOK /\ LoopInv => AtMostSlots
  BY JobsFinite DEF AtMostSlots, LoopInv, TypeOK
<1>2. QED
  BY <1>1, LoopInvariant, PTL

(* When no job exits with 127, everything has been run and waited for at   *)
(* the return (parallel.sh:80-90).                                         *)
THEOREM ReturnsWhenAllDone ==
  ASSUME 127 \notin Statuses
  PROVE  Spec => []AllDone
<1>. USE NAssumption, SlotsAssumption, StatusesAssumption
<1>1. LoopInv => AllDone
  BY DEF AllDone, LoopInv
<1>2. QED
  BY <1>1, LoopInvariant, PTL

(* The status returned is right but for one job: a returned failure is     *)
(* somebody's, a returned success overlooks one at most (parallel.sh:82).  *)
THEOREM OneFailureOverlooked ==
  ASSUME 127 \notin Statuses
  PROVE  Spec => []ReturnAlmostRight
<1>. USE NAssumption, SlotsAssumption, StatusesAssumption
<1>1. TypeOK /\ LoopInv => ReturnAlmostRight
  <2> SUFFICES ASSUME TypeOK, LoopInv, pc = "returned" PROVE ReturnAlmostRight
    BY DEF ReturnAlmostRight
  <2>1. NoJobs /\ FailedJobs = {i \in Waited : status[i] # 0}
    BY DEF LoopInv, NoJobs, FailedJobs, Waited
  <2>2. QED
    BY <2>1 DEF LoopInv, ReturnAlmostRight, TypeOK
<1>2. QED
  BY <1>1, LoopInvariant, PTL

-----------------------------------------------------------------------------
(* The database wrapper                                                    *)

(* A wrapper that runs has no exit code yet, and one that does not run has *)
(* no code of psql.                                                        *)
Phases == (attempt > 0 => code = NoCode) /\ (attempt = 0 => psql = NoCode)

(* What the statement answered, and what the earlier attempts did.         *)
Answers ==
  psql = 0 => ensured /\ out \in {0, 1} /\ (out = 1 => changed) /\ (out = 0 /\ changed => unheard)
Earlier == attempt > 0 /\ psql # 0 /\ changed => unheard

PsqlInv == Psql!TypeOK /\ Phases /\ Answers /\ Earlier /\ Report

LEMMA FaultType == ASSUME Psql!ConstantsOK, Psql!TypeOK, Psql!Fault PROVE psqlFaults' \in 0..MaxPsqlFaults
BY DEF Psql!ConstantsOK, Psql!TypeOK, Psql!Fault

LEMMA PsqlInit == ASSUME Psql!ConstantsOK, Psql!Init PROVE PsqlInv
<1>1. Psql!TypeOK
  <2>1. 0 \in 0..MaxAttempts /\ 0 \in 0..MaxPsqlFaults
    BY DEF Psql!ConstantsOK
  <2>. QED
    BY <2>1 DEF Psql!Init, Psql!TypeOK, Psql!Codes
<1>2. Phases /\ Answers /\ Earlier /\ Report
  BY DEF Psql!Init, Psql!ConstantsOK, Phases, Answers, Earlier, Report, Psql!Report
<1>. QED
  BY <1>1, <1>2 DEF PsqlInv

LEMMA PsqlNext == ASSUME Psql!ConstantsOK, PsqlInv, [Psql!Next]_(Psql!vars) PROVE PsqlInv'
<1>. USE FaultType DEF Psql!ConstantsOK, PsqlInv, Psql!Codes
<1>1. CASE Psql!Start
  <2>1. Psql!TypeOK'
    <3>1. attempt' \in 0..MaxAttempts
      BY <1>1 DEF Psql!Start
    <3>. QED
      BY <1>1, <3>1 DEF Psql!Start, Psql!TypeOK
  <2>. QED
    BY <1>1, <2>1 DEF Psql!Start, Phases, Answers, Earlier, Report, Psql!Report
<1>2. CASE Psql!Psql
  <2>1. Psql!TypeOK'
    <3>1. ensured' \in BOOLEAN /\ changed' \in BOOLEAN /\ unheard' \in BOOLEAN
      BY <1>2 DEF Psql!Psql, Psql!Takes, Psql!TypeOK
    <3>2. psql' \in Psql!Codes /\ out' \in Psql!Codes /\ attempt' = attempt /\ code' = code
      BY <1>2 DEF Psql!Psql
    <3>3. psqlFaults' \in 0..MaxPsqlFaults
      BY <1>2 DEF Psql!Psql, Psql!TypeOK
    <3>. QED
      BY <3>1, <3>2, <3>3 DEF Psql!TypeOK
  <2>2. (attempt > 0 /\ attempt' = attempt /\ code' = code) /\ code = NoCode /\ psql = NoCode
    BY <1>2 DEF Psql!Psql, Phases
  <2>3. CASE Psql!Takes
    <3>1. ensured' /\ (changed' <=> changed \/ ~ensured)
      BY <2>3 DEF Psql!Takes, Psql!TypeOK
    <3>2. \/ psql' = 0 /\ out' = (IF ensured THEN 0 ELSE 1) /\ unheard' = unheard
          \/ psql' = 2 /\ unheard' = TRUE
          \/ psql' \in {1, 2} /\ UNCHANGED <<changed, unheard>>
      BY <1>2 DEF Psql!Psql
    <3>. QED
      BY <2>1, <2>2, <3>1, <3>2 DEF Phases, Answers, Earlier, Report, Psql!Report
  <2>4. CASE UNCHANGED <<ensured, changed, unheard>> /\ psql' \in {1, 2}
    BY <2>1, <2>2, <2>4 DEF Phases, Answers, Earlier, Report, Psql!Report
  <2>. QED
    BY <1>2, <2>3, <2>4 DEF Psql!Psql
<1>3. CASE Psql!Retry
  <2>1. Psql!TypeOK'
    BY <1>3 DEF Psql!Retry, Psql!Again, Psql!TypeOK
  <2>. QED
    BY <1>3, <2>1 DEF Psql!Retry, Psql!Again, Psql!TypeOK, Phases, Answers, Earlier, Report, Psql!Report
<1>4. CASE Psql!End
  <2>1. Psql!TypeOK'
    BY <1>4 DEF Psql!End, Psql!ExitCode, Psql!TypeOK
  <2>. QED
    BY <1>4, <2>1 DEF Psql!End, Psql!ExitCode, Phases, Answers, Earlier, Report, Psql!Report
<1>5. CASE Psql!Drift
  <2>1. Psql!TypeOK'
    BY <1>5 DEF Psql!Drift, Psql!TypeOK
  <2>. QED
    BY <1>5, <2>1 DEF Psql!Drift, Phases, Answers, Earlier, Report, Psql!Report
<1>6. CASE Psql!Kill
  <2>1. Psql!TypeOK'
    BY <1>6 DEF Psql!Kill, Psql!TypeOK
  <2>. QED
    BY <1>6, <2>1 DEF Psql!Kill, Phases, Answers, Earlier, Report, Psql!Report
<1>7. CASE UNCHANGED Psql!vars
  BY <1>7 DEF Psql!vars, Psql!TypeOK, Phases, Answers, Earlier, Report, Psql!Report
<1>. QED
  BY <1>1, <1>2, <1>3, <1>4, <1>5, <1>6, <1>7 DEF Psql!Next

-----------------------------------------------------------------------------
(* A module built with the Python library                                  *)

(* A reply is to a request, and says "valid" only when validating the      *)
(* promise may come to that.                                               *)
PyReplies ==
  pyReply # Py!NoReply =>
    /\ pyAsked \in Py!Requests /\ pyReply.op = pyAsked.op
    /\ pyReply.result = "valid" =>
         pyAsked.op = "validate_promise" /\ "valid" \in Py!Validations(pyAsked.attrs)
    /\ pyReply.classes # Py!NoClasses =>
         pyAsked.op = "evaluate_promise" /\ pyReply.classes = pyAsked.promiser

PyInv == Py!TypeOK /\ PyReplies

LEMMA PyRequest ==
    ASSUME NEW r \in Py!Requests
    PROVE  /\ r.op \in Py!Operations
           /\ r.op \in {"validate_promise", "evaluate_promise"} => r.promiser \in Promisers
           /\ r.op = "validate_promise" => r.attrs \in Py!Attributes
BY DEF Py!Requests, Py!Operations

LEMMA PyInit == ASSUME Py!Init PROVE PyInv
BY DEF Py!Init, PyInv, PyReplies, Py!TypeOK

(* Every handler answers the request it was given, with classes that it    *)
(* has just been returned.                                                 *)
LEMMA PyAnswer ==
    ASSUME Py!ConstantsOK, PyInv, Py!Handling(pyAsked.op),
           NEW result, NEW c, Py!Respond(result, c),
           resultClasses' \in Promisers \cup {Py!NoClasses}, pyEnded' \in BOOLEAN,
           result \in Py!Results, c \in Promisers \cup {Py!NoClasses},
           result = "valid" =>
             pyAsked.op = "validate_promise" /\ "valid" \in Py!Validations(pyAsked.attrs),
           c # Py!NoClasses => pyAsked.op = "evaluate_promise" /\ c = pyAsked.promiser
    PROVE  PyInv'
<1>1. pyAsked \in Py!Requests /\ pyAsked.op \in Py!Operations
  BY PyRequest DEF PyInv, Py!TypeOK, Py!Handling, Py!Waiting
<1>2. pyReply' = [op |-> pyAsked.op, result |-> result, classes |-> c]
      /\ pyAgent' = pyAgent /\ pyAsked' = pyAsked
  BY DEF Py!Respond
<1>3. Py!TypeOK'
  BY <1>1, <1>2 DEF PyInv, Py!TypeOK
<1>4. PyReplies'
  BY <1>1, <1>2 DEF PyReplies, Py!NoReply
<1>. QED
  BY <1>3, <1>4 DEF PyInv

LEMMA PyStep == ASSUME Py!ConstantsOK, PyInv, [Py!Next]_(Py!vars) PROVE PyInv'
<1>. USE DEF PyInv, Py!TypeOK
<1>1. CASE Py!HandleInit
  <2>1. PICK result \in {"success", "failure"} : Py!Respond(result, Py!NoClasses)
    BY <1>1 DEF Py!HandleInit
  <2>2. Py!Handling(pyAsked.op) /\ result \in Py!Results /\ result # "valid"
    BY <1>1, <2>1 DEF Py!HandleInit, Py!Handling, Py!Results
  <2>. QED
    BY <1>1, <2>1, <2>2, PyAnswer DEF Py!HandleInit
<1>2. CASE Py!HandleValidate
  <2>1. PICK result \in Py!Validations(pyAsked.attrs) : Py!Respond(result, Py!NoClasses)
    BY <1>2 DEF Py!HandleValidate
  <2>2. Py!Handling(pyAsked.op) /\ result \in Py!Results /\ pyAsked.op = "validate_promise"
    BY <1>2, <2>1 DEF Py!HandleValidate, Py!Handling, Py!Results, Py!Validations, Py!Passed
  <2>. QED
    BY <1>2, <2>1, <2>2, PyAnswer DEF Py!HandleValidate
<1>3. CASE Py!HandleEvaluate
  <2>1. PICK result \in {"kept", "repaired", "not_kept", "error"},
             c \in {Py!ClassesBefore, pyAsked.promiser} :
               resultClasses' = c /\ Py!Respond(result, c)
    BY <1>3 DEF Py!HandleEvaluate
  <2>2. Py!Handling(pyAsked.op) /\ result \in Py!Results /\ result # "valid"
    BY <1>3, <2>1 DEF Py!HandleEvaluate, Py!Handling, Py!Results
  <2>3. pyAsked.op = "evaluate_promise" /\ pyAsked.promiser \in Promisers
    BY <1>3, PyRequest DEF Py!HandleEvaluate, Py!Handling, Py!Waiting
  <2>4. c \in Promisers \cup {Py!NoClasses}
    BY <2>1, <2>3 DEF Py!ClassesBefore
  <2>5. c # Py!NoClasses => c = pyAsked.promiser
    BY <2>1 DEF Py!ClassesBefore
  <2>6. pyEnded' \in BOOLEAN
    BY <1>3 DEF Py!HandleEvaluate
  <2>. QED
    BY <2>1, <2>2, <2>3, <2>4, <2>5, <2>6, PyAnswer
<1>4. CASE Py!HandleTerminate
  <2>1. PICK result \in {"success", "failure"} : Py!Respond(result, Py!NoClasses)
    BY <1>4 DEF Py!HandleTerminate
  <2>2. Py!Handling(pyAsked.op) /\ result \in Py!Results /\ result # "valid"
    BY <1>4, <2>1 DEF Py!HandleTerminate, Py!Handling, Py!Results
  <2>. QED
    BY <1>4, <2>1, <2>2, PyAnswer DEF Py!HandleTerminate
<1>5. CASE Py!AgentEnds \/ Py!Raise \/ Py!Eof
  BY <1>5 DEF Py!AgentEnds, Py!Raise, Py!Eof, PyReplies
<1>6. ASSUME NEW r \in Py!Requests, Py!Ask(r) PROVE PyInv'
  BY <1>6 DEF Py!Ask, PyReplies
<1>7. CASE UNCHANGED Py!vars
  BY <1>7 DEF Py!vars, PyReplies
<1>. QED
  BY <1>1, <1>2, <1>3, <1>4, <1>5, <1>6, <1>7 DEF Py!Next, Py!Handle

(* A value of the type that validation asks for can be read as declared.   *)
LEMMA RightTypeReadable ==
    ASSUME Py!ConstantsOK, NEW attrs, NEW n \in DOMAIN Declared,
           attrs[n] \in PyValues, Py!RightType(attrs, n)
    PROVE  Py!Readable(attrs[n], Declared[n].typing)
<1>1. attrs[n] \in {"truth", "number", "text", "list", "object"}
      /\ Declared[n].typing \in {"string", "int", "slist", "data container", "true/false"}
  BY DEF Py!ConstantsOK, Py!Sent, Py!Typings
<1>2. Py!HasValidationAttributes
  BY DEF Py!HasValidationAttributes
<1>. QED
  BY <1>1, <1>2 DEF Py!RightType, Py!Converted, Py!CfengineType, Py!Readable

LEMMA PyPromises == ASSUME Py!ConstantsOK, PyInv PROVE Py!ValidMeansReadable /\ Py!OwnClasses
<1>1. Py!OwnClasses
  BY DEF PyInv, PyReplies, Py!OwnClasses, Py!NoReply
<1>2. ASSUME pyReply.result = "valid", Automatic, Py!HasValidationAttributes
      PROVE  /\ DOMAIN pyAsked.attrs \subseteq DOMAIN Declared
             /\ \A n \in DOMAIN Declared : Declared[n].required => n \in DOMAIN pyAsked.attrs
             /\ \A n \in DOMAIN pyAsked.attrs : Py!Readable(pyAsked.attrs[n], Declared[n].typing)
  <2>1. /\ pyAsked \in Py!Requests /\ pyAsked.op = "validate_promise"
        /\ "valid" \in Py!Validations(pyAsked.attrs)
    BY <1>2 DEF PyInv, PyReplies, Py!NoReply
  <2>2. \A n \in DOMAIN pyAsked.attrs : pyAsked.attrs[n] \in PyValues
    <3>1. pyAsked.attrs \in Py!Attributes
      BY <2>1, PyRequest
    <3>. QED
      BY <3>1 DEF Py!Attributes
  <2>3. /\ Py!Lacking(pyAsked.attrs) = {} /\ Py!Undeclared(pyAsked.attrs) = {}
        /\ \A n \in DOMAIN pyAsked.attrs : Py!RightType(pyAsked.attrs, n)
    BY <1>2, <2>1 DEF Py!Validations
  <2>. QED
    BY <2>2, <2>3, RightTypeReadable DEF Py!Lacking, Py!Undeclared
<1>. QED
  BY <1>1, <1>2 DEF Py!ValidMeansReadable

-----------------------------------------------------------------------------
(* What cf-agent sees of a module is a behaviour of PromiseProtocol.       *)
LEMMA PyProtocolInit == ASSUME Py!Init PROVE Py!Protocol!Init
BY DEF Py!Init, Py!NoReply, Py!Protocol!Init, Py!Protocol!NoReply

LEMMA PyProtocolWaits == ASSUME PyInv PROVE Py!Waiting <=> Py!Protocol!Waiting
BY DEF PyInv, Py!TypeOK, Py!Operations, Py!Waiting, Py!NoReply, Py!Protocol!Waiting, Py!Protocol!NoReply

LEMMA PyProtocolStep ==
    ASSUME PyInv, [Py!Next]_(Py!vars)
    PROVE  [Py!Protocol!Next]_(Py!Protocol!vars)
<1>. USE PyProtocolWaits
<1>1. ASSUME NEW result, NEW c, Py!Handling(pyAsked.op), Py!Respond(result, c),
             result \in Py!Protocol!Results(pyAsked.op), pyEnded' = (pyAsked.op = "terminate")
      PROVE  Py!Protocol!Answer
  BY <1>1 DEF Py!Handling, Py!Respond, Py!Protocol!Answer
<1>2. CASE Py!HandleInit
  BY <1>2, <1>1 DEF Py!HandleInit, Py!Handling, Py!Protocol!Results, PyInv, Py!TypeOK, Py!Protocol!Next
<1>3. CASE Py!HandleValidate
  BY <1>3, <1>1 DEF Py!HandleValidate, Py!Handling, Py!Validations, Py!Passed, Py!Protocol!Results,
                    PyInv, Py!TypeOK, Py!Protocol!Next
<1>4. CASE Py!HandleEvaluate
  BY <1>4, <1>1 DEF Py!HandleEvaluate, Py!Handling, Py!Protocol!Results, PyInv, Py!TypeOK, Py!Protocol!Next
<1>5. CASE Py!HandleTerminate
  BY <1>5, <1>1 DEF Py!HandleTerminate, Py!Handling, Py!Protocol!Results, Py!Protocol!Next
<1>6. CASE Py!Raise \/ Py!Eof
  BY <1>6 DEF Py!Raise, Py!Eof, Py!Protocol!Die, Py!Protocol!Next
<1>7. CASE Py!AgentEnds \/ UNCHANGED Py!vars
  BY <1>7 DEF Py!AgentEnds, Py!vars, Py!Protocol!vars
<1>8. ASSUME NEW r \in Py!Requests, Py!Ask(r) PROVE Py!Protocol!Ask
  BY <1>8 DEF Py!Ask, Py!NoReply, Py!Protocol!Ask, Py!Protocol!NoReply
<1>. QED
  BY <1>2, <1>3, <1>4, <1>5, <1>6, <1>7, <1>8 DEF Py!Next, Py!Handle, Py!Protocol!Next

-----------------------------------------------------------------------------
(* A module built with the shell library                                   *)

Carries(n) == n \in DOMAIN shAsked.attrs /\ shAsked.attrs[n] # EmptyLine

ShReplies ==
  shReply # Sh!NoReply =>
    /\ shAsked \in Sh!Requests /\ shReply.op = shAsked.op
    /\ shReply.result = "valid" =>
         ~Sh!Unknown /\ \A n \in Required : n \in earlier \/ Carries(n)
    /\ shReply.classes # Sh!NoClasses =>
         shAsked.op = "evaluate_promise" /\ shReply.classes = shAsked.promiser

(* What is left in the shell came with an earlier request, or with the one *)
(* that was answered last.                                                 *)
ShellFrom(n) ==
  shell[n] # EmptyLine =>
    n \in earlier \/ (shReply # Sh!NoReply /\ n \in DOMAIN shAsked.attrs)
NoneBefore == shAsked = NoRequest => earlier = {} /\ \A n \in ShNames : shell[n] = EmptyLine

ShInv == Sh!TypeOK /\ ShReplies /\ NoneBefore /\ \A n \in ShNames : ShellFrom(n)

LEMMA ShAttributes ==
    ASSUME NEW r \in Sh!Requests
    PROVE  /\ DOMAIN r.attrs \subseteq ShNames
           /\ \A n \in DOMAIN r.attrs : r.attrs[n] \in ShValues \cup {EmptyLine}
           /\ r.op \in Sh!Operations /\ r.promiser \in Promisers
<1>1. r.attrs \in Sh!Attributes /\ r.op \in Sh!Operations /\ r.promiser \in Promisers
  BY DEF Sh!Requests
<1>. QED
  BY <1>1 DEF Sh!Attributes

LEMMA ShInit == ASSUME Sh!ConstantsOK, Sh!Init PROVE ShInv
BY DEF Sh!Init, ShInv, ShReplies, ShellFrom, NoneBefore, Sh!TypeOK

(* A response leaves in the shell what was there and what was received.    *)
LEMMA ShAnswer ==
    ASSUME Sh!ConstantsOK, ShInv, Sh!Handling(shAsked.op),
           NEW result \in Sh!Results, NEW c \in Promisers \cup {Sh!NoClasses}, Sh!Respond(result, c),
           shEnded' \in BOOLEAN,
           result = "valid" => ~Sh!Unknown /\ ~Sh!Missing,
           c # Sh!NoClasses => shAsked.op = "evaluate_promise" /\ c = shAsked.promiser
    PROVE  ShInv'
<1>. USE DEF ShInv, Sh!TypeOK
<1>1. /\ shAsked \in Sh!Requests /\ shAsked # NoRequest /\ shReply = Sh!NoReply
      /\ shAsked.op \in Sh!Operations
  BY ShAttributes DEF Sh!Handling, Sh!Waiting
<1>2. /\ shReply' = [op |-> shAsked.op, result |-> result, classes |-> c]
      /\ shell' = Sh!Received /\ classes' = c
      /\ shAgent' = shAgent /\ shAsked' = shAsked /\ earlier' = earlier
  BY DEF Sh!Respond
<1>3. Sh!Received \in [ShNames -> ShValues \cup {EmptyLine}]
  BY <1>1, ShAttributes DEF Sh!Received, Sh!Read, Sh!Kept
<1>4. Sh!TypeOK'
  BY <1>1, <1>2, <1>3
<1>5. ASSUME NEW n \in ShNames PROVE ShellFrom(n)'
  <2>1. shell'[n] # EmptyLine => n \in DOMAIN shAsked.attrs \/ shell[n] # EmptyLine
    BY <1>2 DEF Sh!Received, Sh!Kept
  <2>2. shReply' # Sh!NoReply'
    BY <1>1, <1>2 DEF Sh!NoReply, Sh!Operations
  <2>3. shell[n] # EmptyLine => n \in earlier
    BY <1>1 DEF ShellFrom
  <2>. QED
    BY <1>2, <2>1, <2>2, <2>3 DEF ShellFrom
<1>6. result = "valid" => \A n \in Required : n \in earlier \/ Carries(n)
  <2>1. ASSUME result = "valid", NEW n \in Required, n \notin DOMAIN shAsked.attrs
        PROVE  n \in earlier
    BY <1>1, <2>1 DEF Sh!Missing, Sh!Received, Sh!Kept, ShellFrom, Sh!ConstantsOK
  <2>2. ASSUME result = "valid", NEW n \in Required, n \in DOMAIN shAsked.attrs
        PROVE  Carries(n)
    BY <1>1, <2>2 DEF Sh!Missing, Sh!Received, Sh!Read, Carries, Sh!ConstantsOK
  <2>. QED
    BY <2>1, <2>2
<1>7. ShReplies'
  BY <1>1, <1>2, <1>6 DEF ShReplies, Sh!NoReply, Carries, Sh!Unknown
<1>8. NoneBefore'
  BY <1>1, <1>2 DEF NoneBefore
<1>. QED
  BY <1>4, <1>5, <1>7, <1>8

LEMMA ShStep == ASSUME Sh!ConstantsOK, ShInv, [Sh!Next]_(Sh!vars) PROVE ShInv'
<1>. USE DEF ShInv, Sh!TypeOK
<1>1. CASE Sh!Validate
  <2>1. PICK result \in {"valid", "invalid"} :
          (Sh!Unknown \/ Sh!Missing => result = "invalid") /\ Sh!Respond(result, Sh!OldClasses)
    BY <1>1 DEF Sh!Validate
  <2>2. Sh!Handling(shAsked.op) /\ shEnded' \in BOOLEAN
    BY <1>1 DEF Sh!Validate, Sh!Handling
  <2>3. result \in Sh!Results
    BY DEF Sh!Results
  <2>. QED
    BY <2>1, <2>2, <2>3, ShAnswer DEF Sh!OldClasses
<1>2. CASE Sh!Evaluate
  <2>1. PICK result \in {"error", "kept", "repaired", "not_kept"}, c \in {Sh!OldClasses, shAsked.promiser} :
          Sh!Respond(result, c)
    BY <1>2 DEF Sh!Evaluate
  <2>2. Sh!Handling(shAsked.op) /\ shEnded' \in BOOLEAN /\ shAsked.op = "evaluate_promise"
    BY <1>2 DEF Sh!Evaluate, Sh!Handling
  <2>3. result \in Sh!Results /\ result # "valid"
    BY DEF Sh!Results
  <2>4. c \in Promisers \cup {Sh!NoClasses} /\ (c # Sh!NoClasses => c = shAsked.promiser)
    BY <2>1, <2>2, ShAttributes DEF Sh!OldClasses, Sh!Handling, Sh!Waiting
  <2>. QED
    BY <2>1, <2>2, <2>3, <2>4, ShAnswer
<1>3. CASE Sh!Terminate \/ Sh!UnknownOperation
  <2>1. PICK result \in {"success", "error"} : Sh!Respond(result, Sh!OldClasses)
    BY <1>3 DEF Sh!Terminate, Sh!UnknownOperation
  <2>2. Sh!Handling(shAsked.op) /\ shEnded' \in BOOLEAN
    BY <1>3 DEF Sh!Terminate, Sh!UnknownOperation, Sh!Handling, Sh!AfterTerminate
  <2>3. result \in Sh!Results /\ result # "valid"
    BY DEF Sh!Results
  <2>. QED
    BY <2>1, <2>2, <2>3, ShAnswer DEF Sh!OldClasses
<1>4. CASE Sh!AgentEnds \/ Sh!EndOfInput
  BY <1>4 DEF Sh!AgentEnds, Sh!EndOfInput, ShReplies, ShellFrom, NoneBefore, Carries, Sh!Unknown
<1>5. ASSUME NEW r \in Sh!Requests, Sh!Ask(r) PROVE ShInv'
  <2>1. /\ shAsked' = r /\ shReply' = Sh!NoReply
        /\ shAgent' = shAgent /\ shell' = shell /\ classes' = classes /\ shEnded' = shEnded
        /\ earlier' = IF shAsked = NoRequest THEN {} ELSE earlier \cup DOMAIN shAsked.attrs
    BY <1>5 DEF Sh!Ask
  <2>2. shAsked # NoRequest => shAsked \in Sh!Requests
    OBVIOUS
  <2>3. Sh!TypeOK'
    <3>1. earlier' \subseteq ShNames
      BY <2>1, <2>2, ShAttributes
    <3>. QED
      BY <2>1, <3>1
  <2>4. ASSUME NEW n \in ShNames PROVE ShellFrom(n)'
    BY <2>1 DEF ShellFrom, NoneBefore
  <2>5. ShReplies' /\ NoneBefore'
    BY <2>1 DEF ShReplies, NoneBefore, Sh!NoReply, Sh!ConstantsOK
  <2>. QED
    BY <2>3, <2>4, <2>5
<1>6. CASE UNCHANGED Sh!vars
  BY <1>6 DEF Sh!vars, ShReplies, ShellFrom, NoneBefore, Carries, Sh!Unknown
<1>. QED
  BY <1>1, <1>2, <1>3, <1>4, <1>5, <1>6 DEF Sh!Next, Sh!Handle

LEMMA ShPromises == ASSUME ShInv PROVE Sh!RequiredPresentOrStale /\ Sh!OwnClasses
<1>1. Sh!OwnClasses
  BY DEF ShInv, ShReplies, Sh!OwnClasses, Sh!NoReply
<1>2. Sh!RequiredPresentOrStale
  BY DEF ShInv, ShReplies, Sh!RequiredPresentOrStale, Sh!NoReply, Carries, Sh!Unknown
<1>. QED
  BY <1>1, <1>2

LEMMA ShProtocolInit == ASSUME Sh!Init PROVE Sh!Protocol!Init
BY DEF Sh!Init, Sh!NoReply, Sh!Protocol!Init, Sh!Protocol!NoReply

LEMMA ShProtocolWaits == ASSUME ShInv PROVE Sh!Waiting <=> Sh!Protocol!Waiting
BY DEF ShInv, Sh!TypeOK, Sh!Operations, Sh!Waiting, Sh!NoReply, Sh!Protocol!Waiting, Sh!Protocol!NoReply

LEMMA ShProtocolStep ==
    ASSUME ShInv, [Sh!Next]_(Sh!vars)
    PROVE  [Sh!Protocol!Next]_(Sh!Protocol!vars)
<1>1. ASSUME NEW result, NEW c, Sh!Handling(shAsked.op), Sh!Respond(result, c),
             result \in Sh!Protocol!Results(shAsked.op), shEnded' = (shAsked.op = "terminate")
      PROVE  Sh!Protocol!Answer
  BY <1>1, ShProtocolWaits DEF Sh!Handling, Sh!Respond, Sh!Protocol!Answer
<1>2. CASE Sh!Validate
  BY <1>2, <1>1 DEF Sh!Validate, Sh!Handling, Sh!Protocol!Results, ShInv, Sh!TypeOK, Sh!Protocol!Next
<1>3. CASE Sh!Evaluate
  BY <1>3, <1>1 DEF Sh!Evaluate, Sh!Handling, Sh!Protocol!Results, ShInv, Sh!TypeOK, Sh!Protocol!Next
<1>4. CASE Sh!Terminate
  BY <1>4, <1>1 DEF Sh!Terminate, Sh!AfterTerminate, Sh!Handling, Sh!Protocol!Results, Sh!Protocol!Next
<1>5. CASE Sh!UnknownOperation
  BY <1>5, <1>1 DEF Sh!UnknownOperation, Sh!Handling, Sh!Protocol!Results, ShInv, Sh!TypeOK, Sh!Protocol!Next
<1>6. CASE Sh!EndOfInput
  BY <1>6 DEF Sh!EndOfInput, Sh!Protocol!Die, Sh!Protocol!Next
<1>7. CASE Sh!AgentEnds \/ UNCHANGED Sh!vars
  BY <1>7 DEF Sh!AgentEnds, Sh!vars, Sh!Protocol!vars
<1>8. ASSUME NEW r \in Sh!Requests, Sh!Ask(r) PROVE Sh!Protocol!Ask
  BY <1>8, ShProtocolWaits DEF Sh!Ask, Sh!NoReply, Sh!Protocol!Ask, Sh!Protocol!NoReply
<1>. QED
  BY <1>2, <1>3, <1>4, <1>5, <1>6, <1>7, <1>8 DEF Sh!Next, Sh!Handle, Sh!Protocol!Next

-----------------------------------------------------------------------------
(* The certificates                                                        *)

LEMMA CertBounds ==
    ASSUME Certs!ConstantsOK
    PROVE  MaxTime \in Nat /\ MaxEdits \in Nat /\ MaxCertFaults \in Nat
BY DEF Certs!ConstantsOK

LEMMA NoBundleType ==
    ASSUME Certs!ConstantsOK
    PROVE  Certs!NoCerts \in Certs!Certs /\ Certs!NoBundle \in Certs!Bundles
<1>1. 0 \in Certs!Times
  BY CertBounds DEF Certs!Times
<1>2. Certs!NoCerts \in Certs!Certs
  BY <1>1 DEF Certs!NoCerts, Certs!Certs
<1>. QED
  BY <1>1, <1>2 DEF Certs!NoBundle, Certs!Bundles

Transfers ==
  [step : {"off", "pull", "check", "join", "push"}, given : SUBSET Feeders, left : SUBSET Feeders]

LEMMA CertsInit == ASSUME Certs!ConstantsOK, Certs!Init PROVE Certs!TypeOK
<1>1. 0 \in Certs!Times /\ 0 \in 0..MaxEdits /\ 0 \in 0..MaxCertFaults
  BY CertBounds DEF Certs!Times
<1>2. Certs!Off \in Transfers
  BY DEF Certs!Off, Transfers
<1>3. atFeeder \in [Feeders -> Certs!Bundles]
  BY NoBundleType DEF Certs!Init
<1>. QED
  BY <1>1, <1>2, <1>3, NoBundleType DEF Certs!Init, Certs!TypeOK, Transfers

LEMMA CertsStep == ASSUME Certs!ConstantsOK, Certs!TypeOK, [Certs!Next]_(Certs!vars) PROVE Certs!TypeOK'
<1>. USE CertBounds
<1>1. /\ clock \in Certs!Times /\ certs \in Certs!Certs /\ copy \in Certs!Certs /\ attached \in SUBSET Feeders
      /\ bundle \in Certs!Bundles /\ atFeeder \in [Feeders -> Certs!Bundles] /\ transfer \in Transfers
      /\ edits \in 0..MaxEdits /\ faults \in 0..MaxCertFaults
  BY DEF Certs!TypeOK, Transfers
<1>2. Certs!Off \in Transfers
  BY DEF Certs!Off, Transfers
<1>3. Certs!Fault \/ UNCHANGED faults => faults' \in 0..MaxCertFaults
  BY <1>1 DEF Certs!Fault
<1>4. Certs!Tick => clock + 1 \in Certs!Times /\ clock' \in Certs!Times
  BY <1>1 DEF Certs!Tick, Certs!Times
<1>5. \A f \in Feeders : Certs!Through(f) \in Transfers
  BY <1>1 DEF Certs!Through, Transfers
<1>6. ASSUME NEW h \in Certs!Hubs, Certs!MakeCert(h) PROVE Certs!TypeOK'
  <2>1. certs' \in Certs!Certs /\ copy' \in Certs!Certs
    BY <1>1, <1>4, <1>6 DEF Certs!MakeCert, Certs!Certs
  <2>. QED
    BY <1>1, <1>4, <1>6, <2>1 DEF Certs!MakeCert, Certs!TypeOK, Transfers
<1>7. ASSUME NEW f \in Feeders, Certs!Attach(f) PROVE Certs!TypeOK'
  <2>1. edits' \in 0..MaxEdits /\ attached' \in SUBSET Feeders
    BY <1>1, <1>7 DEF Certs!Attach
  <2>. QED
    BY <1>1, <1>7, <2>1 DEF Certs!Attach, Certs!TypeOK, Transfers
<1>8. CASE Certs!Start
  <2>1. transfer' \in Transfers
    BY <1>1, <1>8 DEF Certs!Start, Transfers
  <2>. QED
    BY <1>1, <1>8, <2>1 DEF Certs!Start, Certs!TypeOK, Transfers
<1>9. ASSUME NEW f \in Feeders, Certs!Pull(f) PROVE Certs!TypeOK'
  <2>1. copy' \in Certs!Certs
    <3>1. \A h \in Certs!Hubs : certs[h] \in Certs!Times
      BY <1>1 DEF Certs!Certs
    <3>. QED
      BY <1>1, <1>9, <3>1 DEF Certs!Pull, Certs!Certs, Certs!Hubs
  <2>2. transfer' \in Transfers /\ faults' \in 0..MaxCertFaults
    BY <1>2, <1>3, <1>5, <1>9 DEF Certs!Pull
  <2>. QED
    BY <1>1, <1>9, <2>1, <2>2 DEF Certs!Pull, Certs!TypeOK, Transfers
<1>10. CASE Certs!Check
  <2>1. transfer' \in Transfers
    BY <1>1, <1>10 DEF Certs!Check, Transfers
  <2>2. clock' \in Certs!Times
    BY <1>1, <1>4, <1>10 DEF Certs!Check
  <2>3. bundle' \in Certs!Bundles
    BY <1>1, <1>4, <1>10, NoBundleType DEF Certs!Check, Certs!Bundles
  <2>. QED
    BY <1>1, <1>10, <2>1, <2>2, <2>3 DEF Certs!Check, Certs!TypeOK, Transfers
<1>11. CASE Certs!Join
  <2>1. transfer' \in Transfers
    BY <1>1, <1>11 DEF Certs!Join, Transfers
  <2>2. bundle' \in Certs!Bundles
    BY <1>1, <1>11 DEF Certs!Join, Certs!Bundles
  <2>. QED
    BY <1>1, <1>11, <2>1, <2>2 DEF Certs!Join, Certs!TypeOK, Transfers
<1>12. ASSUME NEW f \in Feeders, Certs!Push(f) PROVE Certs!TypeOK'
  <2>1. atFeeder' \in [Feeders -> Certs!Bundles]
    BY <1>1, <1>12 DEF Certs!Push
  <2>2. transfer' \in Transfers /\ faults' \in 0..MaxCertFaults
    BY <1>3, <1>5, <1>12 DEF Certs!Push
  <2>. QED
    BY <1>1, <1>12, <2>1, <2>2 DEF Certs!Push, Certs!TypeOK, Transfers
<1>13. CASE Certs!End \/ Certs!Kill
  <2>1. transfer' \in Transfers /\ faults' \in 0..MaxCertFaults
    BY <1>2, <1>3, <1>13 DEF Certs!End, Certs!Kill
  <2>. QED
    BY <1>1, <1>13, <2>1 DEF Certs!End, Certs!Kill, Certs!TypeOK, Transfers
<1>14. CASE UNCHANGED Certs!vars
  BY <1>14 DEF Certs!vars, Certs!TypeOK
<1>. QED
  BY <1>6, <1>7, <1>8, <1>9, <1>10, <1>11, <1>12, <1>13, <1>14 DEF Certs!Next, Certs!Script

-----------------------------------------------------------------------------
(* The accounts of the distributed clean up                                *)

(* Where the script is: not running, at the user of the superhub or at     *)
(* that of a feeder in the setup, at the one feeder it was asked for, at a *)
(* feeder that is set up on a terminal, before its list of feeders, or in  *)
(* the loop over them.                                                     *)
AtSuperhub ==
  /\ request.why = "setup" /\ request.at = 0 /\ request.ok
  /\ request.next \in {"hub status", "remote hubs", "role", "rights", "user"}
  /\ request.pw = setups + 1 /\ secret = 0
AtFeeder ==
  /\ request.why = "setup" /\ request.at > 0 /\ request.ok
  /\ request.next \in {"login", "role", "rights", "user", "write secret", "read secret", "check", "list"}
  /\ request.pw = setups /\ account[Superhub] = setups /\ secret \in {0, setups}
AtOneFeeder ==
  /\ request.why = "one feeder" /\ request.at > 0 /\ request.ok
  /\ request.next \in {"login", "role", "rights", "user", "check", "list"}
  /\ request.pw = secret /\ secret # 0
OnTerminal ==
  /\ request.why = "terminal" /\ request.at > 0
  /\ request.next \in {"email", "login", "role", "rights", "user"}
  /\ request.pw <= setups
Beginning ==
  /\ request.why = "cleanup" /\ request.at = 0 /\ request.ok
  /\ request.next \in {"read secret", "check", "list"}
  /\ request.next # "read secret" => request.pw = secret /\ secret # 0
InLoop ==
  /\ request.why = "cleanup" /\ request.at > 0
  /\ request.next \in {"status", "query"} /\ request.pw <= setups

Place ==
  \/ request = Accounts!Off
  \/ AtSuperhub \/ AtFeeder \/ AtOneFeeder \/ OnTerminal \/ Beginning \/ InLoop

(* Passwords are numbers of setups, and the file has the superhub's.       *)
OldPasswords == secret <= setups /\ \A x \in Feeders \cup {Superhub} : account[x] <= setups
FileFits == secret # 0 => account[Superhub] = secret

AccountsInv == Accounts!TypeOK /\ OldPasswords /\ FileFits /\ Place

LEMMA AccountsTypes ==
    ASSUME Accounts!ConstantsOK, Accounts!TypeOK
    PROVE  /\ setups \in Nat /\ secret \in Nat /\ requestFaults \in Nat /\ MaxSetups \in Nat
           /\ request.pw \in Nat /\ request.at \in Nat /\ request.at <= Len(HubList) /\ Len(HubList) \in Nat
           /\ request.ok \in BOOLEAN
           /\ \A x \in Feeders \cup {Superhub} : account[x] \in Nat
           /\ Accounts!hub \in Feeders \cup {Superhub}
           /\ request.at > 0 => Accounts!hub = HubList[request.at] /\ Accounts!hub \in Feeders
           /\ request.at = 0 => Accounts!hub = Superhub
           /\ Superhub \notin Feeders
<1>1. /\ Len(HubList) \in Nat /\ \A i \in 1..Len(HubList) : HubList[i] \in Feeders
  BY DEF Accounts!ConstantsOK
<1>2. request.at \in 0..Len(HubList) /\ request.pw \in 0..MaxSetups /\ request.ok \in BOOLEAN
  BY DEF Accounts!TypeOK
<1>3. /\ MaxSetups \in Nat /\ MaxAccountFaults \in Nat /\ Superhub \notin Feeders
      /\ setups \in 0..MaxSetups /\ secret \in 0..MaxSetups /\ requestFaults \in 0..MaxAccountFaults
  BY DEF Accounts!ConstantsOK, Accounts!TypeOK
<1>4. \A x \in Feeders \cup {Superhub} : account[x] \in Nat
  <2>1. account \in [Feeders \cup {Superhub} -> 0..MaxSetups]
    BY DEF Accounts!TypeOK
  <2>. QED
    BY <1>3, <2>1
<1>5. /\ request.at > 0 => Accounts!hub = HubList[request.at] /\ Accounts!hub \in Feeders
      /\ request.at = 0 => Accounts!hub = Superhub
  <2>1. request.at > 0 => request.at \in 1..Len(HubList) /\ request.at # 0
    BY <1>1, <1>2
  <2>. QED
    BY <1>1, <2>1 DEF Accounts!hub
<1>. QED
  BY <1>1, <1>2, <1>3, <1>4, <1>5

LEMMA AccountsFault ==
    ASSUME Accounts!ConstantsOK, Accounts!TypeOK, Accounts!Fault \/ Accounts!NoFault
    PROVE  requestFaults' \in 0..MaxAccountFaults
<1>1. requestFaults \in 0..MaxAccountFaults /\ MaxAccountFaults \in Nat
  BY DEF Accounts!ConstantsOK, Accounts!TypeOK
<1>. QED
  BY <1>1 DEF Accounts!Fault, Accounts!NoFault

Scripts ==
  [next : Accounts!Requests, at : 0..Len(HubList), pw : 0..MaxSetups, ok : BOOLEAN,
   why : {"setup", "one feeder", "terminal", "cleanup"}]

LEMMA ScriptType ==
    ASSUME Accounts!ConstantsOK, Accounts!TypeOK
    PROVE  /\ request \in Scripts
           /\ \A to \in Accounts!Requests : [request EXCEPT !.next = to] \in Scripts
<1>1. request \in Scripts
  BY DEF Accounts!TypeOK, Scripts
<1>. QED
  BY <1>1 DEF Scripts

LEMMA OffType == ASSUME Accounts!ConstantsOK PROVE Accounts!Off \in Scripts
<1>1. 0 \in 0..Len(HubList) /\ 0 \in 0..MaxSetups
  BY DEF Accounts!ConstantsOK
<1>2. "off" \in Accounts!Requests
  BY DEF Accounts!Requests
<1>3. TRUE \in BOOLEAN /\ "setup" \in {"setup", "one feeder", "terminal", "cleanup"}
  OBVIOUS
<1>. QED
  BY <1>1, <1>2, <1>3 DEF Accounts!Off, Scripts

LEMMA AccountsInit == ASSUME Accounts!ConstantsOK, Accounts!Init PROVE AccountsInv
<1>1. 0 \in 0..MaxSetups /\ 0 \in 0..MaxAccountFaults
  BY DEF Accounts!ConstantsOK
<1>2. account \in [Feeders \cup {Superhub} -> 0..MaxSetups]
  BY <1>1 DEF Accounts!Init
<1>3. request \in Scripts /\ secret \in 0..MaxSetups /\ setups \in 0..MaxSetups
      /\ requestFaults \in 0..MaxAccountFaults
  BY <1>1, OffType DEF Accounts!Init
<1>4. Accounts!TypeOK
  BY <1>2, <1>3 DEF Accounts!TypeOK, Scripts
<1>. QED
  BY <1>4 DEF Accounts!Init, AccountsInv, OldPasswords, FileFits, Place

(* A step that changes neither users nor the password file.                *)
LEMMA AccountsStay ==
    ASSUME Accounts!ConstantsOK, AccountsInv, UNCHANGED <<account, secret, setups>>,
           request' \in Scripts, Accounts!Fault \/ Accounts!NoFault, Place'
    PROVE  AccountsInv'
<1>1. requestFaults' \in 0..MaxAccountFaults
  BY AccountsFault DEF AccountsInv
<1>2. Accounts!TypeOK'
  BY <1>1 DEF AccountsInv, Accounts!TypeOK, Scripts
<1>. QED
  BY <1>2 DEF AccountsInv, OldPasswords, FileFits

LEMMA ExitStay ==
    ASSUME Accounts!ConstantsOK, AccountsInv, UNCHANGED <<account, secret, setups>>, Accounts!Exits
    PROVE  AccountsInv'
BY AccountsStay, OffType DEF Accounts!Exits, Place

LEMMA RequestStep ==
    ASSUME Accounts!ConstantsOK, AccountsInv,
           \/ Accounts!HubStatus \/ Accounts!RemoteHubs \/ Accounts!Login
           \/ Accounts!PutRole \/ Accounts!PutRights \/ Accounts!Email
    PROVE  AccountsInv'
<1>1. ASSUME NEW this, NEW to \in Accounts!Requests, Accounts!Request(this, to),
             \/ this = "hub status" /\ to = "remote hubs"
             \/ this = "remote hubs" /\ to = "role"
             \/ this = "login" /\ to = "role"
             \/ this = "role" /\ to = "rights"
             \/ this = "rights" /\ to = "user"
             \/ this = "email" /\ to = "login"
      PROVE  AccountsInv'
  <2>1. request.next = this /\ UNCHANGED <<account, secret, setups>>
    BY <1>1 DEF Accounts!Request
  <2>2. CASE Accounts!Exits
    BY <2>1, <2>2, ExitStay
  <2>3. CASE Accounts!Goes(to)
    <3>1. request' = [request EXCEPT !.next = to] /\ request' \in Scripts /\ Accounts!NoFault
      BY <2>3, ScriptType DEF Accounts!Goes, AccountsInv
    <3>2. /\ request'.next = to /\ request'.at = request.at /\ request'.pw = request.pw
          /\ request'.ok = request.ok /\ request'.why = request.why
      BY <3>1, ScriptType DEF Scripts, AccountsInv
    <3>3. Accounts!hub' = Accounts!hub
      BY <3>2 DEF Accounts!hub
    <3>4. Place'
      <4>1. request # Accounts!Off /\ ~InLoop /\ ~Beginning
        <5>1. this \in {"hub status", "remote hubs", "login", "role", "rights", "email"}
          BY <1>1
        <5>2. request.next # "off" /\ Accounts!Off.next = "off"
          BY <2>1, <5>1 DEF Accounts!Off
        <5>. QED
          BY <2>1, <5>1, <5>2 DEF InLoop, Beginning
      <4>2. CASE AtSuperhub
        BY <1>1, <2>1, <3>2, <4>2 DEF AtSuperhub, Place
      <4>3. CASE AtFeeder
        BY <1>1, <2>1, <3>2, <4>3 DEF AtFeeder, Place
      <4>4. CASE AtOneFeeder
        BY <1>1, <2>1, <3>2, <4>4 DEF AtOneFeeder, Place
      <4>5. CASE OnTerminal
        BY <1>1, <2>1, <3>2, <3>3, <4>5 DEF OnTerminal, Place
      <4>. QED
        BY <4>1, <4>2, <4>3, <4>4, <4>5 DEF AccountsInv, Place
    <3>. QED
      BY <2>1, <3>1, <3>4, AccountsStay
  <2>. QED
    BY <1>1, <2>2, <2>3 DEF Accounts!Request
<1>2. {"remote hubs", "role", "rights", "user", "login"} \subseteq Accounts!Requests
  BY DEF Accounts!Requests
<1>. QED
  BY <1>1, <1>2 DEF Accounts!HubStatus, Accounts!RemoteHubs, Accounts!Login, Accounts!PutRole,
                    Accounts!PutRights, Accounts!Email

LEMMA OffNext == Accounts!Off.next = "off"
BY DEF Accounts!Off

LEMMA NextHubPlace ==
    ASSUME Accounts!ConstantsOK, Accounts!TypeOK, NEW ok \in BOOLEAN,
           request.pw <= setups, setups' = setups, request' = Accounts!NextHub(ok)
    PROVE  request' \in Scripts /\ Place'
<1>1. CASE request.at = Len(HubList)
  BY <1>1, OffType DEF Accounts!NextHub, Place
<1>2. CASE request.at # Len(HubList)
  <2>1. request' = [request EXCEPT !.next = "status", !.at = @ + 1, !.ok = ok, !.why = "cleanup"]
    BY <1>2 DEF Accounts!NextHub
  <2>2. request.at + 1 \in 0..Len(HubList) /\ request.at + 1 > 0
    BY <1>2, AccountsTypes
  <2>3. "status" \in Accounts!Requests
    BY DEF Accounts!Requests
  <2>4. request' \in Scripts
    BY <2>1, <2>2, <2>3, ScriptType DEF Scripts
  <2>5. request'.next = "status" /\ request'.at = request.at + 1 /\ request'.why = "cleanup"
        /\ request'.pw = request.pw
    BY <2>1, ScriptType DEF Scripts
  <2>6. InLoop'
    BY <2>2, <2>5 DEF InLoop
  <2>. QED
    BY <2>4, <2>6 DEF Place
<1>. QED
  BY <1>1, <1>2

LEMMA StartStep ==
    ASSUME Accounts!ConstantsOK, AccountsInv,
           \/ Accounts!StartSetup \/ Accounts!Start
           \/ \E i \in 1..Len(HubList) : Accounts!StartOneFeeder(i)
    PROVE  AccountsInv'
<1>1. request.next = "off" /\ UNCHANGED <<account, secret, setups, requestFaults>>
  BY DEF Accounts!StartSetup, Accounts!Start, Accounts!StartOneFeeder
<1>2. {"hub status", "read secret", "login"} \subseteq Accounts!Requests
  BY DEF Accounts!Requests
<1>3. CASE Accounts!StartSetup
  <2>1. secret = 0 /\ setups + 1 \in 0..MaxSetups
    BY <1>3, AccountsTypes DEF Accounts!StartSetup, AccountsInv
  <2>2. request' = [Accounts!Off EXCEPT !.next = "hub status", !.pw = setups + 1]
    BY <1>3 DEF Accounts!StartSetup
  <2>3. request' \in Scripts
    BY <1>2, <2>1, <2>2, OffType DEF Scripts
  <2>4. AtSuperhub'
    BY <1>1, <2>1, <2>2 DEF AtSuperhub, Accounts!Off
  <2>. QED
    BY <1>1, <2>3, <2>4, AccountsStay DEF Place, Accounts!NoFault
<1>4. CASE Accounts!Start
  <2>1. request' = [Accounts!Off EXCEPT !.next = "read secret", !.why = "cleanup"]
    BY <1>4 DEF Accounts!Start
  <2>2. request' \in Scripts
    BY <1>2, <2>1, OffType DEF Scripts
  <2>3. Beginning'
    BY <2>1 DEF Beginning, Accounts!Off
  <2>. QED
    BY <1>1, <2>2, <2>3, AccountsStay DEF Place, Accounts!NoFault
<1>5. ASSUME NEW i \in 1..Len(HubList), Accounts!StartOneFeeder(i) PROVE AccountsInv'
  <2>1. request' = [Accounts!Off EXCEPT !.next = "login", !.at = i, !.pw = secret, !.why = "one feeder"]
        /\ secret # 0
    BY <1>5 DEF Accounts!StartOneFeeder
  <2>2. i \in 0..Len(HubList) /\ i > 0 /\ secret \in 0..MaxSetups
    <3>1. Len(HubList) \in Nat
      BY AccountsTypes DEF AccountsInv
    <3>2. secret \in 0..MaxSetups
      BY DEF AccountsInv, Accounts!TypeOK
    <3>. QED
      BY <3>1, <3>2
  <2>3. request' \in Scripts
    BY <1>2, <2>1, <2>2, OffType DEF Scripts
  <2>4. AtOneFeeder'
    BY <1>1, <2>1, <2>2 DEF AtOneFeeder, Accounts!Off
  <2>. QED
    BY <1>1, <2>3, <2>4, AccountsStay DEF Place, Accounts!NoFault
<1>. QED
  BY <1>3, <1>4, <1>5

(* Who is given the password, and that it is no newer than the last setup. *)
LEMMA PutUserStep == ASSUME Accounts!ConstantsOK, AccountsInv, Accounts!PutUser PROVE AccountsInv'
<1>. USE AccountsTypes DEF AccountsInv
<1>1. PICK r \in Accounts!Responses :
        /\ \/ r \notin Accounts!Refusals /\ account' = [account EXCEPT ![Accounts!hub] = request.pw]
           \/ r # "201" /\ UNCHANGED account
        /\ IF Accounts!Done(r) THEN request' = Accounts!AfterUser /\ Accounts!NoFault ELSE Accounts!Exits
  BY DEF Accounts!PutUser
<1>2. /\ request.next = "user" /\ secret' = secret
      /\ setups' = IF request.at = 0 /\ account' # account THEN setups + 1 ELSE setups
  BY DEF Accounts!PutUser
<1>3. requestFaults' \in 0..MaxAccountFaults
  BY <1>1, AccountsFault DEF Accounts!Exits
<1>4. AtSuperhub \/ AtFeeder \/ AtOneFeeder \/ OnTerminal
  BY <1>2 DEF Place, Accounts!Off, Beginning, InLoop
<1>5. \/ account' = [account EXCEPT ![Accounts!hub] = request.pw]
      \/ account' = account /\ ~Accounts!Done(r)
  BY <1>1 DEF Accounts!Done
<1>6. account' \in [Feeders \cup {Superhub} -> 0..MaxSetups] /\ setups \in 0..MaxSetups
      /\ secret \in 0..MaxSetups /\ request.pw \in 0..MaxSetups
  BY <1>5, ScriptType DEF Accounts!TypeOK, Scripts
<1>7. request.at = 0 => account[Superhub] <= setups /\ request.pw = setups + 1
  BY <1>4 DEF AtSuperhub, AtFeeder, AtOneFeeder, OnTerminal, OldPasswords
<1>8. setups' \in {setups, setups + 1} /\ setups' \in 0..MaxSetups
  <2>1. request.at = 0 => setups + 1 \in 0..MaxSetups
    BY <1>6, <1>7
  <2>. QED
    BY <1>2, <1>6, <2>1
<1>9. request.at > 0 => request.pw <= setups
  BY <1>4 DEF AtSuperhub, AtFeeder, AtOneFeeder, OnTerminal, OldPasswords
<1>10. OldPasswords'
  <2>1. secret <= setups'
    BY <1>8 DEF OldPasswords
  <2>2. \A x \in Feeders \cup {Superhub} : account'[x] <= setups'
    <3>1. CASE account' = account
      BY <1>8, <3>1 DEF OldPasswords
    <3>2. CASE account' # account
      <4>1. account' = [account EXCEPT ![Accounts!hub] = request.pw]
        BY <1>5, <3>2
      <4>2. request.pw <= setups'
        BY <1>2, <1>7, <1>8, <1>9, <3>2
      <4>3. \A x \in Feeders \cup {Superhub} : account'[x] \in {account[x], request.pw}
        BY <4>1 DEF Accounts!TypeOK
      <4>4. \A x \in Feeders \cup {Superhub} : account[x] <= setups /\ account[x] \in Nat
        BY DEF OldPasswords
      <4>. QED
        BY <1>8, <4>2, <4>3, <4>4
    <3>. QED
      BY <3>1, <3>2
  <2>. QED
    BY <1>2, <2>1, <2>2 DEF OldPasswords
<1>11. FileFits'
  <2>1. CASE request.at = 0
    BY <1>2, <1>4, <2>1 DEF AtSuperhub, AtFeeder, AtOneFeeder, OnTerminal, FileFits
  <2>2. CASE request.at > 0
    BY <1>2, <1>5, <2>2 DEF FileFits, Accounts!TypeOK
  <2>. QED
    BY <2>1, <2>2
<1>12. request' \in Scripts /\ Place'
  <2>1. CASE ~Accounts!Done(r)
    BY <1>1, <2>1, OffType DEF Accounts!Exits, Place
  <2>2. CASE Accounts!Done(r)
    <3>1. request' = Accounts!AfterUser /\ account' = [account EXCEPT ![Accounts!hub] = request.pw]
      BY <1>1, <1>5, <2>2
    <3>2. {"login", "write secret", "check", "query"} \subseteq Accounts!Requests
      BY DEF Accounts!Requests
    <3>3. CASE AtSuperhub
      <4>1. request' = [request EXCEPT !.next = "login", !.at = 1]
        BY <3>1, <3>3 DEF AtSuperhub, Accounts!AfterUser
      <4>2. 1 \in 0..Len(HubList)
        BY DEF Accounts!ConstantsOK
      <4>3. request' \in Scripts
        BY <3>2, <4>1, <4>2, ScriptType DEF Scripts
      <4>4. /\ request'.next = "login" /\ request'.at = 1 /\ request'.why = request.why
            /\ request'.pw = request.pw /\ request'.ok = request.ok
        BY <4>1, ScriptType DEF Scripts
      <4>5. account'[Superhub] = request.pw /\ setups' = setups + 1
        <5>1. request.at = 0 /\ account'[Superhub] = request.pw
          BY <3>1, <3>3 DEF AtSuperhub, Accounts!TypeOK
        <5>2. account[Superhub] \in Nat /\ setups \in Nat
          OBVIOUS
        <5>3. account' # account
          BY <1>7, <5>1, <5>2
        <5>. QED
          BY <1>2, <5>1, <5>3
      <4>6. AtFeeder'
        BY <1>2, <3>3, <4>4, <4>5 DEF AtSuperhub, AtFeeder
      <4>. QED
        BY <4>3, <4>6 DEF Place
    <3>4. CASE AtFeeder
      <4>1. request' = [request EXCEPT !.next = "write secret"]
        BY <3>1, <3>4 DEF AtFeeder, Accounts!AfterUser
      <4>2. request' \in Scripts
        BY <3>2, <4>1, ScriptType
      <4>3. /\ request'.next = "write secret" /\ request'.at = request.at /\ request'.why = request.why
            /\ request'.pw = request.pw /\ request'.ok = request.ok
        BY <4>1, ScriptType DEF Scripts
      <4>4. account'[Superhub] = account[Superhub] /\ setups' = setups
        BY <1>2, <3>1, <3>4 DEF AtFeeder, Accounts!TypeOK
      <4>5. AtFeeder'
        BY <1>2, <3>4, <4>3, <4>4 DEF AtFeeder
      <4>. QED
        BY <4>2, <4>5 DEF Place
    <3>5. CASE AtOneFeeder
      <4>1. request' = [request EXCEPT !.next = "check"]
        BY <3>1, <3>5 DEF AtOneFeeder, Accounts!AfterUser
      <4>2. request' \in Scripts
        BY <3>2, <4>1, ScriptType
      <4>3. /\ request'.next = "check" /\ request'.at = request.at /\ request'.why = request.why
            /\ request'.pw = request.pw /\ request'.ok = request.ok
        BY <4>1, ScriptType DEF Scripts
      <4>4. AtOneFeeder'
        BY <1>2, <3>5, <4>3 DEF AtOneFeeder
      <4>. QED
        BY <4>2, <4>4 DEF Place
    <3>6. CASE OnTerminal
      <4>1. setups' = setups /\ request.pw <= setups
        BY <1>2, <3>6 DEF OnTerminal
      <4>2. CASE ~request.ok
        BY <3>1, <3>6, <4>1, <4>2, NextHubPlace DEF OnTerminal, Accounts!AfterUser
      <4>3. CASE request.ok
        <5>1. request' = [request EXCEPT !.next = "query", !.why = "cleanup"]
          BY <3>1, <3>6, <4>3 DEF OnTerminal, Accounts!AfterUser
        <5>2. request' \in Scripts
          BY <3>2, <5>1, ScriptType DEF Scripts
        <5>3. request'.next = "query" /\ request'.at = request.at /\ request'.why = "cleanup"
              /\ request'.pw = request.pw
          BY <5>1, ScriptType DEF Scripts
        <5>4. InLoop'
          BY <3>6, <4>1, <5>3 DEF OnTerminal, InLoop
        <5>. QED
          BY <5>2, <5>4 DEF Place
      <4>. QED
        BY <4>2, <4>3
    <3>. QED
      BY <1>4, <3>3, <3>4, <3>5, <3>6
  <2>. QED
    BY <2>1, <2>2
<1>13. Accounts!TypeOK'
  BY <1>2, <1>3, <1>6, <1>8, <1>12 DEF Accounts!TypeOK, Scripts
<1>. QED
  BY <1>10, <1>11, <1>12, <1>13

LEMMA WriteSecretStep == ASSUME Accounts!ConstantsOK, AccountsInv, Accounts!WriteSecret PROVE AccountsInv'
<1>. USE AccountsTypes DEF AccountsInv
<1>1. /\ request.next = "write secret" /\ UNCHANGED <<account, setups>>
      /\ (secret' = request.pw /\ Accounts!NoFault) \/ (UNCHANGED secret /\ Accounts!Fault)
  BY DEF Accounts!WriteSecret
<1>2. AtFeeder
  BY <1>1, OffNext DEF Place, AtSuperhub, AtOneFeeder, OnTerminal, Beginning, InLoop
<1>3. secret' \in {0, setups} /\ secret' \in 0..MaxSetups
  BY <1>1, <1>2 DEF AtFeeder, Accounts!TypeOK
<1>4. requestFaults' \in 0..MaxAccountFaults
  BY <1>1, AccountsFault
<1>5. request' \in Scripts /\ AtFeeder'
  <2>1. CASE request.at < Len(HubList)
    <3>1. request' = [request EXCEPT !.next = "login", !.at = @ + 1]
      BY <2>1 DEF Accounts!WriteSecret
    <3>2. request.at + 1 \in 0..Len(HubList) /\ request.at + 1 > 0
      BY <2>1
    <3>3. "login" \in Accounts!Requests
      BY DEF Accounts!Requests
    <3>4. request' \in Scripts
      BY <3>1, <3>2, <3>3, ScriptType DEF Scripts
    <3>5. /\ request'.next = "login" /\ request'.at = request.at + 1 /\ request'.why = request.why
          /\ request'.pw = request.pw /\ request'.ok = request.ok
      BY <3>1, ScriptType DEF Scripts
    <3>. QED
      BY <1>1, <1>2, <1>3, <3>2, <3>4, <3>5 DEF AtFeeder
  <2>2. CASE ~(request.at < Len(HubList))
    <3>1. request' = [request EXCEPT !.next = "read secret"]
      BY <2>2 DEF Accounts!WriteSecret
    <3>2. request' \in Scripts
      BY <3>1, ScriptType DEF Accounts!Requests
    <3>3. /\ request'.next = "read secret" /\ request'.at = request.at /\ request'.why = request.why
          /\ request'.pw = request.pw /\ request'.ok = request.ok
      BY <3>1, ScriptType DEF Scripts
    <3>. QED
      BY <1>1, <1>2, <1>3, <3>2, <3>3 DEF AtFeeder
  <2>. QED
    BY <2>1, <2>2
<1>6. Accounts!TypeOK'
  BY <1>1, <1>3, <1>4, <1>5 DEF Accounts!TypeOK, Scripts
<1>7. OldPasswords' /\ FileFits'
  <2>1. secret' <= setups
    BY <1>3
  <2>. QED
    BY <1>1, <1>2, <1>3, <2>1 DEF OldPasswords, FileFits, AtFeeder
<1>. QED
  BY <1>5, <1>6, <1>7 DEF Place

LEMMA RemoveSecretStep == ASSUME Accounts!ConstantsOK, AccountsInv, Accounts!RemoveSecret PROVE AccountsInv'
<1>. USE DEF AccountsInv
<1>1. /\ request.next = "off" /\ secret' = 0 /\ UNCHANGED <<account, setups, request, requestFaults>>
  BY DEF Accounts!RemoveSecret
<1>2. request = Accounts!Off
  BY <1>1 DEF Place, AtSuperhub, AtFeeder, AtOneFeeder, OnTerminal, Beginning, InLoop
<1>3. 0 \in 0..MaxSetups /\ 0 <= setups
  BY AccountsTypes
<1>. QED
  BY <1>1, <1>2, <1>3 DEF Place, OldPasswords, FileFits, Accounts!TypeOK

(* Reading the password file, trying the password, and asking for the list.*)
LEMMA BeginStep ==
    ASSUME Accounts!ConstantsOK, AccountsInv, Accounts!ReadSecret \/ Accounts!Check \/ Accounts!List
    PROVE  AccountsInv'
<1>. USE AccountsTypes DEF AccountsInv
<1>1. request.next \in {"read secret", "check", "list"} /\ UNCHANGED <<account, secret, setups>>
  BY DEF Accounts!ReadSecret, Accounts!Check, Accounts!List
<1>2. AtFeeder \/ AtOneFeeder \/ Beginning
  BY <1>1, OffNext DEF Place, AtSuperhub, OnTerminal, InLoop
<1>3. {"check", "list", "status"} \subseteq Accounts!Requests
  BY DEF Accounts!Requests
<1>4. CASE Accounts!Exits
  BY <1>1, <1>4, ExitStay
<1>5. CASE request' = [request EXCEPT !.next = "check", !.pw = secret] /\ secret # 0 /\ Accounts!NoFault
  <2>1. request' \in Scripts
    BY <1>3, <1>5, ScriptType DEF Scripts, Accounts!TypeOK
  <2>2. /\ request'.next = "check" /\ request'.at = request.at /\ request'.why = request.why
        /\ request'.pw = secret /\ request'.ok = request.ok
    BY <1>5, ScriptType DEF Scripts
  <2>3. AtFeeder' \/ AtOneFeeder' \/ Beginning'
    BY <1>1, <1>2, <1>5, <2>2 DEF AtFeeder, AtOneFeeder, Beginning
  <2>. QED
    BY <1>1, <1>5, <2>1, <2>3, AccountsStay DEF Place
<1>6. CASE Accounts!Check /\ Accounts!Goes("list")
  <2>1. request' = [request EXCEPT !.next = "list"] /\ Accounts!NoFault /\ request.next = "check"
    BY <1>6 DEF Accounts!Check, Accounts!Goes
  <2>2. request' \in Scripts
    BY <1>3, <2>1, ScriptType
  <2>3. /\ request'.next = "list" /\ request'.at = request.at /\ request'.why = request.why
        /\ request'.pw = request.pw /\ request'.ok = request.ok
    BY <2>1, ScriptType DEF Scripts
  <2>4. AtFeeder' \/ AtOneFeeder' \/ Beginning'
    BY <1>1, <1>2, <2>1, <2>3 DEF AtFeeder, AtOneFeeder, Beginning
  <2>. QED
    BY <1>1, <2>1, <2>2, <2>4, AccountsStay DEF Place
<1>7. CASE /\ request.next = "list" /\ Accounts!NoFault
           /\ request' = [request EXCEPT !.next = "status", !.at = 1, !.ok = TRUE, !.why = "cleanup"]
  <2>1. 1 \in 0..Len(HubList)
    BY DEF Accounts!ConstantsOK
  <2>2. request' \in Scripts
    BY <1>3, <1>7, <2>1, ScriptType DEF Scripts
  <2>3. request'.next = "status" /\ request'.at = 1 /\ request'.why = "cleanup" /\ request'.pw = request.pw
    BY <1>7, ScriptType DEF Scripts
  <2>4. request.pw <= setups
    BY <1>2, <1>7 DEF AtFeeder, AtOneFeeder, Beginning, OldPasswords
  <2>5. request'.pw <= setups' /\ request'.at > 0
    <3>1. setups' = setups /\ request'.pw = request.pw /\ request'.at = 1
      BY <1>1, <2>3
    <3>. QED
      BY <2>4, <3>1
  <2>6. InLoop'
    BY <2>3, <2>5 DEF InLoop
  <2>. QED
    BY <1>1, <1>7, <2>2, <2>6, AccountsStay DEF Place
<1>. QED
  BY <1>4, <1>5, <1>6, <1>7 DEF Accounts!ReadSecret, Accounts!Check, Accounts!List

LEMMA LoopStep ==
    ASSUME Accounts!ConstantsOK, AccountsInv, Accounts!Status \/ Accounts!Query
    PROVE  AccountsInv'
<1>. USE AccountsTypes DEF AccountsInv
<1>1. request.next \in {"status", "query"} /\ UNCHANGED <<account, secret, setups>>
  BY DEF Accounts!Status, Accounts!Query
<1>2. InLoop
  BY <1>1, OffNext DEF Place, AtSuperhub, AtFeeder, AtOneFeeder, OnTerminal, Beginning
<1>3. {"query", "email"} \subseteq Accounts!Requests
  BY DEF Accounts!Requests
<1>4. CASE Accounts!Exits
  BY <1>1, <1>4, ExitStay
<1>5. ASSUME NEW ok \in BOOLEAN, request' = Accounts!NextHub(ok), Accounts!Fault \/ Accounts!NoFault
      PROVE  AccountsInv'
  BY <1>1, <1>2, <1>5, NextHubPlace, AccountsStay DEF InLoop
<1>6. CASE request' = Accounts!Off /\ Accounts!Fault
  BY <1>1, <1>6, OffType, AccountsStay DEF Place
<1>7. CASE request' = [request EXCEPT !.next = "query", !.ok = TRUE] /\ Accounts!NoFault
  <2>1. request' \in Scripts
    BY <1>3, <1>7, ScriptType DEF Scripts
  <2>2. request'.next = "query" /\ request'.at = request.at /\ request'.why = request.why
        /\ request'.pw = request.pw
    BY <1>7, ScriptType DEF Scripts
  <2>3. InLoop'
    BY <1>1, <1>2, <2>2 DEF InLoop
  <2>. QED
    BY <1>1, <1>7, <2>1, <2>3, AccountsStay DEF Place
<1>8. CASE request' = [request EXCEPT !.next = "email", !.why = "terminal"] /\ Accounts!NoFault
  <2>1. request' \in Scripts
    BY <1>3, <1>8, ScriptType DEF Scripts
  <2>2. request'.next = "email" /\ request'.at = request.at /\ request'.why = "terminal"
        /\ request'.pw = request.pw
    BY <1>8, ScriptType DEF Scripts
  <2>3. OnTerminal'
    BY <1>1, <1>2, <1>8, <2>2 DEF InLoop, OnTerminal
  <2>. QED
    BY <1>1, <1>8, <2>1, <2>3, AccountsStay DEF Place
<1>9. CASE Accounts!Status
  <2>1. PICK r \in Accounts!StatusResponses :
          CASE r = "200" -> request' = [request EXCEPT !.next = "query", !.ok = TRUE] /\ Accounts!NoFault
            [] r \in Accounts!Refusals ->
                 \/ /\ request' = Accounts!NextHub(request.ok)
                    /\ IF Accounts!RightPassword THEN Accounts!Fault ELSE Accounts!NoFault
                 \/ /\ request' = [request EXCEPT !.next = "email", !.why = "terminal"]
                    /\ Accounts!NoFault
            [] r = "no connection" -> Accounts!Exits
            [] OTHER -> request' = Accounts!NextHub(FALSE) /\ Accounts!Fault
    BY <1>9 DEF Accounts!Status
  <2>2. "200" \notin Accounts!Refusals /\ "no connection" \notin Accounts!Refusals
    BY DEF Accounts!Refusals
  <2>3. CASE r = "200"
    <3>1. request' = [request EXCEPT !.next = "query", !.ok = TRUE] /\ Accounts!NoFault
      BY <2>1, <2>2, <2>3
    <3>. QED
      BY <1>7, <3>1
  <2>4. CASE r \in Accounts!Refusals
    <3>1. \/ /\ request' = Accounts!NextHub(request.ok)
             /\ Accounts!Fault \/ Accounts!NoFault
          \/ /\ request' = [request EXCEPT !.next = "email", !.why = "terminal"]
             /\ Accounts!NoFault
      BY <2>1, <2>2, <2>4
    <3>. QED
      BY <1>5, <1>8, <3>1 DEF Accounts!TypeOK
  <2>5. CASE r = "no connection" /\ r \notin Accounts!Refusals
    BY <1>4, <2>1, <2>5
  <2>6. CASE r \notin {"200", "no connection"} \cup Accounts!Refusals
    <3>1. request' = Accounts!NextHub(FALSE) /\ Accounts!Fault
      BY <2>1, <2>6
    <3>. QED
      BY <1>5, <3>1
  <2>. QED
    BY <2>3, <2>4, <2>5, <2>6
<1>10. CASE Accounts!Query
  BY <1>5, <1>6, <1>10 DEF Accounts!Query
<1>. QED
  BY <1>9, <1>10

LEMMA AccountsStep ==
    ASSUME Accounts!ConstantsOK, AccountsInv, [Accounts!Next]_(Accounts!vars)
    PROVE  AccountsInv'
<1>1. CASE Accounts!Kill
  BY <1>1, ExitStay DEF Accounts!Kill
<1>2. CASE UNCHANGED Accounts!vars
  BY <1>2, AccountsStay, ScriptType DEF Accounts!vars, AccountsInv, Place, Accounts!NoFault, Accounts!hub,
     AtSuperhub, AtFeeder, AtOneFeeder, OnTerminal, Beginning, InLoop
<1>. QED
  BY <1>1, <1>2, RequestStep, StartStep, PutUserStep, WriteSecretStep, RemoveSecretStep, BeginStep, LoopStep
     DEF Accounts!Next

-----------------------------------------------------------------------------
(* Its requests are steps of DistributedCleanup.                           *)

(* The script of DistributedCleanup while no host is picked.               *)
AbstractRunOf(step, at, pw, ok) ==
  [step |-> step, at |-> at, pw |-> pw, todo |-> {}, done |-> {}, ok |-> ok]

LEMMA IdleRun == Accounts!Cleanup!Idle = AbstractRunOf("idle", 1, 0, TRUE)
BY DEF Accounts!Cleanup!Idle, AbstractRunOf

LEMMA StepUpdate ==
    ASSUME NEW step, NEW at, NEW pw, NEW ok \in BOOLEAN, NEW to
    PROVE  [AbstractRunOf(step, at, pw, ok) EXCEPT !.step = to] = AbstractRunOf(to, at, pw, ok)
<1>. DEFINE e == [AbstractRunOf(step, at, pw, ok) EXCEPT !.step = to]
            f == AbstractRunOf(to, at, pw, ok)
<1>1. PICK S, A, P, E : step \in S /\ to \in S /\ at \in A /\ pw \in P /\ E = {{}}
  <2>1. step \in {step, to} /\ to \in {step, to}
    OBVIOUS
  <2>2. pw \in {pw}
    OBVIOUS
  <2>3. at \in {at}
    OBVIOUS
  <2>. QED
    BY <2>1, <2>2, <2>3
<1>2. /\ e \in [step : S, at : A, pw : P, todo : E, done : E, ok : BOOLEAN]
      /\ e.step = to /\ e.at = at /\ e.pw = pw /\ e.todo = {} /\ e.done = {} /\ e.ok = ok
  BY <1>1 DEF AbstractRunOf
<1>3. /\ f \in [step : S, at : A, pw : P, todo : E, done : E, ok : BOOLEAN]
      /\ f.step = to /\ f.at = at /\ f.pw = pw /\ f.todo = {} /\ f.done = {} /\ f.ok = ok
  BY <1>1 DEF AbstractRunOf
<1>. HIDE DEF e, f
<1>4. e = f
  BY <1>2, <1>3
<1>. QED
  BY <1>4 DEF e, f

LEMMA IdleUpdates ==
    ASSUME NEW to, NEW new
    PROVE  [Accounts!Cleanup!Idle EXCEPT !.step = to, !.pw = new] = AbstractRunOf(to, 1, new, TRUE)
<1>. DEFINE e == [Accounts!Cleanup!Idle EXCEPT !.step = to, !.pw = new]
            f == AbstractRunOf(to, 1, new, TRUE)
<1>1. PICK S, P, E : "idle" \in S /\ to \in S /\ 0 \in P /\ new \in P /\ E = {{}}
  <2>1. "idle" \in {"idle", to} /\ to \in {"idle", to} /\ 0 \in {0, new} /\ new \in {0, new}
    OBVIOUS
  <2>. QED
    BY <2>1
<1>2. /\ e \in [step : S, at : {1}, pw : P, todo : E, done : E, ok : BOOLEAN]
      /\ e.step = to /\ e.at = 1 /\ e.pw = new /\ e.todo = {} /\ e.done = {} /\ e.ok = TRUE
  BY <1>1 DEF Accounts!Cleanup!Idle
<1>3. /\ f \in [step : S, at : {1}, pw : P, todo : E, done : E, ok : BOOLEAN]
      /\ f.step = to /\ f.at = 1 /\ f.pw = new /\ f.todo = {} /\ f.done = {} /\ f.ok = TRUE
  BY <1>1 DEF AbstractRunOf
<1>. HIDE DEF e, f
<1>4. e = f
  BY <1>2, <1>3
<1>. QED
  BY <1>4 DEF e, f

(* What the script has done, in the terms of DistributedCleanup.           *)
NotBegun == ~Accounts!Started /\ Accounts!AbstractRun = Accounts!Cleanup!Idle
RunIs(step, at) ==
  /\ Accounts!Started
  /\ Accounts!AbstractRun = AbstractRunOf(step, at, request.pw, request.ok)

(* The script with another step and feeder.                                *)
LEMMA RunUpdates ==
    ASSUME NEW step, NEW at, RunIs(step, at), request.ok \in BOOLEAN, NEW to
    PROVE  /\ \A new : [Accounts!AbstractRun EXCEPT !.step = to, !.at = new]
                        = AbstractRunOf(to, new, request.pw, request.ok)
           /\ [Accounts!AbstractRun EXCEPT !.step = to, !.ok = TRUE] = AbstractRunOf(to, at, request.pw, TRUE)
<1>. DEFINE run == Accounts!AbstractRun
<1>. SUFFICES ASSUME NEW new
     PROVE  /\ [run EXCEPT !.step = to, !.at = new] = AbstractRunOf(to, new, request.pw, request.ok)
            /\ [run EXCEPT !.step = to, !.ok = TRUE] = AbstractRunOf(to, at, request.pw, TRUE)
  OBVIOUS
<1>1. PICK S, A, P, E : step \in S /\ to \in S /\ at \in A /\ new \in A /\ request.pw \in P /\ E = {{}}
  <2>1. step \in {step, to} /\ to \in {step, to}
    OBVIOUS
  <2>2. at \in {at, new} /\ new \in {at, new}
    OBVIOUS
  <2>3. request.pw \in {request.pw}
    OBVIOUS
  <2>. QED
    BY <2>1, <2>2, <2>3
<1>. DEFINE Runs == [step : S, at : A, pw : P, todo : E, done : E, ok : BOOLEAN]
<1>2. run \in Runs /\ run.step = step /\ run.at = at /\ run.pw = request.pw /\ run.todo = {}
        /\ run.done = {} /\ run.ok = request.ok
  BY <1>1 DEF RunIs, AbstractRunOf
<1>. HIDE DEF run
<1>3. [run EXCEPT !.step = to, !.at = new] = AbstractRunOf(to, new, request.pw, request.ok)
  <2>. DEFINE e == [run EXCEPT !.step = to, !.at = new]
              f == AbstractRunOf(to, new, request.pw, request.ok)
  <2>1. e \in Runs /\ e.step = to /\ e.at = new /\ e.pw = request.pw /\ e.todo = {}
        /\ e.done = {} /\ e.ok = request.ok
    BY <1>1, <1>2
  <2>2. f \in Runs /\ f.step = to /\ f.at = new /\ f.pw = request.pw /\ f.todo = {}
        /\ f.done = {} /\ f.ok = request.ok
    BY <1>1, <1>2 DEF AbstractRunOf
  <2>. HIDE DEF e, f
  <2>3. e = f
    BY <2>1, <2>2
  <2>. QED
    BY <2>3 DEF e, f
<1>4. [run EXCEPT !.step = to, !.ok = TRUE] = AbstractRunOf(to, at, request.pw, TRUE)
  <2>. DEFINE e == [run EXCEPT !.step = to, !.ok = TRUE]
              f == AbstractRunOf(to, at, request.pw, TRUE)
  <2>1. e \in Runs /\ e.step = to /\ e.at = at /\ e.pw = request.pw /\ e.todo = {}
        /\ e.done = {} /\ e.ok = TRUE
    BY <1>1, <1>2
  <2>2. f \in Runs /\ f.step = to /\ f.at = at /\ f.pw = request.pw /\ f.todo = {}
        /\ f.done = {} /\ f.ok = TRUE
    BY <1>1, <1>2 DEF AbstractRunOf
  <2>. HIDE DEF e, f
  <2>3. e = f
    BY <2>1, <2>2
  <2>. QED
    BY <2>3 DEF e, f
<1>. QED
  BY <1>3, <1>4 DEF run

Shown ==
  /\ request = Accounts!Off => NotBegun
  /\ request.why = "setup" /\ request.at = 0 => NotBegun
  /\ request.why = "setup" /\ request.at > 0 =>
       /\ request.next \in {"login", "role", "rights", "user"} => RunIs("setup", request.at)
       /\ request.next = "write secret" => RunIs("secret", request.at)
       /\ request.next = "read secret" => IF secret = 0 THEN NotBegun ELSE RunIs("status", 1)
       /\ request.next \in {"check", "list"} => RunIs("status", 1)
  /\ request.why = "one feeder" =>
       /\ request.next \in {"login", "role", "rights", "user"} => NotBegun
       /\ request.next \in {"check", "list"} => RunIs("status", 1)
  /\ request.why = "terminal" /\ request.next \in {"email", "login", "role", "rights", "user"} =>
       RunIs("status", request.at)
  /\ request.why = "cleanup" /\ request.next \in {"read secret", "check", "list"} => NotBegun
  /\ request.why = "cleanup" /\ request.next \in {"status", "query"} => RunIs(request.next, request.at)

LEMMA ShownNow == Shown
<1>. USE DEF NotBegun, RunIs, AbstractRunOf, Accounts!AbstractRun, Accounts!AbstractStep, Accounts!FirstAgain,
             Accounts!Cleanup!Idle
<1>1. request = Accounts!Off => NotBegun
  BY DEF Accounts!Off, Accounts!Started
<1>2. request.why = "setup" /\ request.at = 0 => NotBegun
  <2>1. request.at = 0 => ~(request.at > 0)
    OBVIOUS
  <2>. QED
    BY <2>1 DEF Accounts!Started
<1>3. request.why = "setup" /\ request.at > 0 =>
       /\ request.next \in {"login", "role", "rights", "user"} => RunIs("setup", request.at)
       /\ request.next = "write secret" => RunIs("secret", request.at)
       /\ request.next = "read secret" => IF secret = 0 THEN NotBegun ELSE RunIs("status", 1)
       /\ request.next \in {"check", "list"} => RunIs("status", 1)
  BY DEF Accounts!Started
<1>4. request.why = "one feeder" =>
       /\ request.next \in {"login", "role", "rights", "user"} => NotBegun
       /\ request.next \in {"check", "list"} => RunIs("status", 1)
  BY DEF Accounts!Started
<1>5. request.why = "terminal" /\ request.next \in {"email", "login", "role", "rights", "user"} =>
        RunIs("status", request.at)
  BY DEF Accounts!Started
<1>6. request.why = "cleanup" /\ request.next \in {"read secret", "check", "list"} => NotBegun
  BY DEF Accounts!Started
<1>7. request.why = "cleanup" /\ request.next \in {"status", "query"} => RunIs(request.next, request.at)
  BY DEF Accounts!Started
<1>. QED
  BY <1>1, <1>2, <1>3, <1>4, <1>5, <1>6, <1>7 DEF Shown

LEMMA ShownNext == Shown'
BY ShownNow, PTL

LEMMA AroundKept == UNCHANGED Accounts!Cleanup!around
BY DEF Accounts!Cleanup!around, Accounts!Cleanup!world, Accounts!Cleanup!feeders,
       Accounts!NoOne, Accounts!NoRows, Accounts!NoHosts, Accounts!NoDumps

LEMMA CleanupInit == ASSUME Accounts!Init PROVE Accounts!Cleanup!Init
<1>1. Accounts!AbstractRun = Accounts!Cleanup!Idle
  BY ShownNow DEF Accounts!Init, Shown, NotBegun
<1>. QED
  BY <1>1 DEF Accounts!Init, Accounts!Cleanup!Init, Accounts!Cleanup!Nothing,
     Accounts!NoOne, Accounts!NoRows, Accounts!NoHosts, Accounts!NoDumps
Simulated == [Accounts!Cleanup!Next]_(Accounts!Cleanup!vars)

LEMMA Stutters ==
    ASSUME UNCHANGED <<account, secret, setups, requestFaults>>,
           Accounts!AbstractRun' = Accounts!AbstractRun
    PROVE  Simulated
BY AroundKept DEF Simulated, Accounts!Cleanup!vars, Accounts!Cleanup!around, Accounts!Cleanup!accounts

(* A request that ends the script with nothing changed is a kill of it.    *)
LEMMA ExitSimulated ==
    ASSUME AccountsInv, UNCHANGED <<account, secret, setups>>, Accounts!Exits
    PROVE  Simulated
<1>1. request' = Accounts!Off
  BY DEF Accounts!Exits
<1>2. Accounts!AbstractRun' = Accounts!Cleanup!Idle
  BY <1>1, ShownNext DEF Shown, NotBegun, Accounts!Cleanup!Idle
<1>3. CASE ~Accounts!Started
  BY <1>2, <1>3, Stutters DEF Accounts!Exits, Accounts!NoFault, Accounts!AbstractRun, Accounts!Cleanup!Idle
<1>4. CASE Accounts!Started
  <2>1. Accounts!AbstractRun.step # "idle"
    BY <1>4 DEF Accounts!AbstractRun, Accounts!AbstractStep
  <2>2. Accounts!Cleanup!Fault
    BY <1>4 DEF Accounts!Exits, Accounts!Fault, Accounts!Cleanup!Fault
  <2>3. Accounts!Cleanup!Kill
    BY <1>2, <2>1, <2>2, AroundKept DEF Accounts!Cleanup!Kill, Accounts!Cleanup!accounts
  <2>. QED
    BY <2>3 DEF Simulated, Accounts!Cleanup!Next
<1>. QED
  BY <1>3, <1>4

LEMMA RequestSimulated ==
    ASSUME Accounts!ConstantsOK, AccountsInv,
           \/ Accounts!HubStatus \/ Accounts!RemoteHubs \/ Accounts!Login
           \/ Accounts!PutRole \/ Accounts!PutRights \/ Accounts!Email
    PROVE  Simulated
<1>. USE DEF AccountsInv
<1>1. ASSUME NEW this, NEW to, Accounts!Request(this, to),
             \/ this = "hub status" /\ to = "remote hubs"
             \/ this = "remote hubs" /\ to = "role"
             \/ this = "login" /\ to = "role"
             \/ this = "role" /\ to = "rights"
             \/ this = "rights" /\ to = "user"
             \/ this = "email" /\ to = "login"
      PROVE  Simulated
  <2>1. request.next = this /\ UNCHANGED <<account, secret, setups>>
    BY <1>1 DEF Accounts!Request
  <2>2. CASE Accounts!Exits
    BY <2>1, <2>2, ExitSimulated
  <2>3. CASE Accounts!Goes(to)
    <3>1. request' = [request EXCEPT !.next = to] /\ requestFaults' = requestFaults
      BY <2>3 DEF Accounts!Goes, Accounts!NoFault
    <3>2. /\ request'.next = to /\ request'.at = request.at /\ request'.pw = request.pw
          /\ request'.ok = request.ok /\ request'.why = request.why
      BY <3>1, ScriptType DEF Scripts
    <3>3. Accounts!AbstractRun' = Accounts!AbstractRun
      <4>. USE DEF Accounts!AbstractRun, Accounts!Started, Accounts!AbstractStep, Accounts!FirstAgain
      <4>1. CASE AtSuperhub
        <5>1. ~Accounts!Started /\ ~Accounts!Started'
          BY <3>2, <4>1, ShownNow, ShownNext DEF Shown, NotBegun, AtSuperhub
        <5>. QED
          BY <5>1
      <4>2. CASE AtFeeder
        <5>1. /\ request.why = "setup" /\ request.at > 0 /\ this \in {"login", "role", "rights"}
              /\ to \in {"role", "rights", "user"}
          BY <1>1, <2>1, <4>2 DEF AtFeeder
        <5>. QED
          BY <2>1, <3>2, <5>1
      <4>3. CASE AtOneFeeder
        BY <1>1, <2>1, <3>2, <4>3 DEF AtOneFeeder
      <4>4. CASE OnTerminal
        BY <1>1, <2>1, <3>2, <4>4 DEF OnTerminal
      <4>. QED
        BY <1>1, <2>1, <4>1, <4>2, <4>3, <4>4, OffNext DEF Place, Beginning, InLoop
    <3>. QED
      BY <2>1, <3>1, <3>3, Stutters
  <2>. QED
    BY <1>1, <2>2, <2>3 DEF Accounts!Request
<1>. QED
  BY <1>1 DEF Accounts!HubStatus, Accounts!RemoteHubs, Accounts!Login, Accounts!PutRole,
              Accounts!PutRights, Accounts!Email

LEMMA StartSimulated ==
    ASSUME Accounts!ConstantsOK, AccountsInv,
           \/ Accounts!StartSetup \/ Accounts!Start
           \/ \E i \in 1..Len(HubList) : Accounts!StartOneFeeder(i)
    PROVE  Simulated
<1>1. request.next = "off" /\ UNCHANGED <<account, secret, setups, requestFaults>>
  BY DEF Accounts!StartSetup, Accounts!Start, Accounts!StartOneFeeder
<1>2. ~Accounts!Started
  <2>1. request = Accounts!Off
    BY <1>1 DEF AccountsInv, Place, AtSuperhub, AtFeeder, AtOneFeeder, OnTerminal, Beginning, InLoop
  <2>. QED
    BY <2>1, ShownNow DEF Shown, NotBegun
<1>3. ~Accounts!Started'
  <2>1. CASE Accounts!StartSetup
    <3>1. request'.why = "setup" /\ request'.at = 0
      BY <2>1 DEF Accounts!StartSetup, Accounts!Off
    <3>2. ~(request'.at > 0)
      BY <3>1
    <3>. QED
      BY <3>1, <3>2 DEF Accounts!Started
  <2>2. CASE Accounts!Start
    BY <2>2 DEF Accounts!Start, Accounts!Off, Accounts!Started
  <2>3. CASE \E i \in 1..Len(HubList) : Accounts!StartOneFeeder(i)
    BY <2>3 DEF Accounts!StartOneFeeder, Accounts!Off, Accounts!Started
  <2>. QED
    BY <2>1, <2>2, <2>3
<1>. QED
  BY <1>1, <1>2, <1>3, Stutters DEF Accounts!AbstractRun

(* The next feeder of the list is the next one of DistributedCleanup.      *)
LEMMA NextHubSame ==
    ASSUME Accounts!ConstantsOK, AccountsInv, OnTerminal \/ InLoop,
           NEW ok \in BOOLEAN, request' = Accounts!NextHub(ok)
    PROVE  Accounts!AbstractRun' = Accounts!Cleanup!NextHub(ok)
<1>. USE AccountsTypes DEF AccountsInv
<1>1. Accounts!Started /\ \E s : RunIs(s, request.at)
  BY ShownNow DEF Shown, RunIs, OnTerminal, InLoop
<1>2. /\ Accounts!AbstractRun.at = request.at
      /\ DOMAIN Accounts!AbstractRun = {"step", "at", "pw", "todo", "done", "ok"}
      /\ Accounts!AbstractRun.pw = request.pw /\ Accounts!AbstractRun.todo = {}
      /\ Accounts!AbstractRun.done = {}
  BY <1>1 DEF RunIs, AbstractRunOf
<1>3. CASE request.at = Len(HubList)
  <2>1. request' = Accounts!Off
    BY <1>3 DEF Accounts!NextHub
  <2>2. Accounts!AbstractRun' = Accounts!Cleanup!Idle
    BY <2>1, ShownNext DEF Shown, NotBegun
  <2>. QED
    BY <1>2, <1>3, <2>2 DEF Accounts!Cleanup!NextHub
<1>4. CASE request.at # Len(HubList)
  <2>1. request' = [request EXCEPT !.next = "status", !.at = @ + 1, !.ok = ok, !.why = "cleanup"]
    BY <1>4 DEF Accounts!NextHub
  <2>2. /\ request'.next = "status" /\ request'.at = request.at + 1 /\ request'.why = "cleanup"
        /\ request'.pw = request.pw /\ request'.ok = ok
    BY <2>1, ScriptType DEF Scripts
  <2>3. Accounts!AbstractRun' = [step |-> "status", at |-> request.at + 1, pw |-> request.pw,
                                 todo |-> {}, done |-> {}, ok |-> ok]
    BY <2>2 DEF Accounts!AbstractRun, Accounts!Started, Accounts!AbstractStep, Accounts!FirstAgain
  <2>. QED
    BY <1>1, <1>2, <1>4, <2>3 DEF Accounts!Cleanup!NextHub, RunIs, AbstractRunOf
<1>. QED
  BY <1>3, <1>4

LEMMA PutUserSimulated ==
    ASSUME Accounts!ConstantsOK, AccountsInv, AccountsInv', Accounts!PutUser
    PROVE  Simulated
<1>. USE AccountsTypes DEF AccountsInv
<1>1. PICK r \in Accounts!Responses :
        /\ \/ r \notin Accounts!Refusals /\ account' = [account EXCEPT ![Accounts!hub] = request.pw]
           \/ r # "201" /\ UNCHANGED account
        /\ IF Accounts!Done(r) THEN request' = Accounts!AfterUser /\ Accounts!NoFault ELSE Accounts!Exits
  BY DEF Accounts!PutUser
<1>2. /\ request.next = "user" /\ secret' = secret
      /\ setups' = IF request.at = 0 /\ account' # account THEN setups + 1 ELSE setups
  BY DEF Accounts!PutUser
<1>3. AtSuperhub \/ AtFeeder \/ AtOneFeeder \/ OnTerminal
  BY <1>2, OffNext DEF Place, Beginning, InLoop
<1>4. \/ account' = [account EXCEPT ![Accounts!hub] = request.pw]
      \/ account' = account /\ ~Accounts!Done(r)
  BY <1>1 DEF Accounts!Done
<1>5. CASE account' = account /\ ~Accounts!Done(r)
  BY <1>1, <1>2, <1>5, ExitSimulated
<1>6. CASE /\ account' = [account EXCEPT ![Accounts!hub] = request.pw] /\ account' # account
           /\ ~Accounts!Done(r)
  <2>1. request' = Accounts!Off /\ Accounts!Cleanup!Fault
    BY <1>1, <1>6 DEF Accounts!Exits, Accounts!Fault, Accounts!Cleanup!Fault
  <2>2. Accounts!AbstractRun' = Accounts!Cleanup!Idle
    BY <2>1, ShownNext DEF Shown, NotBegun, Accounts!Cleanup!Idle
  <2>3. CASE AtSuperhub
    <3>1. setups < MaxSetups
      <4>1. request.pw = setups + 1
        BY <2>3 DEF AtSuperhub
      <4>2. request.pw \in 0..MaxSetups
        BY ScriptType DEF Scripts
      <4>. QED
        BY <4>1, <4>2
    <3>2. Accounts!AbstractRun = Accounts!Cleanup!Idle
      BY <2>3, ShownNow DEF Shown, NotBegun, AtSuperhub
    <3>3. account' = [account EXCEPT ![Superhub] = setups + 1] /\ secret = 0 /\ setups' = setups + 1
      BY <1>2, <1>6, <2>3 DEF AtSuperhub
    <3>4. Accounts!Cleanup!SetupSuperhub
      BY <1>2, <2>1, <2>2, <3>1, <3>2, <3>3, AroundKept
         DEF Accounts!Cleanup!SetupSuperhub, Accounts!Cleanup!WithHubAccount, Accounts!Cleanup!Idle
    <3>. QED
      BY <3>4 DEF Simulated, Accounts!Cleanup!Next
  <2>4. CASE AtFeeder
    <3>1. RunIs("setup", request.at)
      BY <1>2, <2>4, ShownNow DEF Shown, AtFeeder
    <3>2. account' = Accounts!Cleanup!WithAccount(HubList[request.at], request.pw) /\ setups' = setups
      BY <1>2, <1>6, <2>4 DEF AtFeeder, Accounts!Cleanup!WithAccount
    <3>3. Accounts!Cleanup!SetupFeeder
      BY <1>2, <2>1, <2>2, <3>1, <3>2, AroundKept DEF Accounts!Cleanup!SetupFeeder, RunIs, AbstractRunOf
    <3>. QED
      BY <3>3 DEF Simulated, Accounts!Cleanup!Next, Accounts!Cleanup!Script
  <2>5. CASE AtOneFeeder
    <3>1. Accounts!AbstractRun = Accounts!Cleanup!Idle
      BY <1>2, <2>5, ShownNow DEF Shown, NotBegun, AtOneFeeder
    <3>2. /\ account' = Accounts!Cleanup!WithAccount(Accounts!hub, secret) /\ setups' = setups /\ secret # 0
          /\ Accounts!hub \in Feeders
      BY <1>2, <1>6, <2>5 DEF AtOneFeeder, Accounts!Cleanup!WithAccount
    <3>3. account[Accounts!hub] # secret
      BY <1>6, <2>5 DEF AtOneFeeder, Accounts!TypeOK
    <3>4. Accounts!Cleanup!SetupOneFeeder(Accounts!hub)
      BY <1>2, <2>1, <2>2, <3>1, <3>2, <3>3, AroundKept
         DEF Accounts!Cleanup!SetupOneFeeder, Accounts!Cleanup!Idle
    <3>. QED
      BY <3>2, <3>4 DEF Simulated, Accounts!Cleanup!Next
  <2>6. CASE OnTerminal
    <3>1. RunIs("status", request.at)
      BY <1>2, <2>6, ShownNow DEF Shown, OnTerminal
    <3>2. account' = Accounts!Cleanup!WithAccount(HubList[request.at], request.pw) /\ setups' = setups
      BY <1>2, <1>6, <2>6 DEF OnTerminal, Accounts!Cleanup!WithAccount
    <3>3. Accounts!Cleanup!StatusUnauthenticated
      BY <1>2, <2>1, <2>2, <3>1, <3>2, AroundKept
         DEF Accounts!Cleanup!StatusUnauthenticated, Accounts!Cleanup!hub, RunIs, AbstractRunOf
    <3>. QED
      BY <3>3 DEF Simulated, Accounts!Cleanup!Next, Accounts!Cleanup!Script
  <2>. QED
    BY <1>3, <2>3, <2>4, <2>5, <2>6
<1>7. CASE account' = [account EXCEPT ![Accounts!hub] = request.pw] /\ Accounts!Done(r)
  <2>1. request' = Accounts!AfterUser /\ requestFaults' = requestFaults
    BY <1>1, <1>7 DEF Accounts!NoFault
  <2>2. CASE AtSuperhub
    <3>1. setups < MaxSetups
      <4>1. request.pw = setups + 1
        BY <2>2 DEF AtSuperhub
      <4>2. request.pw \in 0..MaxSetups
        BY ScriptType DEF Scripts
      <4>. QED
        BY <4>1, <4>2
    <3>2. Accounts!AbstractRun = Accounts!Cleanup!Idle
      BY <2>2, ShownNow DEF Shown, NotBegun, AtSuperhub
    <3>3. account' = [account EXCEPT ![Superhub] = setups + 1] /\ secret = 0
      BY <1>7, <2>2 DEF AtSuperhub
    <3>4. setups' = setups + 1
      <4>1. account[Superhub] # setups + 1
        <5>1. account[Superhub] <= setups /\ account[Superhub] \in Nat
          BY DEF OldPasswords
        <5>. QED
          BY <5>1
      <4>2. account'[Superhub] = setups + 1
        BY <3>3 DEF Accounts!TypeOK
      <4>. QED
        BY <1>2, <2>2, <4>1, <4>2 DEF AtSuperhub
    <3>5. request' = [request EXCEPT !.next = "login", !.at = 1]
      BY <2>1, <2>2 DEF AtSuperhub, Accounts!AfterUser
    <3>6. /\ request'.next = "login" /\ request'.at = 1 /\ request'.why = "setup"
          /\ request'.pw = setups + 1 /\ request'.ok = TRUE
      BY <2>2, <3>5, ScriptType DEF Scripts, AtSuperhub
    <3>7. Accounts!AbstractRun' = [Accounts!Cleanup!Idle EXCEPT !.step = "setup", !.pw = setups + 1]
      <4>1. RunIs("setup", request.at)'
        <5>1. request'.at > 0
          BY <3>6
        <5>. QED
          BY <3>6, <5>1, ShownNext DEF Shown
      <4>2. Accounts!AbstractRun' = AbstractRunOf("setup", 1, setups + 1, TRUE)
        BY <3>6, <4>1 DEF RunIs
      <4>. QED
        BY <4>2, IdleUpdates
    <3>8. Accounts!Cleanup!SetupSuperhub
      BY <1>2, <2>1, <3>1, <3>2, <3>3, <3>4, <3>7, AroundKept
         DEF Accounts!Cleanup!SetupSuperhub, Accounts!Cleanup!WithHubAccount, Accounts!Cleanup!Idle,
             Accounts!Cleanup!NoFault
    <3>. QED
      BY <3>8 DEF Simulated, Accounts!Cleanup!Next
  <2>3. CASE AtFeeder
    <3>1. RunIs("setup", request.at)
      BY <1>2, <2>3, ShownNow DEF Shown, AtFeeder
    <3>2. account' = Accounts!Cleanup!WithAccount(HubList[request.at], request.pw) /\ setups' = setups
      BY <1>2, <1>7, <2>3 DEF AtFeeder, Accounts!Cleanup!WithAccount
    <3>3. request' = [request EXCEPT !.next = "write secret"]
      BY <2>1, <2>3 DEF AtFeeder, Accounts!AfterUser
    <3>4. /\ request'.next = "write secret" /\ request'.at = request.at /\ request'.why = "setup"
          /\ request'.pw = request.pw /\ request'.ok = request.ok /\ request'.at > 0
      BY <2>3, <3>3, ScriptType DEF Scripts, AtFeeder
    <3>5. Accounts!AbstractRun' = [Accounts!AbstractRun EXCEPT !.step = "secret"]
      <4>1. RunIs("secret", request.at)'
        BY <3>4, ShownNext DEF Shown
      <4>2. Accounts!AbstractRun' = AbstractRunOf("secret", request.at, request.pw, request.ok)
        BY <3>4, <4>1 DEF RunIs
      <4>. QED
        <5>1. [Accounts!AbstractRun EXCEPT !.step = "secret"]
                = AbstractRunOf("secret", request.at, request.pw, request.ok)
          BY <3>1, StepUpdate DEF RunIs
        <5>. QED
          BY <4>2, <5>1
    <3>6. Accounts!Cleanup!SetupFeeder
      BY <1>2, <2>1, <3>1, <3>2, <3>5, AroundKept
         DEF Accounts!Cleanup!SetupFeeder, RunIs, AbstractRunOf, Accounts!Cleanup!NoFault
    <3>. QED
      BY <3>6 DEF Simulated, Accounts!Cleanup!Next, Accounts!Cleanup!Script
  <2>4. CASE AtOneFeeder
    <3>1. Accounts!AbstractRun = Accounts!Cleanup!Idle
      BY <1>2, <2>4, ShownNow DEF Shown, NotBegun, AtOneFeeder
    <3>2. /\ account' = Accounts!Cleanup!WithAccount(Accounts!hub, secret) /\ setups' = setups /\ secret # 0
          /\ Accounts!hub \in Feeders
      BY <1>2, <1>7, <2>4 DEF AtOneFeeder, Accounts!Cleanup!WithAccount
    <3>3. request' = [request EXCEPT !.next = "check"]
      BY <2>1, <2>4 DEF AtOneFeeder, Accounts!AfterUser
    <3>4. /\ request'.next = "check" /\ request'.why = "one feeder" /\ request'.pw = secret
          /\ request'.ok = TRUE
      BY <2>4, <3>3, ScriptType DEF Scripts, AtOneFeeder
    <3>5. Accounts!AbstractRun' = [Accounts!Cleanup!Idle EXCEPT !.step = "status", !.pw = secret]
      <4>1. RunIs("status", 1)'
        BY <3>4, ShownNext DEF Shown
      <4>2. Accounts!AbstractRun' = AbstractRunOf("status", 1, secret, TRUE)
        BY <3>4, <4>1 DEF RunIs
      <4>. QED
        BY <4>2, IdleUpdates
    <3>6. CASE account[Accounts!hub] # secret
      <4>1. Accounts!Cleanup!SetupOneFeeder(Accounts!hub)
        BY <1>2, <2>1, <3>1, <3>2, <3>5, <3>6, AroundKept
           DEF Accounts!Cleanup!SetupOneFeeder, Accounts!Cleanup!Idle, Accounts!Cleanup!NoFault
      <4>. QED
        BY <3>2, <4>1 DEF Simulated, Accounts!Cleanup!Next
    <3>7. CASE account[Accounts!hub] = secret
      <4>1. account' = account
        BY <3>2, <3>7 DEF Accounts!Cleanup!WithAccount, Accounts!TypeOK
      <4>2. Accounts!Cleanup!Begin
        BY <1>2, <2>1, <3>1, <3>2, <3>5, <4>1, AroundKept
           DEF Accounts!Cleanup!Begin, Accounts!Cleanup!Idle, Accounts!Cleanup!accounts, FileFits
      <4>. QED
        BY <4>2 DEF Simulated, Accounts!Cleanup!Next
    <3>. QED
      BY <3>6, <3>7
  <2>5. CASE OnTerminal
    <3>1. RunIs("status", request.at)
      BY <1>2, <2>5, ShownNow DEF Shown, OnTerminal
    <3>2. account' = Accounts!Cleanup!WithAccount(HubList[request.at], request.pw) /\ setups' = setups
      BY <1>2, <1>7, <2>5 DEF OnTerminal, Accounts!Cleanup!WithAccount
    <3>3. Accounts!AbstractRun' = IF request.ok THEN [Accounts!AbstractRun EXCEPT !.step = "query"]
                                  ELSE Accounts!Cleanup!NextHub(FALSE)
      <4>1. CASE ~request.ok
        <5>1. request' = Accounts!NextHub(FALSE)
          BY <2>1, <2>5, <4>1 DEF OnTerminal, Accounts!AfterUser
        <5>. QED
          BY <2>5, <4>1, <5>1, NextHubSame DEF OnTerminal
      <4>2. CASE request.ok
        <5>1. request' = [request EXCEPT !.next = "query", !.why = "cleanup"]
          BY <2>1, <2>5, <4>2 DEF OnTerminal, Accounts!AfterUser
        <5>2. request'.next = "query" /\ request'.at = request.at /\ request'.why = "cleanup"
              /\ request'.pw = request.pw /\ request'.ok = request.ok
          BY <5>1, ScriptType DEF Scripts
        <5>. QED
          <6>1. RunIs("query", request.at)'
            BY <5>2, ShownNext DEF Shown
          <6>2. Accounts!AbstractRun' = AbstractRunOf("query", request.at, request.pw, request.ok)
            BY <5>2, <6>1 DEF RunIs
          <6>3. [Accounts!AbstractRun EXCEPT !.step = "query"]
                  = AbstractRunOf("query", request.at, request.pw, request.ok)
            BY <3>1, StepUpdate DEF RunIs
          <6>. QED
            BY <4>2, <6>2, <6>3
      <4>. QED
        BY <4>1, <4>2
    <3>4. Accounts!Cleanup!StatusUnauthenticated
      BY <1>2, <2>1, <3>1, <3>2, <3>3, AroundKept
         DEF Accounts!Cleanup!StatusUnauthenticated, Accounts!Cleanup!hub, RunIs, AbstractRunOf,
             Accounts!Cleanup!NoFault
    <3>. QED
      BY <3>4 DEF Simulated, Accounts!Cleanup!Next, Accounts!Cleanup!Script
  <2>. QED
    BY <1>3, <2>2, <2>3, <2>4, <2>5
<1>. QED
  BY <1>4, <1>5, <1>6, <1>7

LEMMA WriteSecretSimulated ==
    ASSUME Accounts!ConstantsOK, AccountsInv, Accounts!WriteSecret
    PROVE  Simulated
<1>. USE AccountsTypes DEF AccountsInv
<1>1. /\ request.next = "write secret" /\ UNCHANGED <<account, setups>>
      /\ (secret' = request.pw /\ Accounts!NoFault) \/ (UNCHANGED secret /\ Accounts!Fault)
  BY DEF Accounts!WriteSecret
<1>2. AtFeeder
  BY <1>1, OffNext DEF Place, AtSuperhub, AtOneFeeder, OnTerminal, Beginning, InLoop
<1>3. RunIs("secret", request.at)
  BY <1>1, <1>2, ShownNow DEF Shown, AtFeeder
<1>4. /\ Accounts!AbstractRun = AbstractRunOf("secret", request.at, request.pw, request.ok)
      /\ Accounts!AbstractRun.step = "secret" /\ Accounts!AbstractRun.at = request.at
      /\ Accounts!AbstractRun.pw = request.pw
  BY <1>3 DEF RunIs, AbstractRunOf
<1>5. Accounts!AbstractRun' =
        IF request.at < Len(HubList) THEN [Accounts!AbstractRun EXCEPT !.step = "setup", !.at = @ + 1]
        ELSE IF secret' = 0 THEN Accounts!Cleanup!Idle
        ELSE [Accounts!AbstractRun EXCEPT !.step = "status", !.at = 1]
  <2>1. CASE request.at < Len(HubList)
    <3>1. request' = [request EXCEPT !.next = "login", !.at = @ + 1]
      BY <2>1 DEF Accounts!WriteSecret
    <3>2. /\ request'.next = "login" /\ request'.at = request.at + 1 /\ request'.why = "setup"
          /\ request'.pw = request.pw /\ request'.ok = request.ok
      BY <1>2, <3>1, ScriptType DEF Scripts, AtFeeder
    <3>3. request'.at > 0
      BY <3>2
    <3>4. RunIs("setup", request.at)'
      BY <3>2, <3>3, ShownNext DEF Shown
    <3>5. Accounts!AbstractRun' = AbstractRunOf("setup", request.at + 1, request.pw, request.ok)
      BY <3>2, <3>4 DEF RunIs
    <3>6. [Accounts!AbstractRun EXCEPT !.step = "setup", !.at = request.at + 1]
            = AbstractRunOf("setup", request.at + 1, request.pw, request.ok)
      BY <1>3, RunUpdates
    <3>7. [Accounts!AbstractRun EXCEPT !.step = "setup", !.at = @ + 1]
            = AbstractRunOf("setup", request.at + 1, request.pw, request.ok)
      BY <1>4, <3>6
    <3>. QED
      BY <2>1, <3>5, <3>7
  <2>2. CASE ~(request.at < Len(HubList))
    <3>1. request' = [request EXCEPT !.next = "read secret"]
      BY <2>2 DEF Accounts!WriteSecret
    <3>2. /\ request'.next = "read secret" /\ request'.at > 0 /\ request'.why = "setup"
          /\ request'.pw = request.pw /\ request'.ok = request.ok
      BY <1>2, <3>1, ScriptType DEF Scripts, AtFeeder
    <3>3. IF secret' = 0 THEN NotBegun' ELSE RunIs("status", 1)'
      BY <3>2, ShownNext DEF Shown
    <3>4. CASE secret' = 0
      BY <2>2, <3>3, <3>4 DEF NotBegun
    <3>5. CASE secret' # 0
      <4>1. Accounts!AbstractRun' = AbstractRunOf("status", 1, request.pw, request.ok)
        BY <3>2, <3>3, <3>5 DEF RunIs
      <4>2. [Accounts!AbstractRun EXCEPT !.step = "status", !.at = 1]
              = AbstractRunOf("status", 1, request.pw, request.ok)
        BY <1>3, RunUpdates
      <4>. QED
        BY <2>2, <3>5, <4>1, <4>2
    <3>. QED
      BY <3>4, <3>5
  <2>. QED
    BY <2>1, <2>2
<1>6. Accounts!Cleanup!WriteSecret
  BY <1>1, <1>4, <1>5, AroundKept
     DEF Accounts!Cleanup!WriteSecret, Accounts!NoFault, Accounts!Fault,
         Accounts!Cleanup!NoFault, Accounts!Cleanup!Fault
<1>. QED
  BY <1>6 DEF Simulated, Accounts!Cleanup!Next, Accounts!Cleanup!Script

LEMMA RemoveSecretSimulated ==
    ASSUME Accounts!ConstantsOK, AccountsInv, Accounts!RemoveSecret
    PROVE  Simulated
<1>1. /\ request.next = "off" /\ secret # 0 /\ setups < MaxSetups /\ secret' = 0
      /\ UNCHANGED <<account, setups, request, requestFaults>>
  BY DEF Accounts!RemoveSecret
<1>2. request = Accounts!Off /\ request' = Accounts!Off
  BY <1>1 DEF AccountsInv, Place, AtSuperhub, AtFeeder, AtOneFeeder, OnTerminal, Beginning, InLoop
<1>3. Accounts!AbstractRun = Accounts!Cleanup!Idle /\ Accounts!AbstractRun' = Accounts!Cleanup!Idle
  BY <1>2, ShownNow, ShownNext DEF Shown, NotBegun
<1>4. Accounts!Cleanup!RemoveSecret
  BY <1>1, <1>3, AroundKept DEF Accounts!Cleanup!RemoveSecret, Accounts!Cleanup!Idle
<1>. QED
  BY <1>4 DEF Simulated, Accounts!Cleanup!Next

(* The clean up begins with the list of feeders, or it has begun with the  *)
(* setup before.                                                           *)
LEMMA BeginSimulated ==
    ASSUME Accounts!ConstantsOK, AccountsInv, Accounts!ReadSecret \/ Accounts!Check \/ Accounts!List
    PROVE  Simulated
<1>. USE AccountsTypes DEF AccountsInv
<1>1. request.next \in {"read secret", "check", "list"} /\ UNCHANGED <<account, secret, setups>>
  BY DEF Accounts!ReadSecret, Accounts!Check, Accounts!List
<1>2. AtFeeder \/ AtOneFeeder \/ Beginning
  BY <1>1, OffNext DEF Place, AtSuperhub, OnTerminal, InLoop
<1>3. CASE Accounts!Exits
  BY <1>1, <1>3, ExitSimulated
<1>4. CASE /\ request.next = "read secret" /\ secret # 0 /\ Accounts!NoFault
           /\ request' = [request EXCEPT !.next = "check", !.pw = secret]
  <2>1. /\ request'.next = "check" /\ request'.at = request.at /\ request'.why = request.why
        /\ request'.pw = secret /\ request'.ok = request.ok
    BY <1>4, ScriptType DEF Scripts
  <2>2. Accounts!AbstractRun' = Accounts!AbstractRun
    <3>1. CASE AtFeeder
      <4>1. request.pw = secret
        BY <1>4, <3>1 DEF AtFeeder
      <4>2. RunIs("status", 1) /\ RunIs("status", 1)'
        BY <1>4, <2>1, <3>1, ShownNow, ShownNext DEF Shown, AtFeeder
      <4>. QED
        BY <2>1, <4>1, <4>2 DEF RunIs
    <3>2. CASE Beginning
      BY <1>4, <2>1, <3>2, ShownNow, ShownNext DEF Shown, NotBegun, Beginning
    <3>. QED
      BY <1>2, <1>4, <3>1, <3>2 DEF AtOneFeeder
  <2>. QED
    BY <1>1, <1>4, <2>2, Stutters DEF Accounts!NoFault
<1>5. CASE request.next = "check" /\ Accounts!Goes("list")
  <2>1. request' = [request EXCEPT !.next = "list"] /\ Accounts!NoFault
    BY <1>5 DEF Accounts!Goes
  <2>2. /\ request'.next = "list" /\ request'.at = request.at /\ request'.why = request.why
        /\ request'.pw = request.pw /\ request'.ok = request.ok
    BY <2>1, ScriptType DEF Scripts
  <2>3. Accounts!AbstractRun' = Accounts!AbstractRun
    <3>1. CASE AtFeeder \/ AtOneFeeder
      <4>1. RunIs("status", 1) /\ RunIs("status", 1)'
        BY <1>5, <2>2, <3>1, ShownNow, ShownNext DEF Shown, AtFeeder, AtOneFeeder
      <4>. QED
        BY <2>2, <4>1 DEF RunIs
    <3>2. CASE Beginning
      BY <1>5, <2>2, <3>2, ShownNow, ShownNext DEF Shown, NotBegun, Beginning
    <3>. QED
      BY <1>2, <3>1, <3>2
  <2>. QED
    BY <1>1, <2>1, <2>3, Stutters DEF Accounts!NoFault
<1>6. CASE /\ request.next = "list" /\ Accounts!NoFault
           /\ request' = [request EXCEPT !.next = "status", !.at = 1, !.ok = TRUE, !.why = "cleanup"]
  <2>1. /\ request'.next = "status" /\ request'.at = 1 /\ request'.why = "cleanup"
        /\ request'.pw = request.pw /\ request'.ok = TRUE
    BY <1>6, ScriptType DEF Scripts
  <2>2. RunIs("status", 1)'
    BY <2>1, ShownNext DEF Shown
  <2>3. Accounts!AbstractRun' = AbstractRunOf("status", 1, request.pw, TRUE)
    BY <2>1, <2>2 DEF RunIs
  <2>4. CASE AtFeeder \/ AtOneFeeder
    <3>1. RunIs("status", 1) /\ request.ok = TRUE
      BY <1>6, <2>4, ShownNow DEF Shown, AtFeeder, AtOneFeeder
    <3>2. Accounts!AbstractRun' = Accounts!AbstractRun
      BY <2>3, <3>1 DEF RunIs
    <3>. QED
      BY <1>1, <1>6, <3>2, Stutters DEF Accounts!NoFault
  <2>5. CASE Beginning
    <3>1. request.pw = secret /\ secret # 0 /\ account[Superhub] = secret
      BY <1>6, <2>5 DEF Beginning, FileFits
    <3>2. Accounts!AbstractRun = Accounts!Cleanup!Idle
      BY <1>6, <2>5, ShownNow DEF Shown, NotBegun, Beginning
    <3>3. Accounts!AbstractRun' = [Accounts!Cleanup!Idle EXCEPT !.step = "status", !.pw = secret]
      BY <2>3, <3>1, IdleUpdates
    <3>4. Accounts!Cleanup!Begin
      BY <1>1, <1>6, <3>1, <3>2, <3>3, AroundKept
         DEF Accounts!Cleanup!Begin, Accounts!Cleanup!Idle, Accounts!Cleanup!accounts, Accounts!NoFault
    <3>. QED
      BY <3>4 DEF Simulated, Accounts!Cleanup!Next
  <2>. QED
    BY <1>2, <2>4, <2>5
<1>. QED
  BY <1>3, <1>4, <1>5, <1>6 DEF Accounts!ReadSecret, Accounts!Check, Accounts!List

(* What a feeder's status leads to; hosts, and so candidates, are left to  *)
(* DistributedCleanup.                                                     *)
LEMMA StatusSimulated ==
    ASSUME Accounts!ConstantsOK, AccountsInv, Accounts!Status
    PROVE  Simulated
<1>. USE AccountsTypes DEF AccountsInv
<1>1. request.next = "status" /\ UNCHANGED <<account, secret, setups>>
  BY DEF Accounts!Status
<1>2. InLoop
  BY <1>1, OffNext DEF Place, AtSuperhub, AtFeeder, AtOneFeeder, OnTerminal, Beginning
<1>3. RunIs("status", request.at)
  BY <1>1, <1>2, ShownNow DEF Shown, InLoop
<1>4. /\ Accounts!AbstractRun.step = "status" /\ Accounts!AbstractRun.at = request.at
      /\ Accounts!AbstractRun.pw = request.pw /\ Accounts!AbstractRun.ok = request.ok
  BY <1>3 DEF RunIs, AbstractRunOf
<1>5. Accounts!Cleanup!hub = Accounts!hub
  BY <1>2, <1>4 DEF Accounts!Cleanup!hub, InLoop
<1>6. PICK r \in Accounts!StatusResponses :
        CASE r = "200" -> request' = [request EXCEPT !.next = "query", !.ok = TRUE] /\ Accounts!NoFault
          [] r \in Accounts!Refusals ->
               \/ /\ request' = Accounts!NextHub(request.ok)
                  /\ IF Accounts!RightPassword THEN Accounts!Fault ELSE Accounts!NoFault
               \/ /\ request' = [request EXCEPT !.next = "email", !.why = "terminal"]
                  /\ Accounts!NoFault
          [] r = "no connection" -> Accounts!Exits
          [] OTHER -> request' = Accounts!NextHub(FALSE) /\ Accounts!Fault
  BY DEF Accounts!Status
<1>7. /\ r = "200" => account[Accounts!hub] = request.pw
      /\ "200" \notin Accounts!Refusals /\ "no connection" \notin Accounts!Refusals
  BY DEF Accounts!StatusResponses, Accounts!RightPassword, Accounts!Refusals
<1>8. CASE r = "200"
  <2>1. request' = [request EXCEPT !.next = "query", !.ok = TRUE] /\ Accounts!NoFault
    BY <1>6, <1>7, <1>8
  <2>2. /\ request'.next = "query" /\ request'.at = request.at /\ request'.why = "cleanup"
        /\ request'.pw = request.pw /\ request'.ok = TRUE
    BY <1>2, <2>1, ScriptType DEF Scripts, InLoop
  <2>3. RunIs("query", request.at)'
    BY <2>2, ShownNext DEF Shown
  <2>4. Accounts!AbstractRun' = AbstractRunOf("query", request.at, request.pw, TRUE)
    BY <2>2, <2>3 DEF RunIs
  <2>5. Accounts!AbstractRun' = [Accounts!AbstractRun EXCEPT !.step = "query", !.ok = TRUE]
    <3>1. [Accounts!AbstractRun EXCEPT !.step = "query", !.ok = TRUE]
            = AbstractRunOf("query", request.at, request.pw, TRUE)
      BY <1>3, RunUpdates
    <3>. QED
      BY <2>4, <3>1
  <2>6. Accounts!Cleanup!StatusOk
    BY <1>1, <1>4, <1>5, <1>7, <1>8, <2>1, <2>5, AroundKept
       DEF Accounts!Cleanup!StatusOk, Accounts!Cleanup!accounts, Accounts!NoFault
  <2>. QED
    BY <2>6 DEF Simulated, Accounts!Cleanup!Next, Accounts!Cleanup!Script
<1>9. CASE r \in Accounts!Refusals
  <2>1. \/ /\ request' = Accounts!NextHub(request.ok)
           /\ IF Accounts!RightPassword THEN Accounts!Fault ELSE Accounts!NoFault
        \/ /\ request' = [request EXCEPT !.next = "email", !.why = "terminal"]
           /\ Accounts!NoFault
    BY <1>6, <1>7, <1>9
  <2>2. CASE /\ request' = Accounts!NextHub(request.ok)
             /\ IF Accounts!RightPassword THEN Accounts!Fault ELSE Accounts!NoFault
    <3>1. Accounts!AbstractRun' = Accounts!Cleanup!NextHub(Accounts!AbstractRun.ok)
      BY <1>2, <1>4, <2>2, NextHubSame
    <3>2. Accounts!Cleanup!StatusUnauthenticated
      BY <1>1, <1>4, <1>5, <2>2, <3>1, AroundKept
         DEF Accounts!Cleanup!StatusUnauthenticated, Accounts!RightPassword, Accounts!NoFault,
             Accounts!Cleanup!NoFault, Accounts!Fault, Accounts!Cleanup!Fault
    <3>. QED
      BY <3>2 DEF Simulated, Accounts!Cleanup!Next, Accounts!Cleanup!Script
  <2>3. CASE request' = [request EXCEPT !.next = "email", !.why = "terminal"] /\ Accounts!NoFault
    <3>1. /\ request'.next = "email" /\ request'.at = request.at /\ request'.why = "terminal"
          /\ request'.pw = request.pw /\ request'.ok = request.ok
      BY <2>3, ScriptType DEF Scripts
    <3>2. RunIs("status", request.at)'
      BY <3>1, ShownNext DEF Shown
    <3>3. Accounts!AbstractRun' = Accounts!AbstractRun
      BY <1>3, <3>1, <3>2 DEF RunIs
    <3>. QED
      BY <1>1, <2>3, <3>3, Stutters DEF Accounts!NoFault
  <2>. QED
    BY <2>1, <2>2, <2>3
<1>10. CASE r = "no connection" /\ r \notin Accounts!Refusals
  BY <1>1, <1>6, <1>10, ExitSimulated
<1>11. CASE r \notin {"200", "no connection"} \cup Accounts!Refusals
  <2>1. request' = Accounts!NextHub(FALSE) /\ Accounts!Fault
    BY <1>6, <1>11
  <2>2. Accounts!AbstractRun' = Accounts!Cleanup!NextHub(FALSE)
    BY <1>2, <2>1, NextHubSame
  <2>3. Accounts!Cleanup!StatusFails
    BY <1>1, <1>4, <2>1, <2>2, AroundKept
       DEF Accounts!Cleanup!StatusFails, Accounts!Cleanup!accounts, Accounts!Fault, Accounts!Cleanup!Fault
  <2>. QED
    BY <2>3 DEF Simulated, Accounts!Cleanup!Next, Accounts!Cleanup!Script
<1>. QED
  BY <1>8, <1>9, <1>10, <1>11

LEMMA QuerySimulated ==
    ASSUME Accounts!ConstantsOK, AccountsInv, Accounts!Query
    PROVE  Simulated
<1>. USE AccountsTypes DEF AccountsInv
<1>1. request.next = "query" /\ UNCHANGED <<account, secret, setups>>
  BY DEF Accounts!Query
<1>2. InLoop
  BY <1>1, OffNext DEF Place, AtSuperhub, AtFeeder, AtOneFeeder, OnTerminal, Beginning
<1>3. RunIs("query", request.at)
  BY <1>1, <1>2, ShownNow DEF Shown, InLoop
<1>4. Accounts!AbstractRun.step = "query" /\ Accounts!AbstractRun.at = request.at
  BY <1>3 DEF RunIs, AbstractRunOf
<1>5. CASE request' = Accounts!NextHub(TRUE) /\ Accounts!NoFault
  <2>1. Accounts!AbstractRun' = Accounts!Cleanup!NextHub(TRUE)
    BY <1>2, <1>5, NextHubSame
  <2>2. Accounts!Cleanup!Candidates(Accounts!Cleanup!hub) = {}
    BY <1>2, <1>4 DEF Accounts!Cleanup!Candidates, Accounts!Cleanup!hub, Accounts!NoHosts, InLoop
  <2>3. Accounts!Cleanup!Query
    BY <1>1, <1>4, <1>5, <2>1, <2>2, AroundKept
       DEF Accounts!Cleanup!Query, Accounts!Cleanup!accounts, Accounts!NoFault, Accounts!Cleanup!NoFault
  <2>. QED
    BY <2>3 DEF Simulated, Accounts!Cleanup!Next, Accounts!Cleanup!Script
<1>6. CASE request' \in {Accounts!NextHub(FALSE), Accounts!Off} /\ Accounts!Fault
  <2>1. Accounts!AbstractRun' \in {Accounts!Cleanup!NextHub(FALSE), Accounts!Cleanup!Idle}
    <3>1. CASE request' = Accounts!NextHub(FALSE)
      BY <1>2, <3>1, NextHubSame
    <3>2. CASE request' = Accounts!Off
      BY <3>2, ShownNext DEF Shown, NotBegun
    <3>. QED
      BY <1>6, <3>1, <3>2
  <2>2. Accounts!Cleanup!Query
    BY <1>1, <1>4, <1>6, <2>1, AroundKept
       DEF Accounts!Cleanup!Query, Accounts!Cleanup!accounts, Accounts!Fault, Accounts!Cleanup!Fault
  <2>. QED
    BY <2>2 DEF Simulated, Accounts!Cleanup!Next, Accounts!Cleanup!Script
<1>. QED
  BY <1>5, <1>6 DEF Accounts!Query

(* Each request is a step of DistributedCleanup, or none.                  *)
LEMMA AccountsSimulated ==
    ASSUME Accounts!ConstantsOK, AccountsInv, AccountsInv', [Accounts!Next]_(Accounts!vars)
    PROVE  Simulated
<1>1. CASE Accounts!Kill
  BY <1>1, ExitSimulated DEF Accounts!Kill
<1>2. CASE UNCHANGED Accounts!vars
  <2>1. UNCHANGED <<account, secret, setups, request, requestFaults>>
    BY <1>2 DEF Accounts!vars
  <2>2. Accounts!AbstractRun' = Accounts!AbstractRun
    BY <2>1 DEF Accounts!AbstractRun, Accounts!Started, Accounts!AbstractStep, Accounts!FirstAgain
  <2>. QED
    BY <2>1, <2>2, Stutters
<1>. QED
  BY <1>1, <1>2, RequestSimulated, StartSimulated, PutUserSimulated, WriteSecretSimulated,
     RemoveSecretSimulated, BeginSimulated, StatusSimulated, QuerySimulated
     DEF Accounts!Next

-----------------------------------------------------------------------------
(* All programs                                                            *)

HubInv ==
  /\ TypeOK /\ LoopInv /\ PyInv /\ ShInv /\ Certs!TypeOK /\ AccountsInv /\ PsqlInv

HubSteps ==
  /\ [Next]_vars /\ [Py!Next]_(Py!vars) /\ [Sh!Next]_(Sh!vars)
  /\ [Certs!Next]_(Certs!vars) /\ [Accounts!Next]_(Accounts!vars) /\ [Psql!Next]_(Psql!vars)

LEMMA HubStarts == HubInit => HubInv
BY HubAssumption, TypeInductive, LoopInductive, PyInit, ShInit, CertsInit, AccountsInit, PsqlInit
   DEF HubInit, HubInv

LEMMA HubMoves == [HubNext]_hubPrograms => HubSteps
<1>. SUFFICES ASSUME [HubNext]_hubPrograms PROVE HubSteps
  OBVIOUS
<1>. USE DEF HubSteps, vars, pyVars, shVars, certVars, accountVars, psqlVars,
             Py!vars, Sh!vars, Certs!vars, Accounts!vars, Psql!vars
<1>1. CASE InParallel(Next)
  BY <1>1 DEF InParallel
<1>2. CASE InPy(Py!Next)
  BY <1>2 DEF InPy
<1>3. CASE InSh(Sh!Next)
  BY <1>3 DEF InSh
<1>4. CASE InCerts(Certs!Next)
  BY <1>4 DEF InCerts
<1>5. CASE InAccounts(Accounts!Next)
  BY <1>5 DEF InAccounts
<1>6. CASE InPsql(Psql!Next)
  BY <1>6 DEF InPsql
<1>7. CASE UNCHANGED hubPrograms
  BY <1>7 DEF hubPrograms
<1>. QED
  BY <1>1, <1>2, <1>3, <1>4, <1>5, <1>6, <1>7 DEF HubNext

LEMMA HubKeeps == HubInv /\ HubSteps => HubInv'
<1>. SUFFICES ASSUME HubInv, HubSteps PROVE HubInv'
  OBVIOUS
<1>1. TypeOK' /\ LoopInv'
  BY TypeInductive, LoopInductive DEF HubInv, HubSteps
<1>2. PyInv' /\ ShInv'
  BY HubAssumption, PyStep, ShStep DEF HubInv, HubSteps
<1>3. Certs!TypeOK' /\ AccountsInv' /\ PsqlInv'
  BY HubAssumption, CertsStep, AccountsStep, PsqlNext DEF HubInv, HubSteps
<1>. QED
  BY <1>1, <1>2, <1>3 DEF HubInv

LEMMA HubInvariant == HubSpec => []HubInv
BY HubStarts, HubMoves, HubKeeps, PTL DEF HubSpec

LEMMA HubPromises ==
    HubInv => HubTypeOK /\ ValidMeansReadable /\ OwnClasses /\ RequiredPresentOrStale /\ Report
<1>. SUFFICES ASSUME HubInv
     PROVE  HubTypeOK /\ ValidMeansReadable /\ OwnClasses /\ RequiredPresentOrStale /\ Report
  OBVIOUS
<1>1. TypeOK /\ Py!TypeOK /\ Sh!TypeOK /\ Certs!TypeOK /\ Accounts!TypeOK /\ Psql!TypeOK
  BY DEF HubInv, PyInv, ShInv, AccountsInv, PsqlInv
<1>2. ValidMeansReadable /\ OwnClasses /\ RequiredPresentOrStale
  BY HubAssumption, PyPromises, ShPromises
     DEF HubInv, ValidMeansReadable, OwnClasses, RequiredPresentOrStale
<1>3. Report
  BY DEF HubInv, PsqlInv
<1>. QED
  BY <1>1, <1>2, <1>3 DEF HubTypeOK

(* Every variable of the six programs keeps its type; in particular the    *)
(* loop never counts more free slots than there are or fewer than none,    *)
(* the wrapper has no exit code but those it documents, and no script      *)
(* looks for a feeder beyond the end of its list (parallel.sh:68-91,       *)
(* psql_wrapper.sh.mustache:18-45, distributed_cleanup.py:307-341).        *)
THEOREM TypesOnHub == HubSpec => []HubTypeOK
BY HubInvariant, HubPromises, PTL

(* A promise that a module in Python calls valid has only attributes that  *)
(* are declared, all the required ones, and values that the type given for *)
(* them can be read from (cfengine.py:153-182, 266-292).                   *)
THEOREM ValidIsReadable == HubSpec => []ValidMeansReadable
BY HubInvariant, HubPromises, PTL

(* The classes that either library sends come from evaluating the promise  *)
(* they are sent for (cfengine.py:372, 391, cfengine.sh:141).              *)
THEOREM ClassesOfThePromise == HubSpec => []OwnClasses
BY HubInvariant, HubPromises, PTL

(* A promise that a module in shell calls valid has its required           *)
(* attributes, from this request or left in the shell by an earlier one,   *)
(* and none that it does not know (cfengine.sh:24, 54-57, 91-109).         *)
THEOREM RequiredIsThere == HubSpec => []RequiredPresentOrStale
BY HubInvariant, HubPromises, PTL

(* Whatever attempts came before, fail or get lost, kept, repaired and not *)
(* kept are reported as they are (psql_wrapper.sh.mustache:18-45).         *)
THEOREM ReportsTrue == HubSpec => []Report
BY HubInvariant, HubPromises, PTL

(* Whatever is asked for, and whatever the module comes to, both libraries *)
(* keep to the protocol: one answer to each request, with a result that    *)
(* the request allows, and the end after it is asked for                   *)
(* (cfengine.py:147-151, 184-226, cfengine.sh:75-80, 140-145).             *)
THEOREM LibrariesKeepToProtocol == HubSpec => Promised
<1>1. HubInit => Py!Protocol!Init /\ Sh!Protocol!Init
  BY PyProtocolInit, ShProtocolInit DEF HubInit
<1>2. HubInv /\ HubSteps => [Py!Protocol!Next]_(Py!Protocol!vars) /\ [Sh!Protocol!Next]_(Sh!Protocol!vars)
  BY PyProtocolStep, ShProtocolStep DEF HubInv, HubSteps
<1>. QED
  BY <1>1, <1>2, HubInvariant, HubMoves, PTL
     DEF HubSpec, Promised, Py!Promised, Sh!Promised, Py!Protocol!Spec, Sh!Protocol!Spec

(* Request by request, with every answer there may be and wherever it is   *)
(* cut off, the script does to users and password file what                *)
(* DistributedCleanup says: a step of it, or none                          *)
(* (distributed_cleanup.py:67-341, nova_api.py:113-139, cfsecret.py).      *)
THEOREM RequestsImplementCleanup == HubSpec => Implements
<1>1. HubInit => Accounts!Cleanup!Init
  BY CleanupInit DEF HubInit
<1>2. HubInv /\ HubInv' /\ HubSteps => [Accounts!Cleanup!Next]_(Accounts!Cleanup!vars)
  BY HubAssumption, AccountsSimulated DEF HubInv, HubSteps, Simulated
<1>. QED
  BY <1>1, <1>2, HubInvariant, HubMoves, PTL
     DEF HubSpec, Implements, Accounts!Implements, Accounts!Cleanup!Spec
=============================================================================
