--------------------------- MODULE WatchdogProofs ---------------------------
(***************************************************************************)
(* Proofs about Watchdog, for any pids, daemons and bounds, and with or    *)
(* without /proc: one watchdog at a time works, and databases are purged   *)
(* when no daemon runs.  The argument: the watchdog at work is the one     *)
(* that wrote the pid file, and no process with its pid can start while it *)
(* lives, so the next one leaves; and while it alone works, the daemons    *)
(* that run are those it has listed and not yet killed.                    *)
(***************************************************************************)
EXTENDS Watchdog, TLAPS

PCs == {"off"} \cup Looking \cup Working

(* At most one watchdog is between its start and its claim.                *)
OneLooks == \A p, q \in Pids : pc[p] \in Looking /\ pc[q] \in Looking => p = q

(* The watchdog at work holds the pid file, which is younger than it.      *)
Holds == \A p \in Pids : pc[p] \in Working => pidfile = p /\ p \notin young

(* One that claims the file has seen that nobody works.                    *)
ClaimsFree == \A p, q \in Pids : pc[p] = "claim" => pc[q] \notin Working

(* Without interference, what runs while the watchdog kills is on its list.*)
Lists == \A p \in Pids : pc[p] = "kill" => up \subseteq listed[p]
HasDir == \A p \in Pids : pc[p] \in Working => dir[p]
Undisturbed == ~meddled => broken = {} /\ Lists /\ HasDir

OneInv == TypeOK /\ (~Overlaps => OneLooks /\ Holds /\ ClaimsFree)
DogInv == OneInv /\ (~Overlaps => Undisturbed)

-----------------------------------------------------------------------------
(* Types                                                                   *)

LEMMA GoesType ==
    ASSUME TypeOK, NEW p \in Pids, NEW to \in PCs, Goes(p, to)
    PROVE  pc' \in [Pids -> PCs] /\ pc'[p] = to /\ \A q \in Pids \ {p} : pc'[q] = pc[q]
BY DEF TypeOK, PCs, Goes

LEMMA FaultType == ASSUME ConstantsOK, TypeOK, Fault PROVE faults' \in 0..MaxFaults
BY DEF ConstantsOK, TypeOK, Fault

LEMMA TypeInit == ASSUME ConstantsOK, Init PROVE TypeOK
<1>1. 0 \in 0..MaxFaults /\ 1 \in 1..Tries
  BY DEF ConstantsOK
<1>2. pc \in [Pids -> PCs] /\ dir \in [Pids -> BOOLEAN] /\ try \in [Pids -> 1..Tries]
  BY <1>1 DEF Init, PCs
<1>3. listed \in [Pids -> SUBSET Daemons]
  BY DEF Init
<1>. QED
  BY <1>1, <1>2, <1>3 DEF Init, TypeOK, PCs

LEMMA TypeOutside ==
    ASSUME ConstantsOK, TypeOK,
           \/ \E p \in Pids : Cron(p) \/ OtherStarts(p) \/ OtherEnds(p) \/ Signal(p) \/ Sigkill(p)
           \/ \E d \in Daemons : DaemonDies(d) \/ StartedElsewhere(d)
    PROVE  TypeOK'
<1>1. ASSUME NEW p \in Pids, Cron(p) PROVE TypeOK'
  <2>1. pc' \in [Pids -> PCs]
    BY <1>1 DEF Cron, TypeOK, PCs, Looking
  <2>. QED
    BY <1>1, <2>1 DEF Cron, TypeOK, PCs
<1>2. ASSUME NEW p \in Pids, OtherStarts(p) PROVE TypeOK'
  BY <1>2, FaultType DEF OtherStarts, TypeOK, watchdogs
<1>3. ASSUME NEW p \in Pids, OtherEnds(p) PROVE TypeOK'
  BY <1>3 DEF OtherEnds, TypeOK, watchdogs
<1>4. ASSUME NEW p \in Pids, Signal(p) PROVE TypeOK'
  BY <1>4, FaultType DEF Signal, TypeOK
<1>5. ASSUME NEW p \in Pids, Sigkill(p) PROVE TypeOK'
  <2>1. pc' \in [Pids -> PCs]
    BY <1>5, GoesType DEF Sigkill, Ends, PCs
  <2>. QED
    BY <1>5, <2>1, FaultType DEF Sigkill, Ends, TypeOK, PCs
<1>6. ASSUME NEW d \in Daemons, DaemonDies(d) PROVE TypeOK'
  <2>1. listed' \in [Pids -> SUBSET Daemons]
    BY <1>6 DEF DaemonDies, TypeOK
  <2>. QED
    BY <1>6, <2>1, FaultType DEF DaemonDies, TypeOK
<1>7. ASSUME NEW d \in Daemons, StartedElsewhere(d) PROVE TypeOK'
  BY <1>7, FaultType DEF StartedElsewhere, TypeOK, watchdogs
<1>. QED
  BY <1>1, <1>2, <1>3, <1>4, <1>5, <1>6, <1>7

LEMMA TryAgainType ==
    ASSUME ConstantsOK, TypeOK, NEW p \in Pids, TryAgain(p)
    PROVE  /\ pc' \in [Pids -> PCs] /\ try' \in [Pids -> 1..Tries] /\ young' \in SUBSET Pids
           /\ pc'[p] \in {"off", "start"} /\ \A q \in Pids \ {p} : pc'[q] = pc[q]
           /\ young' \subseteq young
<1>1. CASE try[p] < Tries
  <2>1. try[p] + 1 \in 1..Tries
    BY <1>1 DEF ConstantsOK, TypeOK
  <2>2. Goes(p, "start") /\ try' = [try EXCEPT ![p] = @ + 1] /\ young' = young
    BY <1>1 DEF TryAgain
  <2>3. try' \in [Pids -> 1..Tries]
    BY <2>1, <2>2 DEF TypeOK
  <2>. QED
    BY <2>2, <2>3, GoesType DEF TypeOK, PCs, Working
<1>2. CASE ~(try[p] < Tries)
  BY <1>2, GoesType DEF TryAgain, Ends, TypeOK, PCs
<1>. QED
  BY <1>1, <1>2

LEMMA TypeStep ==
    ASSUME ConstantsOK, TypeOK, NEW p \in Pids, Step(p)
    PROVE  TypeOK'
<1>. USE GoesType, FaultType
<1>1. CASE Look(p)
  BY <1>1 DEF Look, Ends, TypeOK, PCs, Looking
<1>2. CASE Claim(p)
  <2>1. pc' \in [Pids -> PCs] /\ dir' \in [Pids -> BOOLEAN]
    BY <1>2 DEF Claim, TypeOK, PCs, Working
  <2>. QED
    BY <1>2, <2>1 DEF Claim, TypeOK, PCs
<1>3. CASE Check(p)
  <2>1. pc' \in [Pids -> PCs]
    BY <1>3 DEF Check, Ends, PCs, Working
  <2>2. young' \in SUBSET Pids /\ faults' \in 0..MaxFaults
    BY <1>3 DEF Check, Ends, TypeOK
  <2>. QED
    BY <1>3, <2>1, <2>2 DEF Check, TypeOK, PCs
<1>4. CASE ListProcs(p)
  <2>1. pc' \in [Pids -> PCs]
    BY <1>4 DEF ListProcs, PCs, Working
  <2>2. listed' \in [Pids -> SUBSET Daemons]
    BY <1>4 DEF ListProcs, TypeOK
  <2>. QED
    BY <1>4, <2>1, <2>2 DEF ListProcs, TypeOK, PCs
<1>5. CASE \E d \in Daemons : KillDaemon(p, d)
  <2>1. PICK d \in Daemons : KillDaemon(p, d)
    BY <1>5
  <2>2. listed' \in [Pids -> SUBSET Daemons]
    BY <2>1 DEF KillDaemon, TypeOK
  <2>3. up' \in SUBSET Daemons /\ broken' \in SUBSET up'
    BY <2>1 DEF KillDaemon, TypeOK
  <2>. QED
    BY <2>1, <2>2, <2>3 DEF KillDaemon, TypeOK, PCs
<1>6. CASE Purge(p)
  <2>1. pc' \in [Pids -> PCs]
    BY <1>6 DEF Purge, PCs, Working
  <2>2. try' \in [Pids -> 1..Tries]
    BY <1>6 DEF Purge, TypeOK, ConstantsOK
  <2>. QED
    BY <1>6, <2>1, <2>2 DEF Purge, TypeOK, PCs
<1>7. CASE Restart(p)
  <2>1. CASE dir[p]
    <3>1. pc' \in [Pids -> PCs] /\ listed' \in [Pids -> SUBSET Daemons]
      BY <1>7, <2>1 DEF Restart, PCs, Working
    <3>2. up' \in SUBSET Daemons /\ broken' = {} /\ faults' \in 0..MaxFaults
      BY <1>7, <2>1 DEF Restart, TypeOK
    <3>. QED
      BY <1>7, <2>1, <3>1, <3>2 DEF Restart, TypeOK, PCs
  <2>2. CASE ~dir[p]
    <3>1. TryAgain(p)
      BY <1>7, <2>2 DEF Restart
    <3>. QED
      BY <1>7, <2>2, <3>1, TryAgainType DEF Restart, TypeOK, PCs
  <2>. QED
    BY <2>1, <2>2
<1>8. CASE Verify(p)
  <2>1. CASE up = Daemons
    BY <1>8, <2>1 DEF Verify, Ends, TypeOK, PCs
  <2>2. CASE up # Daemons
    <3>1. TryAgain(p)
      BY <1>8, <2>2 DEF Verify
    <3>2. up' \in SUBSET Daemons /\ broken' \in SUBSET up' /\ listed' \in [Pids -> SUBSET Daemons]
      BY <1>8, <2>2 DEF Verify, TypeOK
    <3>. QED
      BY <1>8, <3>1, <3>2, TryAgainType DEF Verify, TypeOK, PCs
  <2>. QED
    BY <2>1, <2>2
<1>. QED
  BY <1>1, <1>2, <1>3, <1>4, <1>5, <1>6, <1>7, <1>8 DEF Step

-----------------------------------------------------------------------------
(* One watchdog at a time                                                  *)

LEMMA OneInit == ASSUME ConstantsOK, Init PROVE DogInv
BY TypeInit DEF DogInv, OneInv, OneLooks, Holds, ClaimsFree, Undisturbed, Lists, HasDir, Init, Looking, Working

(* Who watches but has not claimed the file, and who works.                *)
LEMMA Outside ==
    ASSUME OneInv, ~Overlaps,
           \/ \E p \in Pids : Cron(p) \/ OtherStarts(p) \/ OtherEnds(p) \/ Signal(p) \/ Sigkill(p)
           \/ \E d \in Daemons : DaemonDies(d) \/ StartedElsewhere(d)
    PROVE  OneLooks' /\ Holds' /\ ClaimsFree'
<1>. USE DEF OneInv, OneLooks, Holds, ClaimsFree, TypeOK, Looking, Working
<1>1. ASSUME NEW p \in Pids, Cron(p) PROVE OneLooks' /\ Holds' /\ ClaimsFree'
  BY <1>1 DEF Cron, Alive
<1>2. ASSUME NEW p \in Pids, OtherStarts(p) PROVE OneLooks' /\ Holds' /\ ClaimsFree'
  BY <1>2 DEF OtherStarts, Alive, watchdogs
<1>3. ASSUME NEW p \in Pids, OtherEnds(p) PROVE OneLooks' /\ Holds' /\ ClaimsFree'
  BY <1>3 DEF OtherEnds, watchdogs
<1>4. ASSUME NEW p \in Pids, Signal(p) PROVE OneLooks' /\ Holds' /\ ClaimsFree'
  BY <1>4 DEF Signal
<1>5. ASSUME NEW p \in Pids, Sigkill(p) PROVE OneLooks' /\ Holds' /\ ClaimsFree'
  BY <1>5 DEF Sigkill, Ends, Goes
<1>6. ASSUME NEW d \in Daemons, DaemonDies(d) \/ StartedElsewhere(d)
      PROVE  OneLooks' /\ Holds' /\ ClaimsFree'
  BY <1>6 DEF DaemonDies, StartedElsewhere, watchdogs
<1>. QED
  BY <1>1, <1>2, <1>3, <1>4, <1>5, <1>6

(* A step of a watchdog at work: it stays at work or ends.                 *)
LEMMA Work ==
    ASSUME ConstantsOK, OneInv, ~Overlaps, NEW p \in Pids, pc[p] \in Working, Step(p)
    PROVE  /\ pc'[p] \in Working \cup {"off"} /\ \A q \in Pids \ {p} : pc'[q] = pc[q]
           /\ pidfile' = pidfile /\ young' \subseteq young
<1>. USE GoesType DEF OneInv, TypeOK, PCs, Looking, Working, Ends
<1>1. CASE Check(p)
  BY <1>1 DEF Check
<1>2. CASE ListProcs(p)
  BY <1>2 DEF ListProcs
<1>3. CASE \E d \in Daemons : KillDaemon(p, d)
  BY <1>3 DEF KillDaemon
<1>4. CASE Purge(p)
  BY <1>4 DEF Purge
<1>5. CASE Restart(p)
  BY <1>5, TryAgainType DEF Restart
<1>6. CASE Verify(p)
  BY <1>6, TryAgainType DEF Verify
<1>7. CASE Look(p) \/ Claim(p)
  BY <1>7 DEF Look, Claim
<1>. QED
  BY <1>1, <1>2, <1>3, <1>4, <1>5, <1>6, <1>7 DEF Step

LEMMA OneStep ==
    ASSUME ConstantsOK, OneInv, ~Overlaps, NEW p \in Pids, Step(p)
    PROVE  OneLooks' /\ Holds' /\ ClaimsFree'
<1>1. CASE Look(p)
  <2>1. CASE Taken
    <3>1. pc'[p] = "off" /\ (\A q \in Pids \ {p} : pc'[q] = pc[q]) /\ pidfile' = pidfile /\ young' \subseteq young
      BY <1>1, <2>1, GoesType DEF Look, Ends, OneInv, PCs
    <3>. QED
      BY <3>1 DEF OneInv, OneLooks, Holds, ClaimsFree, Looking, Working
  <2>2. CASE ~Taken
    <3>1. /\ pc'[p] = "claim" /\ (\A q \in Pids \ {p} : pc'[q] = pc[q])
          /\ pidfile' = pidfile /\ young' = young /\ pc[p] = "look"
      BY <1>1, <2>2, GoesType DEF Look, OneInv, PCs, Looking
    <3>2. \A q \in Pids : pc[q] \notin Working
      BY <2>2 DEF Taken, Alive, OneInv, Holds, Working, ConstantsOK
    <3>. QED
      BY <3>1, <3>2 DEF OneInv, OneLooks, Holds, ClaimsFree, Looking, Working
  <2>. QED
    BY <2>1, <2>2
<1>2. CASE Claim(p)
  <2>1. /\ pc'[p] = "check" /\ (\A q \in Pids \ {p} : pc'[q] = pc[q])
        /\ pidfile' = p /\ young' = {} /\ pc[p] = "claim"
    BY <1>2, GoesType DEF Claim, OneInv, PCs, Working
  <2>2. \A q \in Pids \ {p} : pc[q] \notin Working /\ pc[q] \notin Looking
    BY <2>1 DEF OneInv, OneLooks, ClaimsFree, Looking
  <2>. QED
    BY <2>1, <2>2 DEF OneLooks, Holds, ClaimsFree, Looking, Working
<1>3. CASE pc[p] \in Working
  <2>1. /\ pc'[p] \in Working \cup {"off"} /\ (\A q \in Pids \ {p} : pc'[q] = pc[q])
        /\ pidfile' = pidfile /\ young' \subseteq young
    BY <1>3, Work
  <2>. QED
    BY <1>3, <2>1 DEF OneInv, OneLooks, Holds, ClaimsFree, Looking, Working
<1>. QED
  BY <1>1, <1>2, <1>3 DEF Step, Check, ListProcs, KillDaemon, Purge, Restart, Verify, Working

(* One alone is at work.                                                   *)
LEMMA Alone ==
    ASSUME OneInv, ~Overlaps, NEW p \in Pids, pc[p] \in Working
    PROVE  \A q \in Pids \ {p} : pc[q] \notin Working
BY DEF OneInv, Holds

LEMMA OneNext == ASSUME ConstantsOK, OneInv, [Next]_vars PROVE OneInv'
<1>1. CASE \E p \in Pids : Step(p)
  BY <1>1, TypeStep, OneStep DEF OneInv
<1>2. CASE \/ \E p \in Pids : Cron(p) \/ OtherStarts(p) \/ OtherEnds(p) \/ Signal(p) \/ Sigkill(p)
           \/ \E d \in Daemons : DaemonDies(d) \/ StartedElsewhere(d)
  BY <1>2, TypeOutside, Outside DEF OneInv
<1>3. CASE UNCHANGED vars
  BY <1>3 DEF OneInv, TypeOK, OneLooks, Holds, ClaimsFree, vars, watchdogs
<1>. QED
  BY <1>1, <1>2, <1>3 DEF Next

(* Unless two watchdogs start close together, one at a time works          *)
(* (watchdog.mustache:52-80).                                              *)
THEOREM OneWatchdog ==
    ASSUME ConstantsOK
    PROVE  Spec => []OneAtATime
<1>1. Init => OneInv
  BY OneInit DEF DogInv
<1>2. OneInv /\ [Next]_vars => OneInv'
  BY OneNext
<1>3. OneInv => OneAtATime
  BY DEF OneInv, Holds, OneAtATime
<1>. QED
  BY <1>1, <1>2, <1>3, PTL DEF Spec

-----------------------------------------------------------------------------
(* Databases are purged under no daemon                                    *)

LEMMA FreeOutside ==
    ASSUME DogInv, ~Overlaps,
           \/ \E p \in Pids : Cron(p) \/ OtherStarts(p) \/ OtherEnds(p) \/ Signal(p) \/ Sigkill(p)
           \/ \E d \in Daemons : DaemonDies(d) \/ StartedElsewhere(d)
    PROVE  Undisturbed'
<1>. USE DEF DogInv, OneInv, TypeOK, Undisturbed, Lists, HasDir, Working
<1>1. ASSUME NEW p \in Pids, Cron(p) PROVE Undisturbed'
  BY <1>1 DEF Cron
<1>2. ASSUME NEW p \in Pids, OtherStarts(p) \/ OtherEnds(p) PROVE Undisturbed'
  BY <1>2 DEF OtherStarts, OtherEnds, watchdogs
<1>3. ASSUME NEW p \in Pids, Signal(p) PROVE Undisturbed'
  BY <1>3 DEF Signal
<1>4. ASSUME NEW p \in Pids, Sigkill(p) PROVE Undisturbed'
  BY <1>4 DEF Sigkill, Ends, Goes
<1>5. ASSUME NEW d \in Daemons, DaemonDies(d) PROVE Undisturbed'
  BY <1>5 DEF DaemonDies
<1>6. ASSUME NEW d \in Daemons, StartedElsewhere(d) PROVE Undisturbed'
  BY <1>6 DEF StartedElsewhere
<1>. QED
  BY <1>1, <1>2, <1>3, <1>4, <1>5, <1>6

(* Of a watchdog at work only its own step changes what it has listed, and *)
(* nobody else kills or starts daemons.                                    *)
LEMMA FreeStep ==
    ASSUME ConstantsOK, DogInv, ~Overlaps, ~meddled, NEW p \in Pids, Step(p)
    PROVE  ~meddled' /\ Undisturbed'
<1>. DEFINE Others == \A q \in Pids \ {p} : pc'[q] = pc[q]
<1>1. ~meddled' /\ broken = {} /\ Lists /\ HasDir
  BY DEF DogInv, Undisturbed, Step, Look, Claim, Check, ListProcs, KillDaemon, Purge, Restart, Verify
<1>2. CASE Look(p)
  <2>1. pc'[p] \in {"off", "claim"} /\ Others /\ UNCHANGED <<dir, listed, up, broken>>
    BY <1>2, GoesType DEF Look, Ends, DogInv, OneInv, PCs, Looking
  <2>. QED
    BY <1>1, <2>1 DEF Undisturbed, Lists, HasDir, Working
<1>3. CASE Claim(p)
  <2>1. pc'[p] = "check" /\ Others /\ dir' = [dir EXCEPT ![p] = TRUE] /\ UNCHANGED <<listed, up, broken>>
    BY <1>3, GoesType DEF Claim, DogInv, OneInv, PCs, Working
  <2>. QED
    BY <1>1, <2>1 DEF Undisturbed, Lists, HasDir, DogInv, OneInv, TypeOK, Working
<1>4. CASE pc[p] \in Working
  <2>1. \A q \in Pids \ {p} : pc'[q] = pc[q] /\ pc'[q] \notin Working
    BY <1>4, Alone, Work DEF DogInv
  <2>2. dir' = dir /\ dir[p]
    BY <1>1, <1>4
       DEF HasDir, Working, Step, Look, Claim, Check, ListProcs, KillDaemon, Purge, Restart, Verify
  <2>3. HasDir'
    BY <1>1, <2>1, <2>2 DEF HasDir
  <2>4. (pc'[p] = "kill" => up' \subseteq listed'[p]) /\ broken' = {}
    <3>. USE <1>1, <2>2, GoesType DEF DogInv, OneInv, TypeOK, PCs, Working, Ends
    <3>1. CASE Check(p)
      BY <3>1 DEF Check
    <3>2. CASE ListProcs(p)
      BY <3>2 DEF ListProcs
    <3>3. CASE \E d \in Daemons : KillDaemon(p, d)
      BY <3>3 DEF KillDaemon, Lists
    <3>4. CASE Purge(p)
      BY <3>4 DEF Purge, Killed, Lists
    <3>5. CASE Restart(p)
      BY <3>5 DEF Restart
    <3>6. CASE Verify(p)
      BY <3>6, TryAgainType DEF Verify
    <3>7. ~Look(p) /\ ~Claim(p)
      BY <1>4 DEF Look, Claim
    <3>. QED
      BY <3>1, <3>2, <3>3, <3>4, <3>5, <3>6, <3>7 DEF Step
  <2>. QED
    BY <1>1, <2>1, <2>3, <2>4 DEF Undisturbed, Lists, Working
<1>. QED
  BY <1>2, <1>3, <1>4 DEF Step, Check, ListProcs, KillDaemon, Purge, Restart, Verify, Working

LEMMA DogNext == ASSUME ConstantsOK, DogInv, [Next]_vars PROVE DogInv'
<1>. SUFFICES ASSUME ~Overlaps PROVE Undisturbed'
  BY OneNext DEF DogInv
<1>1. CASE \E p \in Pids : Step(p)
  <2>1. PICK p \in Pids : Step(p)
    BY <1>1
  <2>2. meddled' = meddled
    BY <2>1 DEF Step, Look, Claim, Check, ListProcs, KillDaemon, Purge, Restart, Verify
  <2>. QED
    BY <2>1, <2>2, FreeStep DEF Undisturbed
<1>2. CASE \/ \E p \in Pids : Cron(p) \/ OtherStarts(p) \/ OtherEnds(p) \/ Signal(p) \/ Sigkill(p)
           \/ \E d \in Daemons : DaemonDies(d) \/ StartedElsewhere(d)
  BY <1>2, FreeOutside
<1>3. CASE UNCHANGED vars
  BY <1>3 DEF DogInv, Undisturbed, Lists, HasDir, vars, watchdogs
<1>. QED
  BY <1>1, <1>2, <1>3 DEF Next

LEMMA DogPromises == DogInv => OneAtATime /\ DatabasesFree
BY DEF DogInv, OneInv, Holds, OneAtATime, Undisturbed, DatabasesFree

(* When databases are purged no daemon runs, unless a signal or a daemon   *)
(* started from elsewhere interferes (watchdog.mustache:263-297).          *)
THEOREM NothingBroken ==
    ASSUME ConstantsOK
    PROVE  Spec => []DatabasesFree
BY OneInit, DogNext, DogPromises, PTL DEF Spec
=============================================================================
