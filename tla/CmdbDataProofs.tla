--------------------------- MODULE CmdbDataProofs ---------------------------
(***************************************************************************)
(* Proofs about CmdbData, for any hosts and bounds: the state file vouches *)
(* for the files of the hosts, HostFilesFit.  The argument: a run asks     *)
(* from the time in the state file on, so a host it leaves out is one that *)
(* file vouched for already; a file it still has to write will get what    *)
(* the CMDB has, unless the data changed since, and then they changed      *)
(* after the answer or in its second; and the time is only written when    *)
(* all files are.                                                          *)
(***************************************************************************)
EXTENDS CmdbData, TLAPS

(* A time vouches for the last change of h.                                *)
Before(h, t) == changedAt[h] < t \/ (changedAt[h] = t /\ h \notin tied)

(* Versions and times only grow.                                           *)
Grown(h) ==
  /\ changedAt[h] <= epoch /\ (changedAt[h] = 0 => data[h] = 0)
  /\ file[h] <= data[h] /\ run.answer[h] <= data[h]
TimesFit ==
  /\ stamp \in Nat => stamp <= epoch
  /\ run.on => run.next <= epoch
  /\ run.on /\ stamp \in Nat => stamp <= run.next

(* What a run has written or left out, and what it has still to write.     *)
Through(h) == run.on /\ h \notin run.todo /\ h \notin lost /\ Before(h, run.next) => file[h] = data[h]
ToCome(h) == run.on /\ h \in run.todo /\ Before(h, run.next) => run.answer[h] = data[h]
Fits(h) == Vouched(h) => file[h] = data[h]

HostInv(h) == Grown(h) /\ Through(h) /\ ToCome(h) /\ Fits(h)
CmdbInv == TypeOK /\ TimesFit /\ \A h \in Hosts : HostInv(h)

-----------------------------------------------------------------------------
LEMMA Bounds ==
    ASSUME ConstantsOK
    PROVE  /\ Times \subseteq Nat /\ 0 \in Times /\ 0 \in 0..MaxChanges /\ 0 \in 0..MaxFaults
           /\ 0..MaxChanges \subseteq Nat
BY DEF ConstantsOK, Times

LEMMA FaultType == ASSUME ConstantsOK, TypeOK, Fault PROVE faults' \in 0..MaxFaults
BY DEF ConstantsOK, TypeOK, Fault

LEMMA IdleType == ASSUME ConstantsOK PROVE Idle \in Runs /\ ~Idle.on /\ Idle.answer = None
BY Bounds DEF Idle, Runs, Versions, None, Times

LEMMA RunType ==
    ASSUME ConstantsOK, TypeOK
    PROVE  /\ run.on \in BOOLEAN /\ run.todo \subseteq Hosts /\ run.next \in Nat /\ run.next \in Times
           /\ run.answer \in Versions /\ epoch \in Nat
BY Bounds DEF TypeOK, Runs

LEMMA Numbers ==
    ASSUME ConstantsOK, TypeOK, NEW h \in Hosts
    PROVE  changedAt[h] \in Nat /\ data[h] \in Nat /\ file[h] \in Nat /\ run.answer[h] \in Nat
<1>1. run.answer[h] \in 0..MaxChanges
  BY RunType DEF Versions
<1>. QED
  BY <1>1, Bounds DEF TypeOK, Versions

LEMMA InitInv == ASSUME ConstantsOK, Init PROVE CmdbInv
<1>1. None \in Versions /\ None \in [Hosts -> Times]
  BY Bounds DEF None, Versions
<1>2. TypeOK
  BY <1>1, Bounds, IdleType DEF Init, TypeOK
<1>3. TimesFit
  BY IdleType DEF Init, TimesFit, ConstantsOK
<1>4. ASSUME NEW h \in Hosts PROVE HostInv(h)
  BY IdleType, Bounds DEF Init, HostInv, Grown, Through, ToCome, Fits, Vouched, None, ConstantsOK
<1>. QED
  BY <1>2, <1>3, <1>4 DEF CmdbInv

-----------------------------------------------------------------------------
(* The actions one by one                                                  *)

LEMMA ChangeInv == ASSUME ConstantsOK, CmdbInv, NEW c \in Hosts, Change(c) PROVE CmdbInv'
<1>. USE Bounds
<1>1. epoch' \in Times /\ epoch' \in Nat /\ epoch' >= epoch /\ epoch' > 0 /\ epoch \in Nat
  BY DEF Change, CmdbInv, TypeOK, Times, ConstantsOK
<1>2. data' \in Versions /\ changedAt' \in [Hosts -> Times] /\ tied' \in SUBSET Hosts
  <2>1. data[c] + 1 \in 0..MaxChanges
    BY DEF Change, CmdbInv, TypeOK, Versions, ConstantsOK
  <2>. QED
    BY <1>1, <2>1 DEF Change, CmdbInv, TypeOK, Versions
<1>3. TypeOK'
  BY <1>1, <1>2 DEF Change, CmdbInv, TypeOK
<1>4. TimesFit'
  <2>1. UNCHANGED <<stamp, run>>
    BY DEF Change
  <2>. QED
    BY <1>1, <2>1, RunType DEF CmdbInv, TimesFit
<1>5. ASSUME NEW h \in Hosts PROVE HostInv(h)'
  <2>. HostInv(h) /\ TypeOK /\ TimesFit
    BY DEF CmdbInv
  <2>. USE RunType, Numbers
  <2>1. CASE h # c
    <3>1. /\ data'[h] = data[h] /\ changedAt'[h] = changedAt[h] /\ (h \in tied' <=> h \in tied)
          /\ UNCHANGED <<stamp, file, run, lost>>
      BY <2>1 DEF Change, CmdbInv, TypeOK, Versions
    <3>. QED
      BY <1>1, <3>1 DEF HostInv, Grown, Through, ToCome, Fits, Vouched, Before
  <2>2. CASE h = c
    <3>1. /\ data'[h] = data[h] + 1 /\ changedAt'[h] = epoch' /\ data[h] \in Nat
          /\ UNCHANGED <<stamp, file, run, lost>>
          /\ (Answered(epoch') => h \in tied')
      BY <2>2 DEF Change, CmdbInv, TypeOK, Versions
    <3>2. Grown(h)'
      BY <1>1, <3>1 DEF Grown, HostInv
    <3>3. run.on => ~(Before(h, run.next)')
      BY <1>1, <3>1 DEF Before, Answered, TimesFit
    <3>4. ~(Vouched(h)')
      BY <1>1, <3>1 DEF Vouched, Answered, TimesFit
    <3>. QED
      BY <3>1, <3>2, <3>3, <3>4 DEF HostInv, Through, ToCome, Fits, Before
  <2>. QED
    BY <2>1, <2>2
<1>. QED
  BY <1>3, <1>4, <1>5 DEF CmdbInv

LEMMA SeedInv == ASSUME ConstantsOK, CmdbInv, Seed PROVE CmdbInv'
<1>. USE Bounds
<1>1. TypeOK' /\ TimesFit'
  BY DEF Seed, CmdbInv, TypeOK, TimesFit, Times
<1>2. ASSUME NEW h \in Hosts PROVE HostInv(h)'
  <2>1. /\ changedAt[h] \in Nat /\ data[h] \in Nat /\ file[h] \in Nat /\ Grown(h) /\ HostInv(h)
        /\ UNCHANGED <<epoch, data, changedAt, file, run, lost, tied>> /\ stamp' = 0
    BY DEF Seed, CmdbInv, TypeOK, Versions, HostInv
  <2>2. Fits(h)'
    BY <2>1 DEF Fits, Vouched, Grown
  <2>. QED
    BY <2>1, <2>2 DEF HostInv, Grown, Through, ToCome, Before
<1>. QED
  BY <1>1, <1>2 DEF CmdbInv

LEMMA RequestInv == ASSUME ConstantsOK, CmdbInv, Request PROVE CmdbInv'
<1>. USE Bounds
<1>0. /\ run'.on /\ run'.todo = Todo /\ run'.answer = data /\ run'.next = epoch
      /\ UNCHANGED <<epoch, data, changedAt, stamp, file, host, faults, lost, tied>>
  BY DEF Request
<1>1. TypeOK'
  <2>1. run' \in Runs
    BY DEF Request, CmdbInv, TypeOK, Runs, Todo, Changed
  <2>. QED
    BY <1>0, <2>1 DEF CmdbInv, TypeOK
<1>2. TimesFit'
  BY <1>0 DEF CmdbInv, TypeOK, TimesFit
<1>3. ASSUME NEW h \in Hosts PROVE HostInv(h)'
  <2>1. /\ changedAt[h] \in Nat /\ data[h] \in Nat /\ file[h] \in Nat /\ epoch \in Nat
        /\ Grown(h) /\ HostInv(h) /\ Previous \in Nat
    BY DEF CmdbInv, TypeOK, Versions, HostInv, Previous
  <2>2. Grown(h)' /\ ToCome(h)' /\ Fits(h)'
    BY <1>0, <2>1 DEF Grown, ToCome, Fits, Vouched, HostInv
  <2>3. Through(h)'
    <3>. SUFFICES ASSUME h \notin Todo, h \notin lost, Before(h, epoch) PROVE file[h] = data[h]
      BY <1>0 DEF Through, Before
    <3>1. CASE changedAt[h] = 0
      BY <2>1, <3>1 DEF Grown
    <3>2. CASE stamp \in Nat
      <4>1. Previous = stamp /\ stamp <= epoch
        BY <3>2 DEF Previous, CmdbInv, TypeOK, TimesFit, ConstantsOK
      <4>2. changedAt[h] = 0 \/ changedAt[h] < stamp \/ ~(epoch > stamp)
        BY <2>1, <4>1 DEF Todo, Changed
      <4>3. changedAt[h] = 0 \/ Vouched(h)
        BY <2>1, <3>2, <4>1, <4>2 DEF Vouched, Before
      <4>. QED
        BY <2>1, <3>1, <4>3 DEF HostInv, Fits
    <3>3. CASE stamp \notin Nat
      <4>1. Previous = 0
        BY <3>3 DEF Previous
      <4>2. changedAt[h] = 0
        BY <2>1, <4>1 DEF Todo, Changed, Grown
      <4>. QED
        BY <3>1, <4>2
    <3>. QED
      BY <3>2, <3>3
  <2>. QED
    BY <2>2, <2>3 DEF HostInv
<1>. QED
  BY <1>1, <1>2, <1>3 DEF CmdbInv

LEMMA WriteFileInv == ASSUME ConstantsOK, CmdbInv, NEW w \in Hosts, WriteFile(w) PROVE CmdbInv'
<1>. TypeOK /\ TimesFit
  BY DEF CmdbInv
<1>. USE Bounds, RunType, Numbers
<1>0. /\ run.on /\ w \in run.todo /\ run'.on = run.on /\ run'.todo = run.todo \ {w}
      /\ run'.answer = run.answer /\ run'.next = run.next /\ run' \in Runs
      /\ UNCHANGED <<epoch, data, changedAt, stamp, host>>
  BY DEF WriteFile, TypeOK, Runs
<1>1. TypeOK'
  <2>1. file' \in Versions
    <3>1. run.answer[w] \in 0..MaxChanges
      BY DEF Versions
    <3>. QED
      BY <3>1 DEF WriteFile, TypeOK, Versions
  <2>2. lost' \in SUBSET Hosts /\ tied' \in SUBSET Hosts
    BY DEF WriteFile, TypeOK
  <2>3. faults' \in 0..MaxFaults
    BY FaultType DEF WriteFile, TypeOK
  <2>. QED
    BY <1>0, <2>1, <2>2, <2>3 DEF TypeOK
<1>2. TimesFit'
  BY <1>0 DEF TimesFit
<1>3. ASSUME NEW h \in Hosts PROVE HostInv(h)'
  <2>. HostInv(h)
    BY DEF CmdbInv
  <2>1. CASE h # w
    <3>1. file'[h] = file[h] /\ (h \in tied' <=> h \in tied) /\ (h \in lost' <=> h \in lost)
      BY <2>1 DEF WriteFile, TypeOK, Versions
    <3>. QED
      BY <1>0, <2>1, <3>1 DEF HostInv, Grown, Through, ToCome, Fits, Vouched, Before
  <2>2. CASE h = w /\ w \in lost'
    <3>1. file' = file
      BY <2>2 DEF WriteFile
    <3>. QED
      BY <1>0, <2>2, <3>1 DEF HostInv, Grown, Through, ToCome, Fits, Vouched, Before
  <2>3. CASE h = w /\ w \notin lost'
    <3>1. /\ file'[h] = run.answer[h]
          /\ h \in tied' <=> h \in tied /\ run.answer[h] # data[h]
      BY <2>3 DEF WriteFile, TypeOK, Versions
    <3>2. run.answer[h] = data[h] \/ (~(Before(h, run.next)) /\ h \in (tied \cup {x \in Hosts : changedAt[x] # run.next}))
      BY <1>0, <2>3 DEF HostInv, ToCome, Before
    <3>3. Through(h)'
      BY <1>0, <3>1, <3>2 DEF Through, Before
    <3>4. Fits(h)'
      BY <1>0, <3>1, <3>2 DEF Fits, Vouched, Before, TimesFit
    <3>5. Grown(h)'
      BY <1>0, <3>1 DEF Grown, HostInv
    <3>6. ToCome(h)'
      BY <1>0, <2>3 DEF ToCome
    <3>. QED
      BY <3>3, <3>4, <3>5, <3>6 DEF HostInv
  <2>. QED
    BY <2>1, <2>2, <2>3
<1>. QED
  BY <1>1, <1>2, <1>3 DEF CmdbInv

(* The run is over, and the time in the state file is the old one, none,   *)
(* or the one of a run that has written all files.                         *)
LEMMA OverInv ==
    ASSUME ConstantsOK, CmdbInv, run' = Idle, faults' \in 0..MaxFaults,
           stamp' \in {stamp, NoFile, Bad} \/ (stamp' = run.next /\ run.on /\ run.todo = {}),
           UNCHANGED <<epoch, data, changedAt, file, host, lost, tied>>
    PROVE  CmdbInv'
<1>. TypeOK /\ TimesFit
  BY DEF CmdbInv
<1>. USE Bounds, RunType, Numbers, IdleType
<1>1. TypeOK'
  BY DEF TypeOK
<1>2. TimesFit'
  BY DEF TimesFit, ConstantsOK
<1>3. ASSUME NEW h \in Hosts PROVE HostInv(h)'
  <2>. HostInv(h)
    BY DEF CmdbInv
  <2>1. Grown(h)' /\ Through(h)' /\ ToCome(h)'
    BY DEF HostInv, Grown, Through, ToCome, None
  <2>2. Fits(h)'
    BY DEF HostInv, Through, Fits, Vouched, Before, ConstantsOK
  <2>. QED
    BY <2>1, <2>2 DEF HostInv
<1>. QED
  BY <1>1, <1>2, <1>3 DEF CmdbInv

(* Without a run the state file may be lost or spoilt.                     *)
LEMMA SpoiltInv ==
    ASSUME ConstantsOK, CmdbInv, stamp' \in {stamp, NoFile, Bad}, faults' \in 0..MaxFaults,
           UNCHANGED <<epoch, data, changedAt, file, host, run, lost, tied>>
    PROVE  CmdbInv'
BY DEF CmdbInv, TypeOK, TimesFit, HostInv, Grown, Through, ToCome, Fits, Vouched, Before, ConstantsOK

LEMMA CopyInv == ASSUME ConstantsOK, CmdbInv, NEW c \in Hosts, Copy(c) PROVE CmdbInv'
<1>1. host' \in Versions
  BY DEF Copy, CmdbInv, TypeOK, Versions
<1>. QED
  BY <1>1 DEF Copy, CmdbInv, TypeOK, TimesFit, HostInv, Grown, Through, ToCome, Fits, Vouched, Before

LEMMA CmdbNext == ASSUME ConstantsOK, CmdbInv, [Next]_vars PROVE CmdbInv'
<1>. TypeOK
  BY DEF CmdbInv
<1>1. ASSUME NEW h \in Hosts, Change(h) \/ Copy(h) PROVE CmdbInv'
  BY <1>1, ChangeInv, CopyInv
<1>2. CASE Seed \/ Request
  BY <1>2, SeedInv, RequestInv
<1>3. ASSUME NEW h \in Hosts, WriteFile(h) PROVE CmdbInv'
  BY <1>3, WriteFileInv
<1>4. CASE WriteStamp
  <2>1. faults' \in 0..MaxFaults
    BY <1>4, FaultType DEF WriteStamp, TypeOK
  <2>2. stamp' = stamp \/ (stamp' = run.next /\ run.on /\ run.todo = {})
    BY <1>4 DEF WriteStamp, NextStamp, FilesWritten
  <2>. QED
    BY <1>4, <2>1, <2>2, OverInv DEF WriteStamp
<1>5. CASE Kill
  BY <1>5, FaultType, OverInv DEF Kill
<1>6. CASE RequestFails \/ LoseStamp
  BY <1>6, FaultType, SpoiltInv DEF RequestFails, LoseStamp
<1>7. CASE UNCHANGED vars
  <2>1. stamp' = stamp /\ UNCHANGED <<epoch, data, changedAt, file, host, run, faults, lost, tied>>
    BY <1>7 DEF vars
  <2>. QED
    BY <2>1, SpoiltInv DEF TypeOK
<1>. QED
  BY <1>1, <1>2, <1>3, <1>4, <1>5, <1>6, <1>7 DEF Next, Bundle

LEMMA CmdbFits == CmdbInv => HostFilesFit
BY DEF CmdbInv, HostInv, Fits, HostFilesFit

(* Whatever fails, is killed or gets lost, the files of the hosts have     *)
(* every change that the state file vouches for (update_policy.cf:405-504).*)
THEOREM FilesVouchedFor ==
    ASSUME ConstantsOK
    PROVE  Spec => []HostFilesFit
BY InitInv, CmdbNext, CmdbFits, PTL DEF Spec
=============================================================================
