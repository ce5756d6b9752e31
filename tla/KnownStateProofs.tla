-------------------------- MODULE KnownStateProofs --------------------------
(***************************************************************************)
(* Theorems about module KnownState, for every set of targets and callers, *)
(* every threshold and every mix of outcomes, faults included.             *)
(***************************************************************************)
EXTENDS KnownState, TLAPS

(* Observe maps records to records: Update never leaves the record type.   *)
LEMMA ObserveType ==
    ASSUME NEW prev \in TargetState, NEW s \in Status
    PROVE  Observe(prev, s) \in TargetState
BY BaselineAssumption
   DEF Observe, TargetState, Bump, IsHealthy, IsFailure, Status

LEMMA NoStateType == NoState \in TargetState
BY BaselineAssumption DEF NoState, TargetState

LEMMA BlankType == Blank \in Snapshot
BY NoStateType DEF Blank, Snapshot

LEMMA FileTypes ==
    ASSUME NEW s \in Snapshot
    PROVE  {NoFile, EmptyFile, TornFile, Full(s)} \subseteq File
BY BlankType DEF NoFile, EmptyFile, TornFile, Full, File

LEMMA OverlayType ==
    ASSUME NEW old \in File, NEW s \in Snapshot
    PROVE  Overlay(old, s) \subseteq File
BY FileTypes DEF Overlay

-----------------------------------------------------------------------------

LEMMA InitType == Init => TypeOK
<1> SUFFICES ASSUME Init PROVE TypeOK
    OBVIOUS
<1>1. NoFile \in File
    BY FileTypes, BlankType
<1> QED
    BY <1>1, BlankType DEF Init, TypeOK

LEMMA StepType == TypeOK /\ [Next]_vars => TypeOK'
<1> SUFFICES ASSUME TypeOK, [Next]_vars PROVE TypeOK'
    OBVIOUS
<1> USE DEF TypeOK
<1>a. NoFile \in File /\ EmptyFile \in File /\ TornFile \in File
    BY FileTypes, BlankType
<1>1. CASE Load
    BY <1>1, BlankType DEF Load, File
<1>2. CASE Crash
    BY <1>2, BlankType DEF Crash
<1>3. ASSUME NEW c \in Callers, NEW t \in Targets, NEW s \in Outcomes,
             Update(c, t, s)
      PROVE  TypeOK'
  <2>1. s \in Status
      BY KnownStateAssumption
  <2>2. mem' \in Snapshot
      BY <1>3, <2>1, ObserveType DEF Update, Snapshot
  <2> QED
      BY <1>3, <2>2 DEF Update
<1>4. ASSUME NEW c \in Callers, SaveCall(c) PROVE TypeOK'
    BY <1>4 DEF SaveCall
<1>5. ASSUME NEW c \in Callers, NEW del \in BOOLEAN, Reset(c, del)
      PROVE  TypeOK'
    BY <1>5, BlankType DEF Reset
<1>6. ASSUME NEW c \in Callers, SaveStep(c) PROVE TypeOK'
  <2>1. CASE CloneSnapshot(c)
      BY <2>1 DEF CloneSnapshot
  <2>2. CASE SaveCancelled(c)
      BY <2>2 DEF SaveCancelled
  <2>3. CASE OpenTmp(c)
      BY <2>3, <1>a DEF OpenTmp
  <2>4. CASE WriteFile(c)
    <3>1. snap[c] \in Snapshot
        OBVIOUS
    <3>2. tmp' \in File /\ path' \in File
        BY <2>4, <3>1, OverlayType DEF WriteFile
    <3> QED
        BY <2>4, <3>2, BlankType DEF WriteFile
  <2>5. CASE WriteFails(c)
    <3>1. tmp' \in File /\ path' \in File
        BY <2>5, <1>a DEF WriteFails
    <3> QED
        BY <2>5, <3>1, BlankType DEF WriteFails
  <2>6. CASE Rename(c)
      BY <2>6, <1>a DEF Rename
  <2>7. CASE RenameFails(c)
      BY <2>7 DEF RenameFails
  <2>8. CASE RemoveTmp(c)
      BY <2>8, <1>a DEF RemoveTmp
  <2>9. CASE RemovePath(c)
      BY <2>9, <1>a DEF RemovePath
  <2> QED
      BY <1>6, <2>1, <2>2, <2>3, <2>4, <2>5, <2>6, <2>7, <2>8, <2>9
      DEF SaveStep
<1>7. CASE UNCHANGED vars
    BY <1>7 DEF vars
<1> QED
    BY <1>1, <1>2, <1>3, <1>4, <1>5, <1>6, <1>7 DEF Next

(* The store's memory, its two files and every caller's place in Save keep *)
(* their types through any interleaving of calls, faults and restarts.     *)
THEOREM TypeCorrect == Spec => []TypeOK
BY InitType, StepType, PTL DEF Spec

-----------------------------------------------------------------------------
(* The counters. *)

LEMMA ObserveAgrees ==
    ASSUME NEW prev \in TargetState, NEW s \in Status
    PROVE  CountersAgree(Observe(prev, s))
<1> DEFINE o == Observe(prev, s)
           n == IF IsHealthy(s) THEN Bump(prev.streak) ELSE 0
           f == IF IsFailure(s) THEN Bump(prev.fails) ELSE 0
<1>1. /\ o.status = s /\ o.streak = n /\ o.fails = f
      /\ o.ever = (prev.ever \/ (IsHealthy(s) /\ n >= SustainSuccess))
    BY DEF Observe
<1>2. n > 0 <=> IsHealthy(s)
    BY BaselineAssumption DEF TargetState, Bump
<1>3. f > 0 <=> IsFailure(s)
    BY BaselineAssumption DEF TargetState, Bump
<1>4. n >= SustainSuccess => IsHealthy(s)
    BY BaselineAssumption DEF TargetState
<1>5. s # "absent"
    BY DEF Status
<1>6. o.streak >= SustainSuccess => o.ever
  <2> SUFFICES ASSUME o.streak >= SustainSuccess PROVE o.ever
      OBVIOUS
  <2>1. IsHealthy(s) /\ n >= SustainSuccess
      BY <1>1, <1>4
  <2> HIDE DEF o, n
  <2> QED
      BY <1>1, <2>1, Zenon
<1> HIDE DEF o, n, f
<1>7. CountersAgree(o)
    BY <1>1, <1>2, <1>3, <1>5, <1>6 DEF CountersAgree
<1> QED
    BY <1>7 DEF o

LEMMA NoStateAgrees == CountersAgree(NoState)
BY BaselineAssumption DEF CountersAgree, NoState, IsHealthy, IsFailure

(* A snapshot all of whose records agree.                                  *)
Agrees(s) == \A t \in Targets : CountersAgree(s[t])

LEMMA BlankAgrees == Agrees(Blank)
BY NoStateAgrees DEF Agrees, Blank

LEMMA FilesAgree ==
    ASSUME NEW s, Agrees(s)
    PROVE  /\ Agrees(NoFile.data) /\ Agrees(EmptyFile.data)
           /\ Agrees(TornFile.data) /\ Agrees(Full(s).data)
BY BlankAgrees DEF NoFile, EmptyFile, TornFile, Full

LEMMA RecordsInit == Init => RecordsConsistent
<1> SUFFICES ASSUME Init PROVE RecordsConsistent
    OBVIOUS
<1>1. Agrees(Blank) /\ Agrees(NoFile.data)
    BY BlankAgrees, FilesAgree
<1> QED
    BY <1>1 DEF Init, RecordsConsistent, Agrees

LEMMA RecordsStep == TypeOK /\ RecordsConsistent /\ [Next]_vars
                     => RecordsConsistent'
<1> SUFFICES ASSUME TypeOK, RecordsConsistent, [Next]_vars
             PROVE  RecordsConsistent'
    OBVIOUS
<1> DEFINE Parts == /\ Agrees(mem) /\ Agrees(tmp.data) /\ Agrees(path.data)
                    /\ \A c \in Callers : Agrees(snap[c])
<1>a. Parts
    BY DEF RecordsConsistent, Agrees
<1>b. Parts' => RecordsConsistent'
    BY DEF RecordsConsistent, Agrees
<1>c. /\ Agrees(Blank) /\ Agrees(NoFile.data)
      /\ Agrees(EmptyFile.data) /\ Agrees(TornFile.data)
    BY BlankAgrees, FilesAgree
<1>1. CASE Load
    BY <1>1, <1>a, <1>b, <1>c DEF Load
<1>2. CASE Crash
    BY <1>2, <1>a, <1>b, <1>c DEF Crash
<1>3. ASSUME NEW c \in Callers, NEW t \in Targets, NEW s \in Outcomes,
             Update(c, t, s)
      PROVE  RecordsConsistent'
  <2>1. CountersAgree(Observe(mem[t], s))
      BY KnownStateAssumption, ObserveAgrees DEF TypeOK, Snapshot
  <2>2. Agrees(mem')
      BY <1>3, <1>a, <2>1 DEF Update, Agrees, TypeOK, Snapshot
  <2> QED
      BY <1>3, <1>a, <1>b, <2>2 DEF Update
<1>4. ASSUME NEW c \in Callers, SaveCall(c) PROVE RecordsConsistent'
    BY <1>4, <1>a, <1>b DEF SaveCall
<1>5. ASSUME NEW c \in Callers, NEW del \in BOOLEAN, Reset(c, del)
      PROVE  RecordsConsistent'
    BY <1>5, <1>a, <1>b, <1>c DEF Reset
<1>6. ASSUME NEW c \in Callers, SaveStep(c) PROVE RecordsConsistent'
  <2>1. CASE CloneSnapshot(c)
      BY <2>1, <1>a, <1>b DEF CloneSnapshot, TypeOK
  <2>2. CASE SaveCancelled(c)
      BY <2>2, <1>a, <1>b DEF SaveCancelled
  <2>3. CASE OpenTmp(c)
      BY <2>3, <1>a, <1>b, <1>c DEF OpenTmp
  <2>4. CASE WriteFile(c)
    <3>1. Agrees(Full(snap[c]).data)
        BY <1>a, FilesAgree
    <3>2. \A f : \A x \in Overlay(f, snap[c]) : Agrees(x.data)
        BY <3>1, <1>c DEF Overlay
    <3>3. Agrees(tmp'.data) /\ Agrees(path'.data)
        BY <2>4, <3>2, <1>a DEF WriteFile
    <3> QED
        BY <2>4, <3>3, <1>a, <1>b, <1>c DEF WriteFile, TypeOK
  <2>5. CASE WriteFails(c)
      BY <2>5, <1>a, <1>b, <1>c DEF WriteFails, TypeOK
  <2>6. CASE Rename(c)
      BY <2>6, <1>a, <1>b, <1>c DEF Rename
  <2>7. CASE RenameFails(c)
      BY <2>7, <1>a, <1>b DEF RenameFails
  <2>8. CASE RemoveTmp(c)
      BY <2>8, <1>a, <1>b, <1>c DEF RemoveTmp
  <2>9. CASE RemovePath(c)
      BY <2>9, <1>a, <1>b, <1>c DEF RemovePath
  <2> QED
      BY <1>6, <2>1, <2>2, <2>3, <2>4, <2>5, <2>6, <2>7, <2>8, <2>9
      DEF SaveStep
<1>7. CASE UNCHANGED vars
    BY <1>7, <1>a, <1>b DEF vars
<1> QED
    BY <1>1, <1>2, <1>3, <1>4, <1>5, <1>6, <1>7 DEF Next

(* Every record in memory, in a caller's clone and in either file has      *)
(* counters that agree with its status, so a process restarted from a file *)
(* that decodes counts on from a truthful record (Update and Load).        *)
THEOREM CountersTruthful == Spec => []RecordsConsistent
BY InitType, StepType, RecordsInit, RecordsStep, PTL DEF Spec

-----------------------------------------------------------------------------
(* The baseline. *)

(* A process that is not running has nothing in memory; without this a     *)
(* Load could be a step that forgets a baseline.                           *)
DownIsBlank == proc = "down" => mem = Blank

LEMMA DownStep == DownIsBlank /\ [Next]_vars => DownIsBlank'
BY DEF DownIsBlank, Next, vars, Load, Crash, Update, SaveCall, Reset, SaveStep,
       CloneSnapshot, SaveCancelled, OpenTmp, WriteFile, WriteFails, Rename,
       RenameFails, RemoveTmp, RemovePath

LEMMA ObserveKeepsEver ==
    ASSUME NEW prev, NEW s, prev.ever
    PROVE  Observe(prev, s).ever
<1>1. Observe(prev, s).ever =
        (prev.ever \/ (IsHealthy(s) /\ Observe(prev, s).streak >= SustainSuccess))
    BY DEF Observe
<1> QED
    BY <1>1, Zenon

LEMMA SticksStep ==
    ASSUME TypeOK, DownIsBlank, [Next]_vars,
           NEW t \in Targets, mem[t].ever, ~mem'[t].ever
    PROVE  mem' = Blank
<1>1. CASE Load
  <2>1. mem[t] = NoState
      BY <1>1 DEF Load, DownIsBlank, Blank
  <2> QED
      BY <2>1 DEF NoState
<1>2. CASE Crash
    BY <1>2 DEF Crash
<1>3. ASSUME NEW c \in Callers, NEW u \in Targets, NEW s \in Outcomes,
             Update(c, u, s)
      PROVE  FALSE
  <2>1. CASE u = t
    <3>1. mem'[t] = Observe(mem[t], s)
        BY <1>3, <2>1 DEF Update, TypeOK, Snapshot
    <3> QED
        BY <3>1, ObserveKeepsEver
  <2>2. CASE u # t
    <3>1. mem'[t] = mem[t]
        BY <1>3, <2>2 DEF Update, TypeOK, Snapshot
    <3> QED
        BY <3>1
  <2> QED
      BY <2>1, <2>2
<1>4. ASSUME NEW c \in Callers, NEW del \in BOOLEAN, Reset(c, del)
      PROVE  mem' = Blank
    BY <1>4 DEF Reset
<1>5. ASSUME NEW c \in Callers, SaveCall(c) \/ SaveStep(c)
      PROVE  mem' = mem
    BY <1>5 DEF SaveCall, SaveStep, CloneSnapshot, SaveCancelled, OpenTmp,
                WriteFile, WriteFails, Rename, RenameFails, RemoveTmp,
                RemovePath
<1>6. CASE UNCHANGED vars
    BY <1>6 DEF vars
<1> QED
    BY <1>1, <1>2, <1>3, <1>4, <1>5, <1>6 DEF Next

(* No sequence of observations, concurrent saves or errors takes a healthy *)
(* baseline away from one target: it goes with all of memory, by Reset or  *)
(* by losing the process, or not at all.                                   *)
THEOREM BaselineKept == Spec => BaselineSticks
<1> DEFINE Sticks ==
      \A t \in Targets : mem[t].ever /\ ~mem'[t].ever => mem' = Blank
<1>1. Init => DownIsBlank
    BY DEF Init, DownIsBlank
<1>2. TypeOK /\ DownIsBlank /\ [Next]_vars => [Sticks]_vars
    BY SticksStep
<1> QED
    BY <1>1, <1>2, InitType, StepType, DownStep, PTL DEF Spec, BaselineSticks

-----------------------------------------------------------------------------
(* One caller at a time. *)

OneCaller == \A c, d \in Callers : c = d

(* Where a lone caller is in Save determines what path.tmp holds and that  *)
(* the clone it writes is still what memory holds; path is never partial.  *)
SerialInv ==
    /\ PathWhole
    /\ proc # "failed"
    /\ \A c \in Callers :
          /\ pc[c] # "idle" => proc = "up"
          /\ pc[c] \in {"open", "write"} => snap[c] = mem
          /\ pc[c] = "write" => fd[c] = "tmp" /\ tmp = EmptyFile
          /\ pc[c] # "write" => fd[c] = "none"
          /\ pc[c] = "rename" => tmp = Full(mem)

LEMMA SerialInit == Init => SerialInv
BY DEF Init, SerialInv, PathWhole, NoFile

LEMMA SerialStep ==
    ASSUME OneCaller PROVE TypeOK /\ SerialInv /\ [Next]_vars => SerialInv'
<1> SUFFICES ASSUME TypeOK, SerialInv, [Next]_vars PROVE SerialInv'
    OBVIOUS
<1> USE DEF SerialInv, PathWhole
<1>1. CASE Load
    BY <1>1 DEF Load
<1>2. CASE Crash
    BY <1>2 DEF Crash
<1>3. ASSUME NEW c \in Callers, NEW t \in Targets, NEW s \in Outcomes,
             Update(c, t, s)
      PROVE  SerialInv'
    BY <1>3, OneCaller DEF Update, TypeOK, OneCaller
<1>4. ASSUME NEW c \in Callers, SaveCall(c) PROVE SerialInv'
    BY <1>4 DEF SaveCall, TypeOK
<1>5. ASSUME NEW c \in Callers, NEW del \in BOOLEAN, Reset(c, del)
      PROVE  SerialInv'
    BY <1>5, OneCaller DEF Reset, TypeOK, OneCaller
<1>6. ASSUME NEW c \in Callers, SaveStep(c) PROVE SerialInv'
  <2>1. CASE CloneSnapshot(c)
      BY <2>1 DEF CloneSnapshot, TypeOK
  <2>2. CASE SaveCancelled(c)
      BY <2>2 DEF SaveCancelled, TypeOK
  <2>3. CASE OpenTmp(c)
      BY <2>3, OneCaller DEF OpenTmp, TypeOK, OneCaller
  <2>4. CASE WriteFile(c)
    <3>1. path' = path /\ tmp' = Full(mem)
        BY <2>4 DEF WriteFile, Overlay
    <3> QED
        BY <2>4, <3>1, OneCaller DEF WriteFile, TypeOK, OneCaller
  <2>5. CASE WriteFails(c)
      BY <2>5, OneCaller DEF WriteFails, TypeOK, OneCaller
  <2>6. CASE Rename(c)
    <3>1. \A x \in Callers : fd[x] = "none"
        BY <2>6, OneCaller DEF Rename, OneCaller
    <3>2. \A x \in Callers : fd'[x] = "none"
        BY <2>6, <3>1 DEF Rename
    <3>3. path'.kind = "full"
        BY <2>6 DEF Rename, Full
    <3> QED
        BY <2>6, <3>2, <3>3, OneCaller DEF Rename, TypeOK, OneCaller
  <2>7. CASE RenameFails(c)
      BY <2>7 DEF RenameFails, TypeOK
  <2>8. CASE RemoveTmp(c)
      BY <2>8, OneCaller DEF RemoveTmp, TypeOK, OneCaller
  <2>9. CASE RemovePath(c)
    <3>1. path'.kind = "none"
        BY <2>9 DEF RemovePath, NoFile
    <3> QED
        BY <2>9, <3>1, OneCaller DEF RemovePath, TypeOK, OneCaller
  <2> QED
      BY <1>6, <2>1, <2>2, <2>3, <2>4, <2>5, <2>6, <2>7, <2>8, <2>9
      DEF SaveStep
<1>7. CASE UNCHANGED vars
    BY <1>7 DEF vars
<1> QED
    BY <1>1, <1>2, <1>3, <1>4, <1>5, <1>6, <1>7 DEF Next

(* While calls of the store do not overlap, whoever reads path finds no    *)
(* file or one whole snapshot, through failed writes and crashes at any    *)
(* step of Save.  (KnownStateTorn shows that overlapping calls break it.)  *)
THEOREM SerialPathWhole ==
    ASSUME OneCaller PROVE Spec => []PathWhole
<1>1. TypeOK /\ SerialInv /\ [Next]_vars => SerialInv'
    BY SerialStep, OneCaller
<1>2. SerialInv => PathWhole
    BY DEF SerialInv
<1> QED
    BY <1>1, <1>2, InitType, StepType, SerialInit, PTL DEF Spec

LEMMA AtomicInit == Init => Atomic!Init
BY DEF Init, Atomic!Init, Atomic!NoBaseline, Atomic!NoState, Blank, NoState, NoFile

(* Each step of a lone caller is a step of AtomicBaseline or changes       *)
(* nothing it can see: the rename is Persist, all steps before it stutter. *)
LEMMA AtomicStep ==
    ASSUME OneCaller
    PROVE  TypeOK /\ SerialInv /\ [Next]_vars => [Atomic!Next]_(Atomic!vars)
<1> SUFFICES ASSUME TypeOK, SerialInv, [Next]_vars
             PROVE  [Atomic!Next]_(Atomic!vars)
    OBVIOUS
<1> USE DEF Atomic!vars
<1>a. Atomic!NoBaseline = Blank
    BY DEF Atomic!NoBaseline, Blank, Atomic!NoState, NoState
<1>1. CASE Load
  <2>1. Atomic!Restart
    <3>1. CASE path.kind = "full"
        BY <1>1, <3>1 DEF Load, Atomic!Restart
    <3>2. CASE path.kind = "none"
        BY <1>1, <3>2, <1>a DEF Load, Atomic!Restart
    <3> QED
        BY <3>1, <3>2 DEF SerialInv, PathWhole
  <2> QED
      BY <2>1 DEF Atomic!Next
<1>2. CASE Crash
    BY <1>2, <1>a DEF Crash, Atomic!Next, Atomic!Die
<1>3. ASSUME NEW c \in Callers, NEW t \in Targets, NEW s \in Outcomes,
             Update(c, t, s)
      PROVE  Atomic!Next
  <2>1. Atomic!Observe(mem[t], s) = Observe(mem[t], s)
      BY DEF Atomic!Observe, Observe, Atomic!Bump, Bump, Atomic!IsHealthy,
             IsHealthy, Atomic!IsFailure, IsFailure
  <2>2. Atomic!Record(t, s)
      BY <1>3, <2>1 DEF Update, Atomic!Record
  <2> QED
      BY <2>2 DEF Atomic!Next
<1>4. ASSUME NEW c \in Callers, NEW del \in BOOLEAN, Reset(c, del)
      PROVE  Atomic!Next
    BY <1>4, <1>a DEF Reset, Atomic!Next, Atomic!Forget
<1>5. ASSUME NEW c \in Callers, SaveCall(c) \/ SaveStep(c)
      PROVE  [Atomic!Next]_(Atomic!vars)
  <2>1. CASE Rename(c)
    <3>1. path' = Full(mem) /\ proc = "up" /\ proc' = proc /\ mem' = mem
        BY <2>1 DEF Rename, SerialInv
    <3>2. path'.kind = "full" /\ path'.data = mem
        BY <3>1 DEF Full
    <3>3. Atomic!Persist
        BY <3>1, <3>2 DEF Atomic!Persist
    <3> QED
        BY <3>3 DEF Atomic!Next
  <2>2. CASE RemovePath(c)
    <3>1. path'.kind = "none" /\ proc = "up" /\ proc' = proc /\ mem' = mem
        BY <2>2 DEF RemovePath, SerialInv, NoFile
    <3> QED
        BY <3>1 DEF Atomic!Next, Atomic!Erase
  <2>3. CASE WriteFile(c) \/ WriteFails(c)
      BY <2>3 DEF WriteFile, WriteFails, SerialInv
  <2>4. CASE \/ SaveCall(c) \/ CloneSnapshot(c) \/ SaveCancelled(c)
             \/ OpenTmp(c) \/ RenameFails(c) \/ RemoveTmp(c)
      BY <2>4 DEF SaveCall, CloneSnapshot, SaveCancelled, OpenTmp,
                  RenameFails, RemoveTmp
  <2> QED
      BY <1>5, <2>1, <2>2, <2>3, <2>4 DEF SaveStep
<1>6. CASE UNCHANGED vars
    BY <1>6 DEF vars
<1> QED
    BY <1>1, <1>2, <1>3, <1>4, <1>5, <1>6 DEF Next

(* While calls do not overlap, the store that writes path.tmp and renames  *)
(* it implements the store whose save is one step: a reader of path, and a *)
(* process restarted from it, cannot tell them apart.                      *)
THEOREM SerialRefinement ==
    ASSUME OneCaller PROVE Spec => ImplementsAtomicBaseline
<1>1. TypeOK /\ SerialInv /\ [Next]_vars => SerialInv'
    BY SerialStep, OneCaller
<1>2. TypeOK /\ SerialInv /\ [Next]_vars => [Atomic!Next]_(Atomic!vars)
    BY AtomicStep, OneCaller
<1> QED
    BY <1>1, <1>2, InitType, StepType, SerialInit, AtomicInit, PTL
    DEF Spec, ImplementsAtomicBaseline, Atomic!Spec
=============================================================================
