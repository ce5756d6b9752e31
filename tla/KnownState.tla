----------------------------- MODULE KnownState -----------------------------
(***************************************************************************)
(* internal/knownstate/store.go: the store behind the regression baseline. *)
(*                                                                         *)
(* The in-memory snapshot is guarded by a lock, but Save only holds the    *)
(* lock while it clones the snapshot: the file work that follows (truncate *)
(* path.tmp, write it, rename it over path) runs unlocked, under one       *)
(* temporary name shared by every caller.  Callers are the goroutines that *)
(* may be inside the store at the same time: the engine's monitor loops,   *)
(* and Start's final Save.                                                 *)
(*                                                                         *)
(* A file is an inode, and a caller's open descriptor follows the inode    *)
(* and not the name: after another caller's rename a descriptor opened on  *)
(* path.tmp writes into path itself.                                       *)
(***************************************************************************)
EXTENDS Baseline

CONSTANTS
    Targets,      \* target ids
    Callers,      \* goroutines calling into the store
    Outcomes,     \* the statuses callers report
    AutoPersist,  \* WithAutoPersist: save after every update
    Faults        \* whether the process may crash and writes may fail

ASSUME KnownStateAssumption ==
    /\ Outcomes \subseteq Status
    /\ AutoPersist \in BOOLEAN
    /\ Faults \in BOOLEAN

VARIABLES
    proc,   \* the process: "up", "down", or "failed" when Load gave an error
    mem,    \* s.snapshot.Targets
    tmp,    \* the file named path.tmp
    path,   \* the file named path
    pc,     \* where each caller is inside Update, Save or Reset
    snap,   \* the clone a caller is about to write, Blank when there is none
    fd      \* which file the caller's descriptor refers to

vars == <<proc, mem, tmp, path, pc, snap, fd>>

-----------------------------------------------------------------------------

Snapshot == [Targets -> TargetState]

Blank == [t \in Targets |-> NoState]

(* What a name refers to.  An "empty" file was truncated and not written   *)
(* yet; a "torn" one holds the head of one snapshot and the tail of        *)
(* another, or a write that stopped half way.  Neither decodes as JSON.    *)
File == [kind : {"none", "empty", "torn", "full"}, data : Snapshot]

NoFile    == [kind |-> "none",  data |-> Blank]
EmptyFile == [kind |-> "empty", data |-> Blank]
TornFile  == [kind |-> "torn",  data |-> Blank]
Full(s)   == [kind |-> "full",  data |-> s]

(* Writing snapshot s at offset 0 of a file.  A shorter text leaves the    *)
(* tail of what another caller wrote there.                                *)
Overlay(old, s) ==
    IF old \in {EmptyFile, Full(s)} THEN {Full(s)} ELSE {Full(s), TornFile}

Init ==
    /\ proc = "down"
    /\ mem = Blank
    /\ tmp = NoFile
    /\ path = NoFile
    /\ pc = [c \in Callers |-> "idle"]
    /\ snap = [c \in Callers |-> Blank]
    /\ fd = [c \in Callers |-> "none"]

(* Mutant of Load: resumes from a left-over path.tmp when it decodes.      *)
LoadPrefersTmp ==
    /\ proc = "down"
    /\ proc' = IF path.kind \in {"none", "full"} THEN "up" ELSE "failed"
    /\ mem' = CASE tmp.kind = "full" -> tmp.data
                [] tmp.kind # "full" /\ path.kind = "full" -> path.data
                [] OTHER -> Blank
    /\ UNCHANGED <<tmp, path, pc, snap, fd>>

(* NewStore, then Load: a missing file is a fresh store, an undecodable    *)
(* one is an error that Engine.Start returns, now and at every restart.    *)
(* (A file that cannot be read fails the start too and changes nothing.)   *)
Load ==
    /\ proc = "down"
    /\ proc' = IF path.kind \in {"none", "full"} THEN "up" ELSE "failed"
    /\ mem' = IF path.kind = "full" THEN path.data ELSE Blank
    /\ UNCHANGED <<tmp, path, pc, snap, fd>>

-----------------------------------------------------------------------------
(* The three calls. *)

Update(c, t, s) ==
    /\ proc = "up" /\ pc[c] = "idle"
    /\ mem' = [mem EXCEPT ![t] = Observe(@, s)]
    /\ pc' = [pc EXCEPT ![c] = IF AutoPersist THEN "save" ELSE "idle"]
    /\ UNCHANGED <<proc, tmp, path, snap, fd>>

SaveCall(c) ==
    /\ proc = "up" /\ pc[c] = "idle"
    /\ pc' = [pc EXCEPT ![c] = "save"]
    /\ UNCHANGED <<proc, mem, tmp, path, snap, fd>>

Reset(c, deleteFile) ==
    /\ proc = "up" /\ pc[c] = "idle"
    /\ mem' = Blank
    /\ pc' = [pc EXCEPT ![c] = IF deleteFile THEN "delete" ELSE "save"]
    /\ UNCHANGED <<proc, tmp, path, snap, fd>>

-----------------------------------------------------------------------------
(* Save, one step per effect another caller can see. *)

(* The caller's context was cancelled since the call began, or the         *)
(* directory cannot be made: Save returns the error before it touches a    *)
(* file, and what Update put in memory stays there.                        *)
SaveCancelled(c) ==
    /\ pc[c] = "save"
    /\ pc' = [pc EXCEPT ![c] = "idle"]
    /\ UNCHANGED <<proc, mem, tmp, path, snap, fd>>

CloneSnapshot(c) ==
    /\ pc[c] = "save"
    /\ snap' = [snap EXCEPT ![c] = mem]
    /\ pc' = [pc EXCEPT ![c] = "open"]
    /\ UNCHANGED <<proc, mem, tmp, path, fd>>

(* os.WriteFile opens with O_CREATE|O_TRUNC: an existing path.tmp, possibly *)
(* one another caller is writing, is emptied.                               *)
OpenTmp(c) ==
    /\ pc[c] = "open"
    /\ tmp' = EmptyFile
    /\ fd' = [fd EXCEPT ![c] = "tmp"]
    /\ pc' = [pc EXCEPT ![c] = "write"]
    /\ UNCHANGED <<proc, mem, path, snap>>

(* The write lands wherever the descriptor's inode is now named.           *)
WriteFile(c) ==
    /\ pc[c] = "write"
    /\ tmp'  \in IF fd[c] = "tmp"  THEN Overlay(tmp, snap[c])  ELSE {tmp}
    /\ path' \in IF fd[c] = "path" THEN Overlay(path, snap[c]) ELSE {path}
    /\ fd' = [fd EXCEPT ![c] = "none"]
    /\ snap' = [snap EXCEPT ![c] = Blank]
    /\ pc' = [pc EXCEPT ![c] = "rename"]
    /\ UNCHANGED <<proc, mem>>

(* A write that fails (the disk is full) is reported; path.tmp is left.    *)
WriteFails(c) ==
    /\ Faults
    /\ pc[c] = "write"
    /\ tmp'  \in IF fd[c] = "tmp"  THEN {tmp, TornFile}  ELSE {tmp}
    /\ path' \in IF fd[c] = "path" THEN {path, TornFile} ELSE {path}
    /\ fd' = [fd EXCEPT ![c] = "none"]
    /\ snap' = [snap EXCEPT ![c] = Blank]
    /\ pc' = [pc EXCEPT ![c] = "idle"]
    /\ UNCHANGED <<proc, mem>>

(* rename(2) moves the inode: descriptors open on path.tmp now refer to    *)
(* path, those on the old path to a file without a name.                   *)
Rename(c) ==
    /\ pc[c] = "rename"
    /\ tmp # NoFile
    /\ path' = tmp
    /\ tmp' = NoFile
    /\ fd' = [x \in Callers |-> CASE fd[x] = "tmp" -> "path"
                                  [] fd[x] = "path" -> "unlinked"
                                  [] OTHER -> fd[x]]
    /\ pc' = [pc EXCEPT ![c] = "idle"]
    /\ UNCHANGED <<proc, mem, snap>>

(* Another caller renamed or removed the shared temporary file first, or   *)
(* the file system refuses: the rename fails, and the error path removes   *)
(* whatever is named path.tmp by then.                                     *)
RenameFails(c) ==
    /\ pc[c] = "rename"
    /\ tmp = NoFile \/ Faults
    /\ pc' = [pc EXCEPT ![c] = "cleanup"]
    /\ UNCHANGED <<proc, mem, tmp, path, snap, fd>>

RemoveTmp(c) ==
    /\ pc[c] = "cleanup"
    /\ tmp' = NoFile
    /\ fd' = [x \in Callers |-> IF fd[x] = "tmp" THEN "unlinked" ELSE fd[x]]
    /\ pc' = [pc EXCEPT ![c] = "idle"]
    /\ UNCHANGED <<proc, mem, path, snap>>

(* Reset with deleteFile. *)
RemovePath(c) ==
    /\ pc[c] = "delete"
    /\ path' = NoFile
    /\ fd' = [x \in Callers |-> IF fd[x] = "path" THEN "unlinked" ELSE fd[x]]
    /\ pc' = [pc EXCEPT ![c] = "idle"]
    /\ UNCHANGED <<proc, mem, tmp, snap>>

-----------------------------------------------------------------------------

(* The process dies: memory and descriptors go, the two files stay.        *)
Crash ==
    /\ Faults
    /\ proc = "up"
    /\ proc' = "down"
    /\ mem' = Blank
    /\ pc' = [c \in Callers |-> "idle"]
    /\ snap' = [c \in Callers |-> Blank]
    /\ fd' = [c \in Callers |-> "none"]
    /\ UNCHANGED <<tmp, path>>

SaveStep(c) ==
    \/ CloneSnapshot(c) \/ SaveCancelled(c)
    \/ OpenTmp(c)
    \/ WriteFile(c) \/ WriteFails(c)
    \/ Rename(c) \/ RenameFails(c) \/ RemoveTmp(c)
    \/ RemovePath(c)

Next ==
    \/ Load
    \/ Crash
    \/ \E c \in Callers :
          \/ \E t \in Targets, s \in Outcomes : Update(c, t, s)
          \/ SaveCall(c)
          \/ \E del \in BOOLEAN : Reset(c, del)
          \/ SaveStep(c)

(* A goroutine inside the store keeps running: nothing in Save blocks.     *)
Spec == Init /\ [][Next]_vars /\ \A c \in Callers : WF_vars(SaveStep(c))

-----------------------------------------------------------------------------
(* Properties. *)

TypeOK ==
    /\ proc \in {"up", "down", "failed"}
    /\ mem \in Snapshot
    /\ tmp \in File
    /\ path \in File
    /\ pc \in [Callers -> {"idle", "save", "open", "write", "rename",
                           "cleanup", "delete"}]
    /\ snap \in [Callers -> Snapshot]
    /\ fd \in [Callers -> {"none", "tmp", "path", "unlinked"}]

(* Every record the store serves, has cloned or has written holds counters *)
(* that agree with its status, so that a restart from any file that        *)
(* decodes resumes counting correctly (Update's transition accounting).    *)
RecordsConsistent ==
    \A t \in Targets :
        /\ CountersAgree(mem[t])
        /\ CountersAgree(tmp.data[t])
        /\ CountersAgree(path.data[t])
        /\ \A c \in Callers : CountersAgree(snap[c][t])

(* Save's promise: whoever reads path finds no file or one whole snapshot. *)
PathWhole == path.kind \in {"none", "full"}

(* A healthy baseline is forgotten only wholesale, by Reset or by losing   *)
(* the process: no sequence of observations, saves or errors un-promotes   *)
(* one target (EverHealthy is what turns a failure into a regression).     *)
BaselineSticks ==
    [][\A t \in Targets : mem[t].ever /\ ~mem'[t].ever => mem' = Blank]_vars

(* With one caller at a time the store implements AtomicBaseline: no write *)
(* of the temporary file, failed write or crash between two steps of Save  *)
(* is ever visible under path, and what is visible is what memory held.    *)
Atomic == INSTANCE AtomicBaseline
    WITH up <- (proc = "up"),
         memory <- mem,
         durable <- IF path.kind = "full" THEN <<path.data>> ELSE <<>>

ImplementsAtomicBaseline == Atomic!Spec

=============================================================================
