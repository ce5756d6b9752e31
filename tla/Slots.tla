------------------------------- MODULE Slots -------------------------------
(***************************************************************************)
(* internal/federation/slots.go: the claim of a local federation slot by   *)
(* processes that share a state directory.  The lock file is a file: the   *)
(* process that creates it writes its pid in a second step, and one that   *)
(* finds it stale removes it by name.  The ports are the kernel's: a bound *)
(* port cannot be bound again.  A process may die anywhere.                *)
(***************************************************************************)
EXTENDS Integers, Sequences, FiniteSets, FiniteSetsExt

CONSTANTS
    Processes,
    BasePort, MaxPort,
    MaxLives        \* how often a process is started

ASSUME SlotsAssumption ==
    /\ BasePort \in Nat /\ MaxPort \in Nat /\ BasePort <= MaxPort
    /\ MaxLives \in Nat \ {0}
    /\ "empty" \notin Processes

Ports == BasePort .. MaxPort
NoSlot == -1        \* no listener, no file
Torn == -2          \* a file that was truncated and not yet written

VARIABLES
    lockFile,   \* <<>>, <<"empty", p>> (created by p, no pid yet) or the pid
    identity,   \* identity.json: the port it records, NoSlot or Torn
    tmp,        \* identity.json.tmp
    bound,      \* per process the port it listens on
    role,       \* and the role of its claim
    step,       \* its step
    lives,      \* how often it was started: a life has a pid
    alone       \* history: nobody else was alive since it was started

slotVars == <<lockFile, identity, tmp, bound, role, step, lives, alone>>

Alive(p) == step[p] # "dead"
Pid(p) == <<p, lives[p]>>
Taken == {bound[p] : p \in Processes} \ {NoSlot}

SlotsInit ==
    /\ lockFile = <<>> /\ identity = NoSlot /\ tmp = NoSlot
    /\ bound = [p \in Processes |-> NoSlot] /\ role = [p \in Processes |-> "none"]
    /\ step = [p \in Processes |-> "dead"] /\ lives = [p \in Processes |-> 0]
    /\ alone = [p \in Processes |-> FALSE]

Goes(p, s) == step' = [step EXCEPT ![p] = s]

Launch(p) ==
    /\ step[p] = "dead" /\ lives[p] < MaxLives
    /\ lives' = [lives EXCEPT ![p] = @ + 1]
    /\ alone' = [q \in Processes |-> q = p /\ \A r \in Processes : ~Alive(r)]
    /\ Goes(p, "create")
    /\ UNCHANGED <<lockFile, identity, tmp, bound, role>>

(* acquireSlotLock: O_EXCL; a lock that exists is looked into.             *)
CreateLock(p) ==
    /\ step[p] \in {"create", "recreate"}
    /\ IF lockFile = <<>> THEN lockFile' = <<"empty", p>> /\ Goes(p, "writePid")
       ELSE /\ Goes(p, IF step[p] = "create" THEN "readPid" ELSE "refused")
            /\ UNCHANGED lockFile
    /\ UNCHANGED <<identity, tmp, bound, role, lives, alone>>

WritePid(p) ==
    /\ step[p] = "writePid"
    /\ lockFile' = IF lockFile = <<"empty", p>> THEN Pid(p) ELSE lockFile
    /\ Goes(p, "choose")
    /\ UNCHANGED <<identity, tmp, bound, role, lives, alone>>

(* Mutant of ReadPid: a file without a pid is somebody's.                  *)
ReadPidCautious(p) ==
    /\ step[p] = "readPid"
    /\ Goes(p, IF (lockFile # <<>> /\ lockFile[1] = "empty") \/ \E q \in Processes : Alive(q) /\ lockFile = Pid(q)
               THEN "refused" ELSE "unlink")
    /\ UNCHANGED <<lockFile, identity, tmp, bound, role, lives, alone>>

(* readPID and processAlive: a file without a pid counts as stale.         *)
ReadPid(p) ==
    /\ step[p] = "readPid"
    /\ Goes(p, IF \E q \in Processes : Alive(q) /\ lockFile = Pid(q)
               THEN "refused" ELSE "unlink")
    /\ UNCHANGED <<lockFile, identity, tmp, bound, role, lives, alone>>

UnlinkStale(p) ==
    /\ step[p] = "unlink"
    /\ lockFile' = <<>>
    /\ Goes(p, "recreate")
    /\ UNCHANGED <<identity, tmp, bound, role, lives, alone>>

(* candidatePorts and the loop over it: the previous port if it can be     *)
(* bound, else the first of the range that can.                            *)
CandidatePort(previous, free) == IF previous \in free THEN previous ELSE Min(free)

(* ClaimSlot: bind the port, and the role by it.                           *)
Bind(p) ==
    /\ step[p] = "choose"
    /\ LET free == Ports \ Taken
           port == CandidatePort(identity, free)
       IN  IF free = {} THEN Goes(p, "failed") /\ UNCHANGED <<bound, role>>
           ELSE /\ bound' = [bound EXCEPT ![p] = port]
                /\ role' = [role EXCEPT ![p] =
                               IF port = BasePort THEN "introducer" ELSE "follower"]
                /\ Goes(p, "openTmp")
    /\ UNCHANGED <<lockFile, identity, tmp, lives, alone>>

(* persistIdentity: the temporary file is truncated and written, ...       *)
OpenTmp(p) ==
    /\ step[p] = "openTmp"
    /\ tmp' = Torn
    /\ Goes(p, "writeTmp")
    /\ UNCHANGED <<lockFile, identity, bound, role, lives, alone>>

(* ... (through its descriptor: the file may have been renamed since it    *)
(* was opened, or replaced under its new name) ...                         *)
WriteTmp(p) ==
    /\ step[p] \in {"writeTmp", "writeIdentity", "writeLost"}
    /\ tmp' = IF step[p] = "writeTmp" THEN bound[p] ELSE tmp
    /\ identity' = IF step[p] = "writeIdentity" THEN bound[p] ELSE identity
    /\ Goes(p, "rename")
    /\ UNCHANGED <<lockFile, bound, role, lives, alone>>

(* ... and renamed; if that fails the listener is closed again.            *)
RenameTmp(p) ==
    /\ step[p] = "rename"
    /\ IF tmp = NoSlot
       THEN /\ bound' = [bound EXCEPT ![p] = NoSlot]
            /\ role' = [role EXCEPT ![p] = "none"]
            /\ Goes(p, "failed")
            /\ UNCHANGED <<identity, tmp>>
       ELSE /\ identity' = tmp /\ tmp' = NoSlot
            /\ step' = [q \in Processes |->
                          CASE q = p -> "claimed"
                            [] q # p /\ step[q] = "writeTmp" -> "writeIdentity"
                            [] q # p /\ step[q] = "writeIdentity" -> "writeLost"
                            [] OTHER -> step[q]]
            /\ UNCHANGED <<bound, role>>
    /\ UNCHANGED <<lockFile, lives, alone>>

(* The deferred removal of the lock, by name.                              *)
ReleaseLock(p) ==
    /\ step[p] \in {"claimed", "failed"}
    /\ lockFile' = <<>>
    /\ Goes(p, IF step[p] = "claimed" THEN "serving" ELSE "refused")
    /\ UNCHANGED <<identity, tmp, bound, role, lives, alone>>

(* The process ends, in order or not: its port is free, its files stay.    *)
Die(p) ==
    /\ Alive(p)
    /\ bound' = [bound EXCEPT ![p] = NoSlot]
    /\ role' = [role EXCEPT ![p] = "none"]
    /\ Goes(p, "dead")
    /\ UNCHANGED <<lockFile, identity, tmp, lives, alone>>

SlotsNext == \E p \in Processes :
    \/ Launch(p) \/ CreateLock(p) \/ WritePid(p) \/ ReadPid(p) \/ UnlinkStale(p)
    \/ Bind(p) \/ OpenTmp(p) \/ WriteTmp(p) \/ RenameTmp(p) \/ ReleaseLock(p) \/ Die(p)

SlotsSpec == SlotsInit /\ [][SlotsNext]_slotVars
-----------------------------------------------------------------------------
(* However the locks go, the election holds: at most one process leads,    *)
(* it is the one on the base port, and no two hold a port (and with it an  *)
(* instance id) at once (ClaimSlot).                                       *)
OneIntroducer ==
    /\ \A p, q \in Processes : bound[p] = bound[q] /\ bound[p] # NoSlot => p = q
    /\ \A p \in Processes : (role[p] = "introducer") <=> (bound[p] = BasePort)

(* A process killed between any two steps leaves no lock that keeps the    *)
(* next one out: one that starts when no other process is alive is never   *)
(* refused (acquireSlotLock's stale lock).                                 *)
StaleLockYields ==
    \A p \in Processes : alone[p] => step[p] \notin {"refused", "failed"}

(* "The lowest available port in the configured range is always selected"  *)
(* (ClaimSlot's comment).                                                  *)
LowestSelected ==
    [][\A p \in Processes : bound[p] = NoSlot /\ bound'[p] # NoSlot =>
          bound'[p] = Min(Ports \ Taken)]_slotVars

(* The lock: one process at a time between taking and releasing it.        *)
SlotLockHeld == {p \in Processes : step[p] \in {"writePid", "choose", "openTmp", "writeTmp",
                                              "writeIdentity", "writeLost", "rename", "claimed", "failed"}}
LockExclusive == Cardinality(SlotLockHeld) <= 1

(* Competing claims, crashes between any two steps and stale locks leave   *)
(* one introducer at most and keep no later process out.                   *)
ElectionHolds ==
    /\ OneIntroducer
    /\ StaleLockYields
=============================================================================
