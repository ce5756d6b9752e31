--------------------------- MODULE ServicesProofs ---------------------------
(* Proofs about the services around the engine. Each part has a section:   *)
(* its inductive invariant, as a conjunction of named parts, that the      *)
(* initial states satisfy it, that every step keeps it, and the theorem.   *)
(* The lemmas about sequences are those of HostedProofs.                   *)
EXTENDS Slots, HealthServer, Readiness, Notifiers, ServerManager,
        HostedProofs, FiniteSetTheorems

-----------------------------------------------------------------------------
(* The slots of the federation: who binds which port.                      *)

(* The steps of a process that listens on a port.                          *)
Listening == {"openTmp", "writeTmp", "writeIdentity", "writeLost", "rename", "claimed", "serving"}

(* The steps before a process has written its pid.                         *)
Unsigned == {"create", "readPid", "unlink", "recreate", "writePid"}

(* The shape of the slots: what each process has bound, its role and how   *)
(* far it is.                                                              *)
SlotsTypeOK ==
    /\ lives \in [Processes -> Nat]
    /\ bound \in [Processes -> Ports \cup {NoSlot}]
    /\ role \in [Processes -> {"none", "introducer", "follower"}]
    /\ step \in [Processes -> Listening \cup Unsigned
                              \cup {"dead", "choose", "failed", "refused"}]
    /\ alone \in [Processes -> BOOLEAN]

(* A process has a port exactly while it listens.                          *)
PortsHeld == \A p \in Processes : bound[p] # NoSlot <=> step[p] \in Listening

(* The lock names no life that has not begun, and none that has not come   *)
(* to writing its pid: a stale lock is never taken for one's own.          *)
PidsWritten ==
    /\ \A q \in Processes : \A n \in Nat : n > lives[q] => lockFile # <<q, n>>
    /\ \A p \in Processes : step[p] \in Unsigned => lockFile # Pid(p)

(* What a process that is alone finds on its way: a stale lock it can      *)
(* remove, a port to bind and a temporary file that is still there to be   *)
(* renamed.                                                                *)
AloneClears ==
    \A p \in Processes : alone[p] =>
        /\ \A q \in Processes : q # p => step[q] = "dead"
        /\ step[p] \notin {"refused", "failed", "writeIdentity", "writeLost"}
        /\ step[p] = "recreate" => lockFile = <<>>
        /\ step[p] = "rename" => tmp # NoSlot

(* The inductive invariant of the slots.                                   *)
SlotsInv == SlotsTypeOK /\ OneIntroducer /\ PortsHeld /\ PidsWritten /\ AloneClears

(* The port that ClaimSlot binds is one that can be bound: the previous    *)
(* one, or the first free one.                                             *)
LEMMA CandidateFree ==
    ASSUME NEW previous, NEW free, free \subseteq Ports, free # {}
    PROVE  CandidatePort(previous, free) \in free
<1>1. free \subseteq Nat BY SlotsAssumption DEF Ports
<1>2. Min(free) \in free BY <1>1, LeastOfNats
<1> QED BY <1>2 DEF CandidatePort

(* The invariant holds before any process was started.                     *)
LEMMA SlotsStart == SlotsInit => SlotsInv
<1> SUFFICES ASSUME SlotsInit PROVE SlotsInv OBVIOUS
<1>1. BasePort # NoSlot BY SlotsAssumption DEF NoSlot
<1>2. SlotsTypeOK BY DEF SlotsInit, SlotsTypeOK
<1>3. OneIntroducer BY <1>1 DEF SlotsInit, OneIntroducer
<1>4. PortsHeld BY DEF SlotsInit, PortsHeld, Listening
<1>5. PidsWritten BY DEF SlotsInit, PidsWritten, Unsigned
<1>6. AloneClears BY DEF SlotsInit, AloneClears
<1> QED BY <1>2, <1>3, <1>4, <1>5, <1>6 DEF SlotsInv

(* Every step of a process through lock, bind and identity file keeps      *)
(* the invariant, whatever the others do between two of its steps and      *)
(* wherever one dies.                                                      *)
LEMMA SlotsStep == SlotsInv /\ [SlotsNext]_slotVars => SlotsInv'
<1> SUFFICES ASSUME SlotsInv, [SlotsNext]_slotVars PROVE SlotsInv' OBVIOUS
<1> USE DEF SlotsInv
<1>0. /\ NoSlot \notin Ports /\ BasePort \in Ports /\ "empty" \notin Processes
    BY SlotsAssumption DEF NoSlot, Ports
<1>a. CASE UNCHANGED slotVars
    BY <1>a DEF slotVars, SlotsTypeOK, OneIntroducer, PortsHeld, PidsWritten, AloneClears, Pid
<1>b. CASE SlotsNext
    <2> PICK p \in Processes :
            \/ Launch(p) \/ CreateLock(p) \/ WritePid(p) \/ ReadPid(p) \/ UnlinkStale(p)
            \/ Bind(p) \/ OpenTmp(p) \/ WriteTmp(p) \/ RenameTmp(p) \/ ReleaseLock(p) \/ Die(p)
        BY <1>b DEF SlotsNext
    <2>1. CASE Launch(p)
        <3>0. SlotsTypeOK' BY <2>1 DEF Launch, Goes, SlotsTypeOK, Unsigned
        <3>1. OneIntroducer' BY <2>1 DEF Launch, OneIntroducer
        <3>2. PortsHeld' BY <2>1 DEF Launch, Goes, SlotsTypeOK, PortsHeld, Listening
        <3>3. PidsWritten'
            <4>1. lives'[p] = lives[p] + 1 /\ lives[p] \in Nat BY <2>1 DEF Launch, SlotsTypeOK
            <4>2. \A q \in Processes : lives[q] \in Nat /\ lives'[q] >= lives[q]
                BY <2>1 DEF Launch, SlotsTypeOK
            <4>3. ASSUME NEW q \in Processes, NEW n \in Nat, n > lives'[q]
                  PROVE  lockFile' # <<q, n>>
                <5>1. n > lives[q] BY <4>2, <4>3, <3>0 DEF SlotsTypeOK
                <5> QED BY <5>1, <2>1 DEF PidsWritten, Launch
            <4>4. ASSUME NEW q \in Processes, step'[q] \in Unsigned PROVE lockFile' # Pid(q)'
                <5>1. CASE q = p BY <5>1, <4>1, <2>1 DEF PidsWritten, Launch, Pid
                <5>2. CASE q # p
                    BY <5>2, <4>4, <2>1 DEF PidsWritten, Launch, Pid, Goes, SlotsTypeOK
                <5> QED BY <5>1, <5>2
            <4> QED BY <4>3, <4>4 DEF PidsWritten
        <3>4. AloneClears' BY <2>1 DEF Launch, Goes, SlotsTypeOK, AloneClears, Alive
        <3> QED BY <3>0, <3>1, <3>2, <3>3, <3>4
    <2>2. CASE CreateLock(p)
        <3>0. SlotsTypeOK' BY <2>2 DEF CreateLock, Goes, SlotsTypeOK, Unsigned
        <3>1. OneIntroducer' BY <2>2 DEF CreateLock, OneIntroducer
        <3>2. PortsHeld' BY <2>2 DEF CreateLock, Goes, SlotsTypeOK, PortsHeld, Listening
        <3>3. PidsWritten'
            <4>1. lockFile' = lockFile \/ lockFile' = <<"empty", p>> BY <2>2 DEF CreateLock
            <4>2. \A q \in Processes : \A n \in Nat : <<"empty", p>> # <<q, n>> BY <1>0
            <4>3. lives' = lives /\ \A q \in Processes : step'[q] \in Unsigned => step[q] \in Unsigned
                BY <2>2 DEF CreateLock, Goes, SlotsTypeOK, Unsigned
            <4> QED BY <4>1, <4>2, <4>3 DEF PidsWritten, Pid, SlotsTypeOK
        <3>4. AloneClears' BY <2>2 DEF CreateLock, Goes, SlotsTypeOK, AloneClears
        <3> QED BY <3>0, <3>1, <3>2, <3>3, <3>4
    <2>3. CASE WritePid(p)
        <3>0. SlotsTypeOK' BY <2>3 DEF WritePid, Goes, SlotsTypeOK, Unsigned
        <3>1. OneIntroducer' BY <2>3 DEF WritePid, OneIntroducer
        <3>2. PortsHeld' BY <2>3 DEF WritePid, Goes, SlotsTypeOK, PortsHeld, Listening
        <3>3. PidsWritten'
            <4>1. lockFile' = lockFile \/ lockFile' = <<p, lives[p]>> BY <2>3 DEF WritePid, Pid
            <4>2. lives' = lives /\ step'[p] = "choose"
                  /\ \A q \in Processes : q # p => step'[q] = step[q]
                BY <2>3 DEF WritePid, Goes, SlotsTypeOK
            <4> QED BY <4>1, <4>2 DEF PidsWritten, Pid, SlotsTypeOK, Unsigned
        <3>4. AloneClears' BY <2>3 DEF WritePid, Goes, SlotsTypeOK, AloneClears
        <3> QED BY <3>0, <3>1, <3>2, <3>3, <3>4
    <2>4. CASE ReadPid(p)
        <3>0. SlotsTypeOK' BY <2>4 DEF ReadPid, Goes, SlotsTypeOK, Unsigned
        <3>1. OneIntroducer' BY <2>4 DEF ReadPid, OneIntroducer
        <3>2. PortsHeld' BY <2>4 DEF ReadPid, Goes, SlotsTypeOK, PortsHeld, Listening
        <3>3. PidsWritten' BY <2>4 DEF ReadPid, Goes, SlotsTypeOK, PidsWritten, Pid, Unsigned
        <3>4. AloneClears'
            BY <2>4 DEF ReadPid, Goes, SlotsTypeOK, AloneClears, PidsWritten, Unsigned, Alive
        <3> QED BY <3>0, <3>1, <3>2, <3>3, <3>4
    <2>5. CASE UnlinkStale(p)
        <3>0. SlotsTypeOK' BY <2>5 DEF UnlinkStale, Goes, SlotsTypeOK, Unsigned
        <3>1. OneIntroducer' BY <2>5 DEF UnlinkStale, OneIntroducer
        <3>2. PortsHeld' BY <2>5 DEF UnlinkStale, Goes, SlotsTypeOK, PortsHeld, Listening
        <3>3. PidsWritten' BY <2>5 DEF UnlinkStale, PidsWritten, Pid
        <3>4. AloneClears' BY <2>5 DEF UnlinkStale, Goes, SlotsTypeOK, AloneClears
        <3> QED BY <3>0, <3>1, <3>2, <3>3, <3>4
    <2>6. CASE Bind(p)
        <3> DEFINE free == Ports \ Taken
                   port == CandidatePort(identity, free)
        <3>a. bound[p] = NoSlot /\ step[p] = "choose" BY <2>6 DEF Bind, PortsHeld, Listening
        <3>b. CASE free = {}
            <4>1. step' = [step EXCEPT ![p] = "failed"]
                  /\ UNCHANGED <<lockFile, identity, tmp, lives, alone, bound, role>>
                BY <2>6, <3>b DEF Bind, Goes
            <4>2. SlotsTypeOK' BY <4>1 DEF SlotsTypeOK
            <4>3. OneIntroducer' BY <4>1 DEF OneIntroducer
            <4>4. PortsHeld' BY <4>1, <3>a DEF PortsHeld, Listening, SlotsTypeOK
            <4>5. PidsWritten' BY <4>1 DEF PidsWritten, Pid, Unsigned, SlotsTypeOK
            <4>6. ~alone[p]
                <5>1. PICK q \in Processes : bound[q] = BasePort
                    BY <3>b, <1>0 DEF Taken
                <5>2. q # p /\ step[q] # "dead"
                    BY <5>1, <3>a, <1>0 DEF PortsHeld, Listening
                <5> QED BY <5>2 DEF AloneClears
            <4>7. AloneClears' BY <4>1, <4>6, <3>a DEF AloneClears, SlotsTypeOK
            <4> QED BY <4>2, <4>3, <4>4, <4>5, <4>7
        <3>c. CASE free # {}
            <4>1. port \in Ports /\ \A q \in Processes : bound[q] # port
                <5>1. port \in free BY <3>c, CandidateFree
                <5> HIDE DEF port
                <5> QED BY <5>1, <1>0 DEF Taken
            <4> HIDE DEF port
            <4>2. /\ bound' = [bound EXCEPT ![p] = port]
                  /\ role' = [role EXCEPT ![p] = IF port = BasePort THEN "introducer" ELSE "follower"]
                  /\ step' = [step EXCEPT ![p] = "openTmp"]
                  /\ UNCHANGED <<lockFile, identity, tmp, lives, alone>>
                BY <2>6, <3>c DEF Bind, Goes, port
            <4>3. SlotsTypeOK' BY <4>1, <4>2 DEF SlotsTypeOK, Listening
            <4>4. OneIntroducer' BY <4>1, <4>2 DEF OneIntroducer, SlotsTypeOK
            <4>5. PortsHeld' BY <4>1, <4>2, <1>0 DEF PortsHeld, Listening, SlotsTypeOK
            <4>6. PidsWritten' BY <4>2 DEF PidsWritten, Pid, Unsigned, SlotsTypeOK
            <4>7. AloneClears' BY <4>2, <3>a DEF AloneClears, SlotsTypeOK
            <4> QED BY <4>3, <4>4, <4>5, <4>6, <4>7
        <3> QED BY <3>b, <3>c
    <2>7. CASE OpenTmp(p)
        <3>0. SlotsTypeOK' BY <2>7 DEF OpenTmp, Goes, SlotsTypeOK, Listening
        <3>1. OneIntroducer' BY <2>7 DEF OpenTmp, OneIntroducer
        <3>2. PortsHeld' BY <2>7 DEF OpenTmp, Goes, SlotsTypeOK, PortsHeld, Listening
        <3>3. PidsWritten' BY <2>7 DEF OpenTmp, Goes, SlotsTypeOK, PidsWritten, Pid, Unsigned
        <3>4. AloneClears' BY <2>7 DEF OpenTmp, Goes, SlotsTypeOK, AloneClears, Torn, NoSlot
        <3> QED BY <3>0, <3>1, <3>2, <3>3, <3>4
    <2>8. CASE WriteTmp(p)
        <3>0. SlotsTypeOK' BY <2>8 DEF WriteTmp, Goes, SlotsTypeOK, Listening
        <3>1. OneIntroducer' BY <2>8 DEF WriteTmp, OneIntroducer
        <3>2. PortsHeld' BY <2>8 DEF WriteTmp, Goes, SlotsTypeOK, PortsHeld, Listening
        <3>3. PidsWritten' BY <2>8 DEF WriteTmp, Goes, SlotsTypeOK, PidsWritten, Pid, Unsigned
        <3>4. AloneClears' BY <2>8 DEF WriteTmp, Goes, SlotsTypeOK, AloneClears, PortsHeld, Listening
        <3> QED BY <3>0, <3>1, <3>2, <3>3, <3>4
    <2>9. CASE RenameTmp(p)
        <3>a. CASE tmp = NoSlot
            <4>1. /\ bound' = [bound EXCEPT ![p] = NoSlot]
                  /\ role' = [role EXCEPT ![p] = "none"]
                  /\ step' = [step EXCEPT ![p] = "failed"]
                  /\ UNCHANGED <<lockFile, identity, tmp, lives, alone>>
                  /\ step[p] = "rename"
                BY <2>9, <3>a DEF RenameTmp, Goes
            <4>2. SlotsTypeOK' BY <4>1 DEF SlotsTypeOK
            <4>3. OneIntroducer' BY <4>1, <1>0 DEF OneIntroducer, SlotsTypeOK
            <4>4. PortsHeld' BY <4>1 DEF PortsHeld, Listening, SlotsTypeOK
            <4>5. PidsWritten' BY <4>1 DEF PidsWritten, Pid, Unsigned, SlotsTypeOK
            <4>6. AloneClears' BY <4>1, <3>a DEF AloneClears, SlotsTypeOK
            <4> QED BY <4>2, <4>3, <4>4, <4>5, <4>6
        <3>b. CASE tmp # NoSlot
            <4>1. /\ UNCHANGED <<lockFile, lives, alone, bound, role>>
                  /\ step[p] = "rename" /\ step'[p] = "claimed"
                  /\ \A q \in Processes : q # p => step'[q] \in
                        IF step[q] = "writeTmp" THEN {"writeIdentity"}
                        ELSE IF step[q] = "writeIdentity" THEN {"writeLost"} ELSE {step[q]}
                BY <2>9, <3>b DEF RenameTmp, SlotsTypeOK
            <4>2. SlotsTypeOK'
                <5>1. \A q \in Processes : step'[q] \in Listening \cup Unsigned
                              \cup {"dead", "choose", "failed", "refused"}
                    BY <4>1 DEF SlotsTypeOK, Listening
                <5>2. step' = [q \in Processes |-> step'[q]]
                    BY <2>9, <3>b DEF RenameTmp
                <5> QED BY <4>1, <5>1, <5>2 DEF SlotsTypeOK
            <4>3. OneIntroducer' BY <4>1 DEF OneIntroducer
            <4>4. PortsHeld' BY <4>1 DEF PortsHeld, Listening
            <4>5. PidsWritten' BY <4>1 DEF PidsWritten, Pid, Unsigned
            <4>6. AloneClears' BY <4>1 DEF AloneClears
            <4> QED BY <4>2, <4>3, <4>4, <4>5, <4>6
        <3> QED BY <3>a, <3>b
    <2>10. CASE ReleaseLock(p)
        <3>0. SlotsTypeOK' BY <2>10 DEF ReleaseLock, Goes, SlotsTypeOK, Listening
        <3>1. OneIntroducer' BY <2>10 DEF ReleaseLock, OneIntroducer
        <3>2. PortsHeld' BY <2>10 DEF ReleaseLock, Goes, SlotsTypeOK, PortsHeld, Listening
        <3>3. PidsWritten' BY <2>10 DEF ReleaseLock, PidsWritten, Pid
        <3>4. AloneClears' BY <2>10 DEF ReleaseLock, Goes, SlotsTypeOK, AloneClears
        <3> QED BY <3>0, <3>1, <3>2, <3>3, <3>4
    <2>11. CASE Die(p)
        <3>0. SlotsTypeOK' BY <2>11 DEF Die, Goes, SlotsTypeOK
        <3>1. OneIntroducer' BY <2>11, <1>0 DEF Die, SlotsTypeOK, OneIntroducer
        <3>2. PortsHeld' BY <2>11 DEF Die, Goes, SlotsTypeOK, PortsHeld, Listening
        <3>3. PidsWritten' BY <2>11 DEF Die, Goes, SlotsTypeOK, PidsWritten, Pid, Unsigned
        <3>4. AloneClears' BY <2>11 DEF Die, Goes, SlotsTypeOK, AloneClears
        <3> QED BY <3>0, <3>1, <3>2, <3>3, <3>4
    <2> QED BY <2>1, <2>2, <2>3, <2>4, <2>5, <2>6, <2>7, <2>8, <2>9, <2>10, <2>11
<1> QED BY <1>a, <1>b

(* For any number of processes and ports and any number of restarts: two   *)
(* processes never hold the same port, the introducer is the one on the    *)
(* base port, and a process that starts when all others are dead is        *)
(* never refused by what they left behind (property ElectionHolds;         *)
(* ClaimSlot, acquireSlotLock and persistIdentity).                        *)
THEOREM ElectionAlwaysHolds == SlotsSpec => []ElectionHolds
<1>1. SlotsInv => ElectionHolds
    BY DEF SlotsInv, ElectionHolds, AloneClears, StaleLockYields
<1> QED BY <1>1, SlotsStart, SlotsStep, PTL DEF SlotsSpec

-----------------------------------------------------------------------------
(* The isotope registry and the certification of the health server.        *)

(* What the registry has on file for an isotope.                           *)
IsotopeEntries == [endpoint : Endpoints, rung : Nat, expires : Nat, seen : Nat, attested : BOOLEAN]

(* The shape of the registry, and of the decisions handlers hold between   *)
(* their two critical sections.                                            *)
HealthTypeOK ==
    /\ now \in Nat
    /\ iso \in [Names -> IsotopeEntries \cup {Absent}]
    /\ hd \in [Handlers -> {Free}
                  \cup [op : {"register"}, name : Names, entry : IsotopeEntries]
                  \cup [op : {"certify"}, status : {"certified", "failed"}]]

(* A record of the certification rung was proved when it was last seen.    *)
ProvedEntry(e) == e.rung >= CertificationRung => e.attested /\ e.seen <= ReceiptEnd

(* The records on file are proved, and so are those a handler has          *)
(* decided on and not written yet.                                         *)
EntriesProved ==
    /\ \A n \in Names : ProvedEntry(iso[n])
    /\ \A h \in Handlers : hd[h].op = "register" => ProvedEntry(hd[h].entry)

(* The inductive invariant of the registry.                                *)
HealthInv == HealthTypeOK /\ EntriesProved /\ CertifierRanked

(* The invariant holds of an empty registry.                               *)
LEMMA HealthStart == HealthInit => HealthInv
<1> SUFFICES ASSUME HealthInit PROVE HealthInv OBVIOUS
<1>1. HealthTypeOK BY DEF HealthInit, HealthTypeOK
<1>2. EntriesProved
    BY DEF HealthInit, EntriesProved, ProvedEntry, Absent, Free, CertificationRung
<1>3. CertifierRanked BY DEF HealthInit, CertifierRanked, CertificationRung
<1> QED BY <1>1, <1>2, <1>3 DEF HealthInv

(* What handleIsotopeRegister decides on is proved, renewal or not: a      *)
(* renewal keeps a rung only with a receipt that attests it again, a       *)
(* first registration gets one only from a receipt that verifies.          *)
LEMMA RegisterProves ==
    ASSUME HealthInv, NEW h \in Handlers, NEW n \in Names, NEW endpoint \in Endpoints,
           NEW receipt \in Receipts, RegisterRead(h, n, endpoint, receipt)
    PROVE  \E e \in IsotopeEntries :
               /\ ProvedEntry(e)
               /\ hd' = [hd EXCEPT ![h] = [op |-> "register", name |-> n, entry |-> e]]
<1> DEFINE old == iso[n]
           renews == Listed(n) /\ old.endpoint = endpoint /\ RenewalAttests(old, receipt, endpoint)
           rung == IF renews THEN old.rung
                   ELSE IF Verifies(receipt, endpoint) THEN CertificationRung ELSE Floor
           attested == IF renews THEN old.attested ELSE receipt # "no receipt" /\ rung > Floor
           e == [endpoint |-> endpoint, rung |-> rung, expires |-> now + TTL, seen |-> now,
                 attested |-> attested]
<1>1. hd' = [hd EXCEPT ![h] = [op |-> "register", name |-> n, entry |-> e]]
    BY DEF RegisterRead
<1>2. now \in Nat /\ now + TTL \in Nat /\ (Listed(n) => old \in IsotopeEntries)
    <2>1. now \in Nat /\ TTL \in Nat BY HealthAssumption DEF HealthInv, HealthTypeOK
    <2>2. Listed(n) => old \in IsotopeEntries BY DEF HealthInv, HealthTypeOK, Listed
    <2> QED BY <2>1, <2>2
<1>3. CASE renews
    <2>1. old \in IsotopeEntries /\ old.rung \in Nat /\ old.attested \in BOOLEAN
        BY <1>2, <1>3 DEF IsotopeEntries
    <2>2. e = [endpoint |-> endpoint, rung |-> old.rung, expires |-> now + TTL, seen |-> now,
               attested |-> old.attested]
        BY <1>3
    <2>3. e \in IsotopeEntries BY <1>2, <2>1, <2>2 DEF IsotopeEntries
    <2>4. ProvedEntry(old) BY DEF HealthInv, EntriesProved
    <2>5. old.attested => now <= ReceiptEnd BY <1>3 DEF RenewalAttests, Verifies
    <2>6. ProvedEntry(e) BY <2>2, <2>4, <2>5 DEF ProvedEntry
    <2> QED BY <1>1, <2>3, <2>6
<1>4. CASE ~renews
    <2>1. CASE Verifies(receipt, endpoint)
        <3>1. receipt # "no receipt" BY <2>1, HealthAssumption DEF Verifies
        <3>2. rung = CertificationRung BY <1>4, <2>1
        <3>a. rung > Floor BY <3>2 DEF CertificationRung, Floor
        <3>3. attested BY <1>4, <3>1, <3>a, Zenon
        <3> HIDE DEF rung, attested
        <3>4. e \in IsotopeEntries BY <1>2, <3>2, <3>3 DEF IsotopeEntries, CertificationRung
        <3>5. ProvedEntry(e) BY <2>1, <3>3 DEF ProvedEntry, Verifies
        <3> QED BY <1>1, <3>4, <3>5
    <2>2. CASE ~Verifies(receipt, endpoint)
        <3>1. rung = Floor BY <1>4, <2>2
        <3>a. attested \in BOOLEAN BY <1>4
        <3> HIDE DEF rung, attested
        <3>2. e \in IsotopeEntries BY <1>2, <3>1, <3>a DEF IsotopeEntries, Floor
        <3>3. ProvedEntry(e) BY <3>1 DEF ProvedEntry, CertificationRung, Floor
        <3> QED BY <1>1, <3>2, <3>3
    <2> QED BY <2>1, <2>2
<1> QED BY <1>3, <1>4

(* Every registration, renewal, expiry, removal and certification keeps    *)
(* the invariant, also when another handler changes the record between a   *)
(* read and its write.                                                     *)
LEMMA HealthStep == HealthInv /\ [HealthNext]_healthVars => HealthInv'
<1> SUFFICES ASSUME HealthInv, [HealthNext]_healthVars PROVE HealthInv' OBVIOUS
<1>0. HealthTypeOK /\ EntriesProved /\ CertifierRanked BY DEF HealthInv
<1>a. ProvedEntry(Absent) BY DEF ProvedEntry, Absent, CertificationRung
<1>1. CASE UNCHANGED healthVars
    BY <1>0, <1>1 DEF healthVars, HealthInv, HealthTypeOK, EntriesProved, CertifierRanked
<1>2. CASE HealthTick
    BY <1>0, <1>2 DEF HealthTick, regVars, restVars, HealthInv, HealthTypeOK, EntriesProved,
        CertifierRanked
<1>3. CASE LiveViews
    <2>1. iso' = [n \in Names |-> IF Listed(n) /\ Expired(iso[n]) THEN Absent ELSE iso[n]]
        BY <1>3 DEF LiveViews, Swept
    <2>2. HealthTypeOK' BY <1>0, <1>3, <2>1 DEF LiveViews, HealthTypeOK
    <2>3. EntriesProved' BY <1>0, <1>a, <1>3, <2>1 DEF LiveViews, EntriesProved
    <2>4. CertifierRanked' BY <1>0, <1>3 DEF LiveViews, restVars, CertifierRanked
    <2> QED BY <2>2, <2>3, <2>4 DEF HealthInv
<1>4. CASE RegisterFeature
    BY <1>0, <1>4 DEF RegisterFeature, regVars, HealthInv, HealthTypeOK, EntriesProved,
        CertifierRanked
<1>5. ASSUME NEW n \in Names, Deregister(n) \/ RemoveIsotope(n) PROVE HealthInv'
    <2>1. iso' = [iso EXCEPT ![n] = Absent] /\ UNCHANGED <<now, hd, claim>>
        BY <1>5 DEF Deregister, RemoveIsotope, restVars
    <2>2. HealthTypeOK' BY <1>0, <2>1 DEF HealthTypeOK
    <2>3. EntriesProved' BY <1>0, <1>a, <2>1 DEF HealthTypeOK, EntriesProved
    <2>4. CertifierRanked' BY <1>0, <2>1 DEF CertifierRanked
    <2> QED BY <2>2, <2>3, <2>4 DEF HealthInv
<1>6. ASSUME NEW n \in Names, NEW endpoint \in Endpoints, UpsertIsotope(n, endpoint)
      PROVE  HealthInv'
    <2> DEFINE e == [endpoint |-> endpoint, rung |-> MeshMemberRung, attested |-> FALSE,
                     expires |-> IF Listed(n) THEN iso[n].expires ELSE Durable,
                     seen |-> IF Listed(n) /\ iso[n].expires # Durable THEN iso[n].seen ELSE now]
    <2>1. iso' = [iso EXCEPT ![n] = e] /\ UNCHANGED <<now, hd, claim>>
        BY <1>6 DEF UpsertIsotope, restVars
    <2>2. e \in IsotopeEntries
        <3>1. Listed(n) => iso[n] \in IsotopeEntries BY <1>0 DEF HealthTypeOK, Listed
        <3>2. Listed(n) => iso[n].expires \in Nat /\ iso[n].seen \in Nat BY <3>1 DEF IsotopeEntries
        <3>3. now \in Nat BY <1>0 DEF HealthTypeOK
        <3> QED BY <3>2, <3>3 DEF IsotopeEntries, MeshMemberRung, Durable
    <2>3. ProvedEntry(e) BY DEF ProvedEntry, MeshMemberRung, CertificationRung
    <2> HIDE DEF e
    <2>4. HealthTypeOK' BY <1>0, <2>1, <2>2 DEF HealthTypeOK
    <2>5. EntriesProved' BY <1>0, <2>1, <2>3 DEF HealthTypeOK, EntriesProved
    <2>6. CertifierRanked' BY <1>0, <2>1 DEF CertifierRanked
    <2> QED BY <2>4, <2>5, <2>6 DEF HealthInv
<1>7. ASSUME NEW h \in Handlers, RegisterWrite(h) PROVE HealthInv'
    <2>1. hd[h] \in [op : {"register"}, name : Names, entry : IsotopeEntries]
        BY <1>0, <1>7 DEF HealthTypeOK, RegisterWrite, Free
    <2>2. hd[h].name \in Names /\ hd[h].entry \in IsotopeEntries /\ ProvedEntry(hd[h].entry)
        BY <1>0, <1>7, <2>1 DEF EntriesProved, RegisterWrite
    <2>3. /\ iso' = [iso EXCEPT ![hd[h].name] = hd[h].entry]
          /\ hd' = [hd EXCEPT ![h] = Free] /\ UNCHANGED <<now, claim>>
        BY <1>7 DEF RegisterWrite, restVars
    <2>4. HealthTypeOK' BY <1>0, <2>2, <2>3 DEF HealthTypeOK
    <2>5. EntriesProved' BY <1>0, <2>2, <2>3 DEF HealthTypeOK, EntriesProved, Free
    <2>6. CertifierRanked' BY <1>0, <2>3 DEF CertifierRanked
    <2> QED BY <2>4, <2>5, <2>6 DEF HealthInv
<1>8. ASSUME NEW h \in Handlers, CertifyMark(h) PROVE HealthInv'
    <2>1. hd' = [hd EXCEPT ![h] = Free] /\ UNCHANGED <<now, iso, claim>>
        BY <1>8 DEF CertifyMark, regVars
    <2>2. HealthTypeOK' BY <1>0, <2>1 DEF HealthTypeOK
    <2>3. EntriesProved' BY <1>0, <2>1 DEF HealthTypeOK, EntriesProved, Free
    <2>4. CertifierRanked' BY <1>0, <2>1 DEF CertifierRanked
    <2> QED BY <2>2, <2>3, <2>4 DEF HealthInv
<1>9. ASSUME NEW h \in Handlers, NEW n \in Names, NEW endpoint \in Endpoints,
             NEW receipt \in Receipts, RegisterRead(h, n, endpoint, receipt)
      PROVE  HealthInv'
    <2>1. PICK e \in IsotopeEntries :
              /\ ProvedEntry(e)
              /\ hd' = [hd EXCEPT ![h] = [op |-> "register", name |-> n, entry |-> e]]
        BY <1>9, RegisterProves
    <2>2. UNCHANGED <<now, iso, claim>> BY <1>9 DEF RegisterRead, regVars, restVars
    <2>3. HealthTypeOK' BY <1>0, <2>1, <2>2 DEF HealthTypeOK
    <2>4. EntriesProved' BY <1>0, <2>1, <2>2 DEF HealthTypeOK, EntriesProved
    <2>5. CertifierRanked' BY <1>0, <2>2 DEF CertifierRanked
    <2> QED BY <2>3, <2>4, <2>5 DEF HealthInv
<1>10. ASSUME NEW h \in Handlers, NEW n \in Names, NEW endpoint \in Endpoints,
              NEW receipt \in Receipts, NEW status \in {"certified", "failed"},
              CertifyCheck(h, n, endpoint, receipt, status)
       PROVE  HealthInv'
    <2>1. /\ hd' = [hd EXCEPT ![h] = [op |-> "certify", status |-> status]]
          /\ UNCHANGED <<now, iso>>
        BY <1>10 DEF CertifyCheck, regVars
    <2>2. HealthTypeOK' BY <1>0, <2>1 DEF HealthTypeOK
    <2>3. EntriesProved' BY <1>0, <2>1 DEF HealthTypeOK, EntriesProved
    <2>4. CertifierRanked' BY <1>10 DEF CertifyCheck, MayCertify, CertifierRanked
    <2> QED BY <2>2, <2>3, <2>4 DEF HealthInv
<1> QED BY <1>1, <1>2, <1>3, <1>4, <1>5, <1>6, <1>7, <1>8, <1>9, <1>10 DEF HealthNext

(* For any names, endpoints, receipts, lifetimes and numbers of            *)
(* concurrent handlers: no isotope is ever listed on the certification     *)
(* rung without a receipt that verified while it was valid, and no         *)
(* feature is marked by a caller below the rung (property TrustProved;     *)
(* handleIsotopeRegister, renewalAttests and handleFeatureCertify).        *)
THEOREM TrustAlwaysProved == HealthSpec => []TrustProved
<1>1. HealthInv => TrustProved
    BY DEF HealthInv, EntriesProved, ProvedEntry, TrustProved, RungProved
<1> QED BY <1>1, HealthStart, HealthStep, PTL DEF HealthSpec

-----------------------------------------------------------------------------
(* The readiness flag, its reason and the components.                      *)

LoopStates == {"wait", "component", "flag", "reason"}
LookPairs == [last : BOOLEAN, before : BOOLEAN]
ReaderStates ==
    [step : {"idle", "loaded", "answered"}, flag : BOOLEAN, crossed : BOOLEAN,
     ready : BOOLEAN, why : {"", "told", "components"}]
ReadyTypes ==
    /\ ready \in BOOLEAN /\ reason \in {"", "told"}
    /\ loop \in LoopStates /\ looks \in LookPairs /\ reader \in ReaderStates

(* The engine's component is that of the last look published.              *)
ComponentTold == ("engine" \notin sick) <=> Published

(* Flag and reason agree, unless the loop is between them.                 *)
ReasonGoesWithFlag ==
    /\ loop # "reason" => (ready <=> reason = "")
    /\ loop = "reason" => (ready <=> looks.last)

(* A reader that nothing crossed has the flag as it is.                    *)
ReaderUpToDate ==
    reader.step = "loaded" /\ ~reader.crossed => loop # "reason" /\ reader.flag = ready

(* The induction hypothesis.                                               *)
ReadyInv ==
    /\ ReadyTypes
    /\ ComponentTold
    /\ ReasonGoesWithFlag
    /\ ReaderUpToDate

(* The invariant holds of a server that has been told once that the        *)
(* engine is not ready.                                                    *)
LEMMA ReadyStart == ReadyInit => ReadyInv
<1> SUFFICES ASSUME ReadyInit PROVE ReadyInv OBVIOUS
<1>1. reader \in ReaderStates /\ looks \in LookPairs BY DEF ReadyInit, ReaderStates, LookPairs
<1>2. ready \in BOOLEAN /\ ~ready /\ reason # "" /\ ~Published BY DEF ReadyInit, Published
<1>3. reader.step # "loaded" /\ loop # "reason" BY DEF ReadyInit
<1>4. "engine" \in sick BY DEF ReadyInit
<1>5. ReadyTypes BY <1>1, <1>2 DEF ReadyInit, ReadyTypes, LoopStates
<1> QED BY <1>2, <1>3, <1>4, <1>5 DEF ReadyInv, ComponentTold, ReasonGoesWithFlag, ReaderUpToDate

(* The loop's three writes and a snapshot's two reads: no interleaving of  *)
(* them breaks the invariant.                                              *)
LEMMA ReadyStep == ReadyInv /\ [ReadyNext]_readyVars => ReadyInv'
<1> SUFFICES ASSUME ReadyInv, [ReadyNext]_readyVars PROVE ReadyInv' OBVIOUS
<1>0. ReadyTypes /\ ComponentTold /\ ReasonGoesWithFlag /\ ReaderUpToDate BY DEF ReadyInv
<1>1. CASE UNCHANGED readyVars
    <2>1. ReadyTypes'
        <3>1. /\ ready' = ready /\ reason' = reason /\ loop' = loop /\ looks' = looks
              /\ reader' = reader
            BY <1>1 DEF readyVars
        <3> QED BY <1>0, <3>1 DEF ReadyTypes
    <2>2. ComponentTold' BY <1>0, <1>1 DEF readyVars, ComponentTold, Published
    <2>3. ReasonGoesWithFlag' BY <1>0, <1>1 DEF readyVars, ReasonGoesWithFlag
    <2>4. ReaderUpToDate' BY <1>0, <1>1 DEF readyVars, ReasonGoesWithFlag, ReaderUpToDate
    <2> QED BY <2>1, <2>2, <2>3, <2>4 DEF ReadyInv
<1>6. ASSUME NEW r \in BOOLEAN, NEW c \in Components, SetComponent(c, r) PROVE ReadyInv'
    <2>1. ReadyTypes'
        <3>1. /\ ready' = ready /\ reason' = reason /\ loop' = loop /\ looks' = looks
              /\ reader' = reader
            BY <1>6 DEF SetComponent
        <3> QED BY <1>0, <3>1 DEF ReadyTypes
    <2>2. ComponentTold'
        <3>1. c # "engine" BY ReadinessAssumption
        <3>2. sick' = (IF r THEN sick \ {c} ELSE sick \cup {c}) /\ Published' = Published
            BY <1>6 DEF SetComponent, Published
        <3>3. "engine" \in sick' <=> "engine" \in sick BY <3>1, <3>2
        <3> QED BY <1>0, <3>2, <3>3 DEF ComponentTold
    <2>3. ReasonGoesWithFlag' BY <1>0, <1>6 DEF SetComponent, ReasonGoesWithFlag
    <2>4. ReaderUpToDate' BY <1>0, <1>6 DEF SetComponent, ReasonGoesWithFlag, ReaderUpToDate
    <2> QED BY <2>1, <2>2, <2>3, <2>4 DEF ReadyInv
<1> USE <1>0 DEF ReadyInv, ReadyTypes, LoopStates, LookPairs, ReaderStates,
               ComponentTold, Published, ReasonGoesWithFlag, ReaderUpToDate
<1>2. ASSUME NEW r \in BOOLEAN, Look(r) PROVE ReadyInv' BY <1>2 DEF Look
<1>3. CASE PublishEngine BY <1>3 DEF PublishEngine
<1>4. CASE SetReadyFlag BY <1>4 DEF SetReadyFlag
<1>5. CASE SetReadyReason BY <1>5 DEF SetReadyReason
<1>7. CASE LoadFlag BY <1>7 DEF LoadFlag
<1>8. CASE Snapshot BY <1>8 DEF Snapshot
<1> HIDE DEF ReadyInv
<1> QED BY <1>1, <1>2, <1>3, <1>4, <1>5, <1>6, <1>7, <1>8 DEF ReadyNext

(* For any set of components: /readyz answers ready only if the engine was *)
(* ready at the last look the loop published, however old the flag it      *)
(* loaded, and an answer no SetReady overtook gives a reason exactly when  *)
(* it is not ready (property ReadinessTold; SetReady, Snapshot and         *)
(* syncHealthLoop).                                                        *)
THEOREM ReadinessAlwaysTold == ReadySpec => ReadinessTold
<1>1. ReadyInv /\ [ReadyNext]_readyVars => [ReadyIsFresh /\ AnswerOfOnePiece]_readyVars
    <2> SUFFICES ASSUME ReadyInv, ReadyNext, Answers PROVE ReadyIsFresh /\ AnswerOfOnePiece
        BY DEF ReadyIsFresh, AnswerOfOnePiece
    <2>1. Snapshot
        BY DEF Answers, ReadyInv, ReadyTypes, LoopStates, LookPairs, ReaderStates, ReadyNext,
               Look, PublishEngine, SetReadyFlag,
               SetReadyReason, SetComponent, LoadFlag
    <2> QED BY <2>1 DEF ReadyInv, ReadyTypes, LoopStates, LookPairs, ReaderStates, ComponentTold,
                        ReasonGoesWithFlag, ReaderUpToDate, Snapshot,
                        ReadyIsFresh, AnswerOfOnePiece
<1> QED BY <1>1, ReadyStart, ReadyStep, PTL DEF ReadySpec, ReadinessTold

-----------------------------------------------------------------------------
(* The alert notifiers and their dedupe windows.                           *)

(* An alert let through: for which key, when, and whether the sink took    *)
(* it.                                                                     *)
AlertRecords == Keys \X Nat \X BOOLEAN

(* A worker in Notify: the sinks left, and the time it read.               *)
NotifyCalls == [key : Keys, left : {<<"log", "desktop">>, <<"desktop">>}, now : Nat]

(* The shape of the notifiers: what every sink remembers, and where each   *)
(* worker is in the list of sinks.                                         *)
NotifierTypeOK ==
    /\ alertClock \in Nat \ {0}
    /\ last \in [Sinks -> [Keys -> Nat]]
    /\ call \in [Workers -> {NoCall} \cup NotifyCalls]
    /\ sent \in [Sinks -> SUBSET AlertRecords]
    /\ deaf \in [Sinks -> SUBSET (Keys \X Nat)]

(* What a sink remembers of a key is the time it last let it through.      *)
MemoryIsNewest ==
    \A s \in Sinks : \A k \in Keys :
        /\ last[s][k] <= alertClock
        /\ last[s][k] > 0 => \E a \in sent[s] : a[1] = k /\ a[2] = last[s][k]
        /\ \A a \in sent[s] : a[1] = k => 0 < a[2] /\ a[2] <= last[s][k]

(* Nobody read a time that has not come.                                   *)
TimesRead == \A w \in Workers : call[w].now <= alertClock

(* The inductive invariant of the notifiers.                               *)
NotifierInv == NotifierTypeOK /\ TimesRead /\ MemoryIsNewest /\ ToldSpaced /\ SilenceIsRecent

(* The invariant holds of notifiers that have told nothing.                *)
LEMMA NotifierStart == NotifierInit => NotifierInv
<1> SUFFICES ASSUME NotifierInit PROVE NotifierInv OBVIOUS
<1>1. NotifierTypeOK BY DEF NotifierInit, NotifierTypeOK
<1>2. MemoryIsNewest /\ TimesRead BY DEF NotifierInit, MemoryIsNewest, TimesRead, NoCall
<1>3. ToldSpaced /\ SilenceIsRecent BY DEF NotifierInit, ToldSpaced, SilenceIsRecent
<1> QED BY <1>1, <1>2, <1>3 DEF NotifierInv

(* Every notification of every worker keeps the invariant: the window is   *)
(* checked and the time written in one critical section, whoever comes     *)
(* between.                                                                *)
LEMMA NotifierStep == NotifierInv /\ [NotifierNext]_notifierVars => NotifierInv'
<1> SUFFICES ASSUME NotifierInv, [NotifierNext]_notifierVars PROVE NotifierInv' OBVIOUS
<1>0. NotifierTypeOK /\ TimesRead /\ MemoryIsNewest /\ ToldSpaced /\ SilenceIsRecent BY DEF NotifierInv
<1>1. CASE UNCHANGED notifierVars
    BY <1>0, <1>1 DEF notifierVars, NotifierInv, NotifierTypeOK, TimesRead, MemoryIsNewest,
        ToldSpaced, SilenceIsRecent
<1>2. CASE AlertTick
    <2>1. NotifierTypeOK' BY <1>0, <1>2 DEF AlertTick, NotifierTypeOK
    <2>2. MemoryIsNewest' BY <1>0, <1>2 DEF AlertTick, NotifierTypeOK, MemoryIsNewest
    <2>3. ToldSpaced' /\ SilenceIsRecent'
        BY <1>0, <1>2 DEF AlertTick, ToldSpaced, SilenceIsRecent
    <2>4. \A w \in Workers : call[w].now \in Nat BY <1>0 DEF NotifierTypeOK, NotifyCalls, NoCall
    <2>5. TimesRead' BY <1>0, <1>2, <2>4 DEF AlertTick, NotifierTypeOK, TimesRead
    <2> QED BY <2>1, <2>2, <2>3, <2>5 DEF NotifierInv
<1>3. ASSUME NEW w \in Workers, NEW k \in Keys, NotifyGroup(w, k) PROVE NotifierInv'
    <2>1. NotifierTypeOK' BY <1>0, <1>3 DEF NotifyGroup, NotifierTypeOK, NotifyCalls
    <2>2. MemoryIsNewest' BY <1>0, <1>3 DEF NotifyGroup, MemoryIsNewest
    <2>3. ToldSpaced' /\ SilenceIsRecent'
        BY <1>0, <1>3 DEF NotifyGroup, ToldSpaced, SilenceIsRecent
    <2>4. TimesRead' BY <1>0, <1>3 DEF NotifyGroup, NotifierTypeOK, TimesRead
    <2> QED BY <2>1, <2>2, <2>3, <2>4 DEF NotifierInv
<1>5. ASSUME NEW w \in Workers, ReadNow(w) PROVE NotifierInv'
    <2>1. call[w] \in NotifyCalls BY <1>0, <1>5 DEF ReadNow, NotifierTypeOK, NoCall
    <2>2. [call[w] EXCEPT !.now = alertClock] \in NotifyCalls
        BY <1>0, <2>1 DEF NotifyCalls, NotifierTypeOK
    <2>3. NotifierTypeOK' BY <1>0, <1>5, <2>2 DEF ReadNow, NotifierTypeOK
    <2>4. MemoryIsNewest' BY <1>0, <1>5 DEF ReadNow, MemoryIsNewest
    <2>5. ToldSpaced' /\ SilenceIsRecent'
        BY <1>0, <1>5 DEF ReadNow, ToldSpaced, SilenceIsRecent
    <2>6. call'[w].now = alertClock BY <1>0, <1>5, <2>1 DEF ReadNow, NotifierTypeOK, NotifyCalls
    <2>7. \A v \in Workers \ {w} : call'[v] = call[v] BY <1>0, <1>5 DEF ReadNow, NotifierTypeOK
    <2>8. TimesRead' BY <1>0, <1>5, <2>6, <2>7 DEF ReadNow, NotifierTypeOK, TimesRead
    <2> QED BY <2>3, <2>4, <2>5, <2>8 DEF NotifierInv
<1>4. ASSUME NEW w \in Workers, NotifySink(w) PROVE NotifierInv'
    <2> DEFINE s == Head(call[w].left)
               k == call[w].key
               n == call[w].now
    <2>1. call[w] \in NotifyCalls
        BY <1>0, <1>4 DEF NotifySink, NotifierTypeOK, NoCall
    <2>2. k \in Keys /\ s \in Sinks BY <2>1 DEF Sinks, NotifyCalls
    <2>3. call' \in [Workers -> {NoCall} \cup NotifyCalls]
        <3> DEFINE next == IF Len(call[w].left) = 1 THEN NoCall
                           ELSE [key |-> call[w].key, left |-> Tail(call[w].left), now |-> 0]
        <3>1. \A u \in Workers : call'[u] = IF u = w THEN next ELSE call[u]
            BY <1>0, <1>4 DEF NotifySink, NotifierTypeOK
        <3>2. next \in {NoCall} \cup NotifyCalls
            <4>1. CASE call[w].left = <<"desktop">> BY <4>1
            <4>2. CASE call[w].left = <<"log", "desktop">> BY <2>1, <4>2 DEF NotifyCalls
            <4> QED BY <2>1, <4>1, <4>2 DEF NotifyCalls
        <3>3. call' = [u \in Workers |-> call'[u]]
            BY <1>0, <1>4 DEF NotifySink, NotifierTypeOK
        <3> HIDE DEF next
        <3> QED BY <1>0, <3>1, <3>2, <3>3 DEF NotifierTypeOK
    <2> HIDE DEF s, k, n
    <2>4. alertClock' = alertClock BY <1>4 DEF NotifySink
    <2>times. TimesRead'
        <3>1. call'[w].now = 0
            BY <1>0, <1>4 DEF NotifySink, NotifierTypeOK, NoCall
        <3>2. \A v \in Workers \ {w} : call'[v] = call[v]
            BY <1>0, <1>4 DEF NotifySink, NotifierTypeOK
        <3> QED BY <1>0, <2>4, <3>1, <3>2 DEF TimesRead, NotifierTypeOK
    <2>now. n \in Nat \ {0} /\ n <= alertClock
        BY <1>0, <1>4, <2>1 DEF n, NotifySink, NotifyCalls, TimesRead
    <2>5. CASE UNCHANGED <<last, sent, deaf>>
        <3>1. NotifierTypeOK' BY <1>0, <2>3, <2>4, <2>5 DEF NotifierTypeOK
        <3>2. MemoryIsNewest' BY <1>0, <2>4, <2>5 DEF MemoryIsNewest
        <3>3. ToldSpaced' /\ SilenceIsRecent' BY <1>0, <2>5 DEF ToldSpaced, SilenceIsRecent
        <3> QED BY <2>times, <3>1, <3>2, <3>3 DEF NotifierInv
    <2>6. CASE /\ Recent(s, k, n) /\ UNCHANGED <<last, sent>>
               /\ deaf' = [deaf EXCEPT ![s] = {<<k, n>>}]
        <3>1. NotifierTypeOK' BY <1>0, <2>now, <2>2, <2>3, <2>4, <2>6 DEF NotifierTypeOK
        <3>2. MemoryIsNewest' BY <1>0, <2>4, <2>6 DEF MemoryIsNewest
        <3>3. ToldSpaced' BY <1>0, <2>6 DEF ToldSpaced
        <3>4. SilenceIsRecent'
            <4>1. \E a \in sent[s] : a[1] = k /\ n - a[2] < DedupeWindow
                BY <1>0, <2>2, <2>6 DEF MemoryIsNewest, Recent
            <4>2. ASSUME NEW t \in Sinks, NEW d \in deaf'[t]
                  PROVE  \E a \in sent[t] : a[1] = d[1] /\ d[2] - a[2] < DedupeWindow
                <5>1. CASE d \in deaf[t] BY <1>0, <5>1 DEF SilenceIsRecent
                <5>2. CASE d \notin deaf[t]
                    <6>1. t = s /\ d = <<k, n>>
                        BY <1>0, <2>2, <2>6, <4>2, <5>2 DEF NotifierTypeOK
                    <6> QED BY <4>1, <6>1
                <5> QED BY <5>1, <5>2
            <4> QED BY <2>6, <4>2 DEF SilenceIsRecent
        <3> QED BY <2>times, <3>1, <3>2, <3>3, <3>4 DEF NotifierInv
    <2>7. CASE /\ ~Recent(s, k, n) /\ UNCHANGED deaf
               /\ last' = [last EXCEPT ![s][k] = n]
               /\ \E ok \in BOOLEAN : sent' = [sent EXCEPT ![s] = @ \cup {<<k, n, ok>>}]
        <3> PICK ok \in BOOLEAN : sent' = [sent EXCEPT ![s] = @ \cup {<<k, n, ok>>}]
            BY <2>7
        <3> DEFINE new == <<k, n, ok>>
        <3>1. new \in AlertRecords /\ new[1] = k /\ new[2] = n
            BY <1>0, <2>now, <2>2 DEF AlertRecords, NotifierTypeOK
        <3> HIDE DEF new
        <3>2. sent' = [sent EXCEPT ![s] = sent[s] \cup {new}] BY DEF new
        <3>3. \A t \in Sinks : sent'[t] = IF t = s THEN sent[s] \cup {new} ELSE sent[t]
            BY <1>0, <3>2 DEF NotifierTypeOK
        <3>4. \A t \in Sinks : \A q \in Keys :
                  last'[t][q] = IF t = s /\ q = k THEN n ELSE last[t][q]
            BY <1>0, <2>7 DEF NotifierTypeOK
        <3>5. NotifierTypeOK'
            <4>1. last' \in [Sinks -> [Keys -> Nat]] BY <1>0, <2>now, <2>2, <2>7 DEF NotifierTypeOK
            <4>2. sent[s] \cup {new} \in SUBSET AlertRecords BY <1>0, <2>2, <3>1 DEF NotifierTypeOK
            <4>3. sent' \in [Sinks -> SUBSET AlertRecords]
                BY <1>0, <2>2, <3>2, <4>2, Zenon DEF NotifierTypeOK
            <4> QED BY <1>0, <2>3, <2>4, <2>7, <4>1, <4>3 DEF NotifierTypeOK
        <3>6. MemoryIsNewest'
            <4> SUFFICES ASSUME NEW t \in Sinks, NEW q \in Keys
                         PROVE  /\ last'[t][q] <= alertClock'
                                /\ last'[t][q] > 0 => \E a \in sent'[t] : a[1] = q /\ a[2] = last'[t][q]
                                /\ \A a \in sent'[t] : a[1] = q => 0 < a[2] /\ a[2] <= last'[t][q]
                BY DEF MemoryIsNewest
            <4>1. CASE t = s /\ q = k
                <5>1. \A a \in sent[s] : a[1] = k => 0 < a[2] /\ a[2] <= last[s][k]
                    BY <1>0, <2>2 DEF MemoryIsNewest
                <5>2. \A a \in sent[s] : a[1] = k => 0 < a[2] /\ a[2] <= n
                    <6>1. last[s][k] \in Nat /\ DedupeWindow \in Nat
                        BY <1>0, <2>2, NotifierAssumption DEF NotifierTypeOK
                    <6>2. last[s][k] <= n BY <2>now, <2>7, <6>1 DEF Recent
                    <6>3. \A a \in sent[s] : a[2] \in Nat
                        BY <1>0, <2>2 DEF NotifierTypeOK, AlertRecords
                    <6> QED BY <2>now, <5>1, <6>1, <6>2, <6>3
                <5>3. n \in Nat /\ n > 0 BY <2>now
                <5>4. last'[t][q] = n /\ sent'[t] = sent[s] \cup {new} BY <3>3, <3>4, <4>1
                <5>5. last'[t][q] <= alertClock' BY <2>now, <2>4, <5>4
                <5>6. \A a \in sent'[t] : a[1] = k => 0 < a[2] /\ a[2] <= n BY <3>1, <5>2, <5>3, <5>4
                <5>7. \E a \in sent'[t] : a[1] = k /\ a[2] = n BY <3>1, <5>4
                <5> QED BY <4>1, <5>4, <5>5, <5>6, <5>7
            <4>2. CASE ~(t = s /\ q = k)
                <5>1. last'[t][q] = last[t][q] BY <3>4, <4>2
                <5>2. \A a \in sent'[t] : a \in sent[t] \/ a[1] # q BY <3>1, <3>3, <4>2
                <5>3. sent[t] \subseteq sent'[t] BY <3>3
                <5> QED BY <1>0, <2>4, <5>1, <5>2, <5>3 DEF MemoryIsNewest
            <4> QED BY <4>1, <4>2
        <3>7. \A a \in sent[s] : a[1] = k => n - a[2] >= DedupeWindow
            <4>1. \A a \in sent[s] : a[2] \in Nat BY <1>0, <2>2 DEF NotifierTypeOK, AlertRecords
            <4>2. last[s][k] \in Nat /\ n \in Nat BY <1>0, <2>now, <2>2 DEF NotifierTypeOK
            <4>3. DedupeWindow \in Nat BY NotifierAssumption
            <4> QED BY <1>0, <2>2, <2>7, <4>1, <4>2, <4>3 DEF MemoryIsNewest, Recent
        <3>8. ToldSpaced'
            <4> SUFFICES ASSUME NEW t \in Sinks, NEW a \in sent'[t], NEW b \in sent'[t],
                                a[1] = b[1], a # b
                         PROVE  a[2] - b[2] >= DedupeWindow \/ b[2] - a[2] >= DedupeWindow
                BY DEF ToldSpaced
            <4>1. CASE a \in sent[t] /\ b \in sent[t] BY <1>0, <4>1 DEF ToldSpaced
            <4>2. CASE a \notin sent[t]
                <5>1. t = s /\ a = new /\ b \in sent[s] BY <3>3, <4>2
                <5> QED BY <3>1, <3>7, <5>1
            <4>3. CASE b \notin sent[t]
                <5>1. t = s /\ b = new /\ a \in sent[s] BY <3>3, <4>3
                <5> QED BY <3>1, <3>7, <5>1
            <4> QED BY <4>1, <4>2, <4>3
        <3>9. SilenceIsRecent'
            <4>1. \A t \in Sinks : sent[t] \subseteq sent'[t] BY <3>3
            <4> QED BY <1>0, <2>7, <4>1 DEF SilenceIsRecent
        <3> QED BY <2>times, <3>5, <3>6, <3>8, <3>9 DEF NotifierInv
    <2> QED BY <1>4, <2>5, <2>6, <2>7 DEF NotifySink, Remembered, s, k, n
<1> QED BY <1>1, <1>2, <1>3, <1>4, <1>5 DEF NotifierNext

(* For any workers, keys and window: two alerts a sink lets through for    *)
(* one key are at least a window apart, and an alert is held back only     *)
(* when one for its key was let through less than a window before, or      *)
(* after its caller read the clock (property AlertsSpaced; isDeduped of    *)
(* the log and the desktop notifier).                                      *)
THEOREM AlertsAlwaysSpaced == NotifierSpec => []AlertsSpaced
<1>1. NotifierInv => AlertsSpaced BY DEF NotifierInv, AlertsSpaced
<1> QED BY <1>1, NotifierStart, NotifierStep, PTL DEF NotifierSpec

-----------------------------------------------------------------------------
(* The MCP server manager: who is blamed for failing calls.                *)

(* Where a goroutine is between two critical sections of the manager.      *)
RoutineSteps ==
    {Idle}
    \cup [op : {"register", "mark"}, server : Servers]
    \cup [op : {"found"}, cluster : Clusters]
    \cup [op : {"judged"}, cluster : Clusters, tool : Tools, source : Suspicions]
    \cup [op : {"priced"}, cluster : Clusters, source : Suspicions \cup {"unknown"}, invalid : Nat]
    \cup [op : {"loaded"}, cluster : Clusters, invalid : Nat, sum : Nat]
    \cup [op : {"ranking"}, todo : SUBSET Servers]

(* The shape of the manager.                                               *)
ManagerTypeOK ==
    /\ gen \in [Servers -> 0 .. MaxRegistered]
    /\ recorded \in [Clusters -> [Tools -> Nat]]
    /\ underFire \in [Clusters -> SUBSET Tools]
    /\ distance \in [Clusters -> Nat]
    /\ attacked \subseteq Servers
    /\ rt \in [Routines -> RoutineSteps]
    /\ truth \in [Servers -> SUBSET (Suspicions \cup {"unknown"})]

(* One registration at a time, and room for it.                            *)
RegistrationFits ==
    \A g \in Routines : rt[g].op = "register" =>
        /\ gen[rt[g].server] < MaxRegistered
        /\ \A k \in Routines : rt[k].op = "register" => k = g

(* A goroutine that will mark the server for the calls to a tool: it has   *)
(* not counted them yet, has counted too many or is about to mark.         *)
WillMark(r, c, t) ==
    \/ r.op = "judged" /\ r.cluster = c /\ r.tool = t
    \/ r.op \in {"priced", "loaded"} /\ r.cluster = c /\ r.invalid > AttackAfter
    \/ r.op = "mark" /\ r.server = c[1]

(* Between the critical sections of a validation no attack is forgotten.   *)
AttackPending ==
    \A c \in Clusters : \A t \in Tools : recorded[c][t] > AttackAfter =>
        c[1] \in attacked \/ \E g \in Routines : WillMark(rt[g], c, t)

(* Everything that speaks against a server comes from a call to it: what   *)
(* a goroutine carries,                                                    *)
ServerBlamed(r, known) ==
    /\ r.op \in {"judged", "priced", "loaded"} => known[r.cluster[1]] # {}
    /\ r.op = "mark" => known[r.server] # {}
(* and what the manager has on record.                                     *)
CausesKnown ==
    /\ \A s \in attacked : truth[s] # {}
    /\ \A c \in Clusters : underFire[c] # {} \/ distance[c] > 0 => truth[c[1]] # {}
    /\ \A g \in Routines : ServerBlamed(rt[g], truth)

(* The inductive invariant of the manager.                                 *)
ManagerInv == ManagerTypeOK /\ RegistrationFits /\ AttackPending /\ CausesKnown

(* A cluster is one registration of a server.                              *)
LEMMA ClusterOfServer == \A c \in Clusters : c[1] \in Servers
BY DEF Clusters

(* The invariant holds of a manager without servers.                       *)
LEMMA ManagerStart == ManagerInit => ManagerInv
<1> SUFFICES ASSUME ManagerInit PROVE ManagerInv OBVIOUS
<1>0. MaxRegistered \in Nat /\ AttackAfter \in Nat BY ManagerAssumption
<1>1. ManagerTypeOK BY <1>0 DEF ManagerInit, ManagerTypeOK, RoutineSteps
<1>2. RegistrationFits BY DEF ManagerInit, RegistrationFits, Idle
<1>3. AttackPending BY <1>0 DEF ManagerInit, AttackPending
<1>4. CausesKnown BY DEF ManagerInit, CausesKnown, ServerBlamed, Idle
<1> QED BY <1>1, <1>2, <1>3, <1>4 DEF ManagerInv

(* A goroutine's step keeps every attack pending if it will itself mark    *)
(* what it adds to the calls on record, and what it would have marked it   *)
(* still will or has.                                                      *)
LEMMA PendingKept ==
    ASSUME ManagerTypeOK, AttackPending, NEW g \in Routines, NEW x,
           rt' = [rt EXCEPT ![g] = x], attacked \subseteq attacked',
           \A c \in Clusters : \A t \in Tools : recorded'[c][t] > AttackAfter =>
               recorded[c][t] > AttackAfter \/ WillMark(x, c, t),
           \A c \in Clusters : \A t \in Tools :
               recorded[c][t] > AttackAfter /\ WillMark(rt[g], c, t) =>
                   WillMark(x, c, t) \/ c[1] \in attacked'
    PROVE  AttackPending'
<1> SUFFICES ASSUME NEW c \in Clusters, NEW t \in Tools, recorded'[c][t] > AttackAfter
             PROVE  c[1] \in attacked' \/ \E k \in Routines : WillMark(rt'[k], c, t)
    BY DEF AttackPending, WillMark
<1>1. rt'[g] = x /\ \A k \in Routines : k # g => rt'[k] = rt[k] BY DEF ManagerTypeOK
<1>2. CASE WillMark(x, c, t) BY <1>1, <1>2
<1>3. CASE ~WillMark(x, c, t)
    <2>1. recorded[c][t] > AttackAfter BY <1>3
    <2>2. c[1] \in attacked \/ \E k \in Routines : WillMark(rt[k], c, t)
        BY <2>1 DEF AttackPending
    <2>3. CASE c[1] \in attacked BY <2>3
    <2>4. ASSUME NEW k \in Routines, WillMark(rt[k], c, t)
          PROVE  c[1] \in attacked' \/ \E h \in Routines : WillMark(rt'[h], c, t)
        <3>1. CASE k = g BY <1>3, <2>1, <2>4, <3>1
        <3>2. CASE k # g BY <1>1, <2>4, <3>2
        <3> QED BY <3>1, <3>2
    <2> QED BY <2>2, <2>3, <2>4
<1> QED BY <1>2, <1>3

(* The causes stay known if the step of a goroutine keeps the history      *)
(* and has a cause itself.                                                 *)
LEMMA CausesKept ==
    ASSUME ManagerTypeOK, CausesKnown, NEW g \in Routines, NEW x \in RoutineSteps,
           rt' = [rt EXCEPT ![g] = x],
           \A s \in Servers : truth[s] \subseteq truth'[s],
           \A s \in attacked' : s \in attacked \/ truth'[s] # {},
           \A c \in Clusters : underFire'[c] # {} \/ distance'[c] > 0 =>
               underFire[c] # {} \/ distance[c] > 0 \/ truth'[c[1]] # {},
           ServerBlamed(x, truth')
    PROVE  CausesKnown'
<1>1. rt'[g] = x /\ \A k \in Routines : k # g => rt'[k] = rt[k] BY DEF ManagerTypeOK
<1>2. \A s \in Servers : truth[s] # {} => truth'[s] # {} OBVIOUS
<1>3. \A s \in attacked' : truth'[s] # {} BY <1>2 DEF CausesKnown, ManagerTypeOK
<1>4. \A c \in Clusters : underFire'[c] # {} \/ distance'[c] > 0 => truth'[c[1]] # {}
    BY <1>2, ClusterOfServer DEF CausesKnown
<1>5. ASSUME NEW k \in Routines PROVE ServerBlamed(rt'[k], truth')
    <2>1. CASE k = g BY <1>1, <2>1 DEF ServerBlamed
    <2>2. CASE k # g
        <3>1. rt'[k] = rt[k] /\ ServerBlamed(rt[k], truth) /\ rt[k] \in RoutineSteps
            BY <1>1, <2>2 DEF CausesKnown, ManagerTypeOK
        <3>2. rt[k].op \in {"judged", "priced", "loaded"} => rt[k].cluster[1] \in Servers
            BY <3>1, ClusterOfServer DEF RoutineSteps, Idle
        <3>3. rt[k].op = "mark" => rt[k].server \in Servers
            BY <3>1 DEF RoutineSteps, Idle
        <3> QED BY <1>2, <3>1, <3>2, <3>3 DEF ServerBlamed
    <2> QED BY <2>1, <2>2
<1> QED BY <1>3, <1>4, <1>5 DEF CausesKnown

(* Every critical section of a validation, a registration or a ranking     *)
(* keeps the invariant, in every order in which the goroutines take        *)
(* them.                                                                   *)
LEMMA ManagerStep == ManagerInv /\ [ManagerNext]_managerVars => ManagerInv'
<1> SUFFICES ASSUME ManagerInv, [ManagerNext]_managerVars PROVE ManagerInv' OBVIOUS
<1>0. /\ ManagerTypeOK /\ RegistrationFits /\ AttackPending /\ CausesKnown
      /\ MaxRegistered \in Nat /\ AttackAfter \in Nat
    BY ManagerAssumption DEF ManagerInv
<1>a. CASE UNCHANGED managerVars
    <2>1. UNCHANGED <<gen, recorded, underFire, distance, attacked, rt, truth>> BY <1>a DEF managerVars
    <2>2. ManagerTypeOK' BY <1>0, <2>1 DEF ManagerTypeOK
    <2>3. RegistrationFits' BY <1>0, <2>1 DEF RegistrationFits
    <2>4. AttackPending' BY <1>0, <2>1 DEF AttackPending, WillMark
    <2>5. CausesKnown' BY <1>0, <2>1 DEF CausesKnown, ServerBlamed
    <2> QED BY <2>2, <2>3, <2>4, <2>5 DEF ManagerInv
<1>1. ASSUME NEW g \in Routines, NEW s \in Servers, WantRegister(g, s) PROVE ManagerInv'
    <2> DEFINE x == [op |-> "register", server |-> s]
    <2>1. /\ x \in RoutineSteps /\ rt[g].op = "idle" /\ x.op = "register" /\ x.server = s
        BY <1>0, <1>1 DEF WantRegister, ManagerTypeOK, RoutineSteps, Idle, Clusters
    <2>2. rt' = [rt EXCEPT ![g] = x] /\ UNCHANGED <<gen, recorded, underFire, distance, attacked, truth>>
        BY <1>1 DEF WantRegister, Go
    <2> HIDE DEF x
    <2>3. ManagerTypeOK' BY <1>0, <2>1, <2>2 DEF ManagerTypeOK
    <2>4. RegistrationFits' 
        BY <1>0, <1>1, <2>1, <2>2 DEF RegistrationFits, ManagerTypeOK, WantRegister
    <2>5. AttackPending'
        BY <1>0, <2>1, <2>2, PendingKept DEF WillMark
    <2>6. CausesKnown'
        BY <1>0, <2>1, <2>2, CausesKept DEF ServerBlamed
    <2> QED BY <2>3, <2>4, <2>5, <2>6 DEF ManagerInv
<1>2. ASSUME NEW g \in Routines, NEW s \in Servers, Lookup(g, s) PROVE ManagerInv'
    <2> DEFINE x == [op |-> "found", cluster |-> Current(s)]
    <2>1. /\ x \in RoutineSteps /\ rt[g].op = "idle" /\ x.op = "found"
        BY <1>0, <1>2 DEF Lookup, ManagerTypeOK, RoutineSteps, Idle, Clusters, Current
    <2>2. rt' = [rt EXCEPT ![g] = x] /\ UNCHANGED <<gen, recorded, underFire, distance, attacked, truth>>
        BY <1>2 DEF Lookup, Go
    <2> HIDE DEF x
    <2>3. ManagerTypeOK' BY <1>0, <2>1, <2>2 DEF ManagerTypeOK
    <2>4. RegistrationFits' BY <1>0, <2>1, <2>2 DEF RegistrationFits, ManagerTypeOK
    <2>5. AttackPending'
        BY <1>0, <2>1, <2>2, PendingKept DEF WillMark
    <2>6. CausesKnown'
        BY <1>0, <2>1, <2>2, CausesKept DEF ServerBlamed
    <2> QED BY <2>3, <2>4, <2>5, <2>6 DEF ManagerInv
<1>3. ASSUME NEW g \in Routines, JudgeCorrect(g) PROVE ManagerInv'
    <2> DEFINE x == Idle
    <2>1. /\ x \in RoutineSteps /\ rt[g].op = "found" /\ x.op = "idle"
        BY <1>0, <1>3 DEF JudgeCorrect, ManagerTypeOK, RoutineSteps, Idle, Clusters
    <2>2. rt' = [rt EXCEPT ![g] = x] /\ UNCHANGED <<gen, recorded, underFire, distance, attacked, truth>>
        BY <1>3 DEF JudgeCorrect, Go
    <2> HIDE DEF x
    <2>3. ManagerTypeOK' BY <1>0, <2>1, <2>2 DEF ManagerTypeOK
    <2>4. RegistrationFits' BY <1>0, <2>1, <2>2 DEF RegistrationFits, ManagerTypeOK
    <2>5. AttackPending'
        BY <1>0, <2>1, <2>2, PendingKept DEF WillMark
    <2>6. CausesKnown'
        BY <1>0, <2>1, <2>2, CausesKept DEF ServerBlamed
    <2> QED BY <2>3, <2>4, <2>5, <2>6 DEF ManagerInv
<1>4. ASSUME NEW g \in Routines, RankBegin(g) PROVE ManagerInv'
    <2> DEFINE x == [op |-> "ranking", todo |-> {s \in Servers : gen[s] > 0}]
    <2>1. /\ x \in RoutineSteps /\ rt[g].op = "idle" /\ x.op = "ranking"
        BY <1>0, <1>4 DEF RankBegin, ManagerTypeOK, RoutineSteps, Idle, Clusters
    <2>2. rt' = [rt EXCEPT ![g] = x] /\ UNCHANGED <<gen, recorded, underFire, distance, attacked, truth>>
        BY <1>4 DEF RankBegin, Go
    <2> HIDE DEF x
    <2>3. ManagerTypeOK' BY <1>0, <2>1, <2>2 DEF ManagerTypeOK
    <2>4. RegistrationFits' BY <1>0, <2>1, <2>2 DEF RegistrationFits, ManagerTypeOK
    <2>5. AttackPending'
        BY <1>0, <2>1, <2>2, PendingKept DEF WillMark
    <2>6. CausesKnown'
        BY <1>0, <2>1, <2>2, CausesKept DEF ServerBlamed
    <2> QED BY <2>3, <2>4, <2>5, <2>6 DEF ManagerInv
<1>5. ASSUME NEW g \in Routines, RankEnd(g) PROVE ManagerInv'
    <2> DEFINE x == Idle
    <2>1. /\ x \in RoutineSteps /\ rt[g].op = "ranking" /\ x.op = "idle"
        BY <1>0, <1>5 DEF RankEnd, ManagerTypeOK, RoutineSteps, Idle, Clusters
    <2>2. rt' = [rt EXCEPT ![g] = x] /\ UNCHANGED <<gen, recorded, underFire, distance, attacked, truth>>
        BY <1>5 DEF RankEnd, Go
    <2> HIDE DEF x
    <2>3. ManagerTypeOK' BY <1>0, <2>1, <2>2 DEF ManagerTypeOK
    <2>4. RegistrationFits' BY <1>0, <2>1, <2>2 DEF RegistrationFits, ManagerTypeOK
    <2>5. AttackPending'
        BY <1>0, <2>1, <2>2, PendingKept DEF WillMark
    <2>6. CausesKnown'
        BY <1>0, <2>1, <2>2, CausesKept DEF ServerBlamed
    <2> QED BY <2>3, <2>4, <2>5, <2>6 DEF ManagerInv
<1>6. ASSUME NEW g \in Routines, RankServer(g) PROVE ManagerInv'
    <2>0. PICK s \in rt[g].todo : rt' = [rt EXCEPT ![g] = [rt[g] EXCEPT !.todo = @ \ {s}]]
        BY <1>6 DEF RankServer, Go
    <2> DEFINE x == [rt[g] EXCEPT !.todo = @ \ {s}]
    <2>1. x \in RoutineSteps /\ rt[g].op = "ranking" /\ x.op = "ranking"
        BY <1>0, <1>6 DEF RankServer, ManagerTypeOK, RoutineSteps, Idle
    <2>2. rt' = [rt EXCEPT ![g] = x] /\ UNCHANGED <<gen, recorded, underFire, distance, attacked, truth>>
        BY <1>6, <2>0 DEF RankServer
    <2> HIDE DEF x
    <2>3. ManagerTypeOK' BY <1>0, <2>1, <2>2 DEF ManagerTypeOK
    <2>4. RegistrationFits' BY <1>0, <2>1, <2>2 DEF RegistrationFits, ManagerTypeOK
    <2>5. AttackPending'
        BY <1>0, <2>1, <2>2, PendingKept DEF WillMark
    <2>6. CausesKnown'
        BY <1>0, <2>1, <2>2, CausesKept DEF ServerBlamed
    <2> QED BY <2>3, <2>4, <2>5, <2>6 DEF ManagerInv
<1>7. ASSUME NEW g \in Routines, RegisterMCPServer(g) PROVE ManagerInv'
    <2> DEFINE s == rt[g].server
    <2>1. Idle \in RoutineSteps /\ rt[g].op = "register" /\ Idle.op = "idle" /\ s \in Servers
        BY <1>0, <1>7 DEF RegisterMCPServer, ManagerTypeOK, RoutineSteps, Idle
    <2>2. /\ rt' = [rt EXCEPT ![g] = Idle] /\ gen' = [gen EXCEPT ![s] = gen[s] + 1]
          /\ UNCHANGED <<recorded, underFire, distance, attacked, truth>>
        BY <1>7 DEF RegisterMCPServer, Go
    <2>3. gen[s] \in 0 .. MaxRegistered /\ gen[s] < MaxRegistered
        BY <1>0, <2>1 DEF RegistrationFits, ManagerTypeOK
    <2> HIDE DEF s
    <2>4. ManagerTypeOK'
        <3>1. gen[s] + 1 \in 0 .. MaxRegistered BY <1>0, <2>3
        <3>2. gen' \in [Servers -> 0 .. MaxRegistered] BY <1>0, <2>2, <3>1 DEF ManagerTypeOK
        <3> QED BY <1>0, <2>1, <2>2, <3>2 DEF ManagerTypeOK
    <2>5. RegistrationFits'
        <3>1. \A k \in Routines : rt'[k].op # "register"
            BY <1>0, <2>1, <2>2 DEF RegistrationFits, ManagerTypeOK
        <3> QED BY <3>1 DEF RegistrationFits
    <2>6. AttackPending'
        BY <1>0, <2>1, <2>2, PendingKept DEF WillMark
    <2>7. CausesKnown'
        BY <1>0, <2>1, <2>2, CausesKept DEF ServerBlamed
    <2> QED BY <2>4, <2>5, <2>6, <2>7 DEF ManagerInv
<1>8. ASSUME NEW g \in Routines, NEW t \in Tools, NEW source \in Suspicions, Judge(g, t, source)
      PROVE  ManagerInv'
    <2> DEFINE c == rt[g].cluster
               x == [op |-> "judged", cluster |-> c, tool |-> t, source |-> source]
    <2>0. c \in Clusters /\ rt[g].op = "found"
        BY <1>0, <1>8 DEF Judge, ManagerTypeOK, RoutineSteps, Idle
    <2>1. c[1] \in Servers BY <2>0, ClusterOfServer
    <2>2. /\ rt' = [rt EXCEPT ![g] = x]
          /\ recorded' = [recorded EXCEPT ![c][t] = recorded[c][t] + 1]
          /\ truth' = [truth EXCEPT ![c[1]] = truth[c[1]] \cup {source}]
          /\ UNCHANGED <<gen, underFire, distance, attacked>>
        BY <1>8 DEF Judge, Go
    <2> HIDE DEF c
    <2>3. x \in RoutineSteps /\ x.op = "judged" /\ x.cluster = c /\ x.tool = t
        BY <2>0 DEF RoutineSteps
    <2> HIDE DEF x
    <2>4. ManagerTypeOK'
        <3>1. recorded' \in [Clusters -> [Tools -> Nat]] BY <1>0, <2>0, <2>2 DEF ManagerTypeOK
        <3>2. truth' \in [Servers -> SUBSET (Suspicions \cup {"unknown"})]
            BY <1>0, <2>1, <2>2 DEF ManagerTypeOK
        <3>3. rt' \in [Routines -> RoutineSteps] BY <1>0, <2>2, <2>3 DEF ManagerTypeOK
        <3> QED BY <1>0, <2>2, <3>1, <3>2, <3>3 DEF ManagerTypeOK
    <2>5. RegistrationFits' BY <1>0, <2>2, <2>3 DEF RegistrationFits, ManagerTypeOK
    <2>6. AttackPending'
        <3>1. \A d \in Clusters : \A u \in Tools :
                  recorded'[d][u] = recorded[d][u] \/ (d = c /\ u = t)
            BY <1>0, <2>0, <2>2 DEF ManagerTypeOK
        <3>2. \A d \in Clusters : \A u \in Tools : ~WillMark(rt[g], d, u)
            BY <2>0 DEF WillMark
        <3>3. WillMark(x, c, t) BY <2>3 DEF WillMark
        <3>4. \A d \in Clusters : \A u \in Tools : recorded'[d][u] > AttackAfter =>
                  recorded[d][u] > AttackAfter \/ WillMark(x, d, u)
            BY <3>1, <3>3
        <3>5. rt' = [rt EXCEPT ![g] = x] /\ attacked \subseteq attacked' BY <2>2
        <3> QED BY <1>0, <3>2, <3>4, <3>5, PendingKept
    <2>7. CausesKnown'
        <3>1. \A s \in Servers : truth[s] \subseteq truth'[s]
            BY <1>0, <2>2 DEF ManagerTypeOK
        <3>2. truth'[c[1]] # {} BY <1>0, <2>1, <2>2 DEF ManagerTypeOK
        <3>3. ServerBlamed(x, truth') BY <2>3, <3>2 DEF ServerBlamed
        <3> QED BY <1>0, <2>2, <2>3, <3>1, <3>3, CausesKept
    <2> QED BY <2>4, <2>5, <2>6, <2>7 DEF ManagerInv
<1>9. ASSUME NEW g \in Routines, JudgeUnknownTool(g) PROVE ManagerInv'
    <2> DEFINE c == rt[g].cluster
               x == [op |-> "priced", cluster |-> c, source |-> "unknown", invalid |-> 0]
    <2>0. c \in Clusters /\ rt[g].op = "found"
        BY <1>0, <1>9 DEF JudgeUnknownTool, ManagerTypeOK, RoutineSteps, Idle
    <2>1. c[1] \in Servers BY <2>0, ClusterOfServer
    <2>2. /\ rt' = [rt EXCEPT ![g] = x]
          /\ truth' = [truth EXCEPT ![c[1]] = truth[c[1]] \cup {"unknown"}]
          /\ UNCHANGED <<gen, recorded, underFire, distance, attacked>>
        BY <1>9 DEF JudgeUnknownTool, Go
    <2> HIDE DEF c
    <2>3. x \in RoutineSteps /\ x.op = "priced" /\ x.cluster = c
        BY <2>0 DEF RoutineSteps
    <2> HIDE DEF x
    <2>4. ManagerTypeOK'
        <3>1. truth' \in [Servers -> SUBSET (Suspicions \cup {"unknown"})]
            BY <1>0, <2>1, <2>2 DEF ManagerTypeOK
        <3> QED BY <1>0, <2>2, <2>3, <3>1 DEF ManagerTypeOK
    <2>5. RegistrationFits' BY <1>0, <2>2, <2>3 DEF RegistrationFits, ManagerTypeOK
    <2>6. AttackPending'
        <3>1. \A d \in Clusters : \A u \in Tools : ~WillMark(rt[g], d, u)
            BY <2>0 DEF WillMark
        <3> QED BY <1>0, <2>2, <3>1, PendingKept
    <2>7. CausesKnown'
        <3>1. \A s \in Servers : truth[s] \subseteq truth'[s]
            BY <1>0, <2>2 DEF ManagerTypeOK
        <3>2. truth'[c[1]] # {} BY <1>0, <2>1, <2>2 DEF ManagerTypeOK
        <3>3. ServerBlamed(x, truth') BY <2>3, <3>2 DEF ServerBlamed
        <3> QED BY <1>0, <2>2, <2>3, <3>1, <3>3, CausesKept
    <2> QED BY <2>4, <2>5, <2>6, <2>7 DEF ManagerInv
<1>10. ASSUME NEW g \in Routines, CountCall(g) PROVE ManagerInv'
    <2> DEFINE c == rt[g].cluster
               t == rt[g].tool
               n == recorded[c][t]
               x == [op |-> "priced", cluster |-> c, source |-> rt[g].source, invalid |-> n]
    <2>0. c \in Clusters /\ t \in Tools /\ rt[g].source \in Suspicions /\ rt[g].op = "judged"
        BY <1>0, <1>10 DEF CountCall, ManagerTypeOK, RoutineSteps, Idle
    <2>1. n \in Nat BY <1>0, <2>0 DEF ManagerTypeOK
    <2>2. /\ rt' = [rt EXCEPT ![g] = x]
          /\ underFire' = IF n > AttackAfter
                          THEN [underFire EXCEPT ![c] = underFire[c] \cup {t}] ELSE underFire
          /\ UNCHANGED <<gen, recorded, distance, attacked, truth>>
        BY <1>10 DEF CountCall, Go, Invalid
    <2>3. x \in RoutineSteps /\ x.op = "priced" /\ x.cluster = c /\ x.invalid = n
        BY <2>0, <2>1 DEF RoutineSteps
    <2>a. truth[c[1]] # {} BY <1>0, <2>0 DEF CausesKnown, ServerBlamed
    <2>b. \A d \in Clusters : \A u \in Tools : WillMark(rt[g], d, u) => d = c /\ u = t
        BY <2>0 DEF WillMark
    <2> HIDE DEF x, c, t
    <2>4. ManagerTypeOK'
        <3>1. underFire' \in [Clusters -> SUBSET Tools] BY <1>0, <2>0, <2>2 DEF ManagerTypeOK
        <3> QED BY <1>0, <2>2, <2>3, <3>1 DEF ManagerTypeOK
    <2>5. RegistrationFits' BY <1>0, <2>2, <2>3 DEF RegistrationFits, ManagerTypeOK
    <2>6. AttackPending'
        <3>1. n > AttackAfter => WillMark(x, c, t) BY <2>3 DEF WillMark
        <3>2. \A d \in Clusters : \A u \in Tools :
                  recorded[d][u] > AttackAfter /\ WillMark(rt[g], d, u) => WillMark(x, d, u)
            BY <2>b, <3>1
        <3>3. rt' = [rt EXCEPT ![g] = x] /\ attacked \subseteq attacked' /\ recorded' = recorded
            BY <2>2
        <3> QED BY <1>0, <3>2, <3>3, PendingKept
    <2>7. CausesKnown'
        <3>1. \A d \in Clusters : underFire'[d] = underFire[d] \/ d = c
            BY <1>0, <2>0, <2>2 DEF ManagerTypeOK
        <3>2. ServerBlamed(x, truth') BY <2>2, <2>3, <2>a DEF ServerBlamed
        <3> QED BY <1>0, <2>2, <2>3, <2>a, <3>1, <3>2, CausesKept
    <2> QED BY <2>4, <2>5, <2>6, <2>7 DEF ManagerInv
<1>11. ASSUME NEW g \in Routines, LoadDistance(g) PROVE ManagerInv'
    <2> DEFINE c == rt[g].cluster
               x == [op |-> "loaded", cluster |-> c, invalid |-> rt[g].invalid,
                     sum |-> distance[c] + FailureMode[rt[g].source]]
    <2>0. /\ c \in Clusters /\ rt[g].invalid \in Nat /\ rt[g].op = "priced"
          /\ rt[g].source \in Suspicions \cup {"unknown"}
        BY <1>0, <1>11 DEF LoadDistance, ManagerTypeOK, RoutineSteps, Idle
    <2>1. distance[c] + FailureMode[rt[g].source] \in Nat
        <3>1. rt[g].source \in {"fuzz", "direct", "skill", "stale", "other", "unknown"}
            BY <2>0, ManagerAssumption
        <3>2. FailureMode[rt[g].source] \in Nat BY <3>1 DEF FailureMode
        <3>3. distance[c] \in Nat BY <1>0, <2>0 DEF ManagerTypeOK
        <3> QED BY <3>2, <3>3
    <2>2. rt' = [rt EXCEPT ![g] = x] /\ UNCHANGED <<gen, recorded, underFire, distance, attacked, truth>>
        BY <1>11 DEF LoadDistance, Go
    <2>3. x \in RoutineSteps /\ x.op = "loaded" /\ x.cluster = c /\ x.invalid = rt[g].invalid
        BY <2>0, <2>1 DEF RoutineSteps
    <2>a. truth[c[1]] # {} BY <1>0, <2>0 DEF CausesKnown, ServerBlamed
    <2>b. \A d \in Clusters : \A u \in Tools : WillMark(rt[g], d, u) => WillMark(x, d, u)
        BY <2>0, <2>3 DEF WillMark
    <2> HIDE DEF x, c
    <2>4. ManagerTypeOK' BY <1>0, <2>2, <2>3 DEF ManagerTypeOK
    <2>5. RegistrationFits' BY <1>0, <2>2, <2>3 DEF RegistrationFits, ManagerTypeOK
    <2>6. AttackPending' BY <1>0, <2>2, <2>b, PendingKept
    <2>7. CausesKnown'
        <3>1. ServerBlamed(x, truth') BY <2>2, <2>3, <2>a DEF ServerBlamed
        <3> QED BY <1>0, <2>2, <2>3, <3>1, CausesKept
    <2> QED BY <2>4, <2>5, <2>6, <2>7 DEF ManagerInv
<1>12. ASSUME NEW g \in Routines, StoreDistance(g) PROVE ManagerInv'
    <2> DEFINE c == rt[g].cluster
               x == IF rt[g].invalid > AttackAfter THEN [op |-> "mark", server |-> c[1]] ELSE Idle
    <2>0. c \in Clusters /\ rt[g].invalid \in Nat /\ rt[g].op = "loaded" /\ rt[g].sum \in Nat
        BY <1>0, <1>12 DEF StoreDistance, ManagerTypeOK, RoutineSteps, Idle
    <2>1. c[1] \in Servers BY <2>0, ClusterOfServer
    <2>2. /\ rt' = [rt EXCEPT ![g] = x] /\ distance' = [distance EXCEPT ![c] = rt[g].sum]
          /\ UNCHANGED <<gen, recorded, underFire, attacked, truth>>
        BY <1>12 DEF StoreDistance, Go
    <2>3. x \in RoutineSteps /\ ((x.op = "mark" /\ x.server = c[1]) \/ x.op = "idle")
        BY <2>1 DEF RoutineSteps, Idle
    <2>a. truth[c[1]] # {} BY <1>0, <2>0 DEF CausesKnown, ServerBlamed
    <2>b. \A d \in Clusters : \A u \in Tools : WillMark(rt[g], d, u) => WillMark(x, d, u)
        BY <2>0 DEF WillMark
    <2> HIDE DEF x, c
    <2>4. ManagerTypeOK'
        <3>1. distance' \in [Clusters -> Nat] BY <1>0, <2>0, <2>2 DEF ManagerTypeOK
        <3> QED BY <1>0, <2>2, <2>3, <3>1 DEF ManagerTypeOK
    <2>5. RegistrationFits' BY <1>0, <2>2, <2>3 DEF RegistrationFits, ManagerTypeOK
    <2>6. AttackPending' BY <1>0, <2>2, <2>b, PendingKept
    <2>7. CausesKnown'
        <3>1. ServerBlamed(x, truth') BY <2>2, <2>3, <2>a DEF ServerBlamed
        <3>2. \A d \in Clusters : distance'[d] = distance[d] \/ d = c
            BY <1>0, <2>0, <2>2 DEF ManagerTypeOK
        <3> QED BY <1>0, <2>2, <2>3, <2>a, <3>1, <3>2, CausesKept
    <2> QED BY <2>4, <2>5, <2>6, <2>7 DEF ManagerInv
<1>13. ASSUME NEW g \in Routines, MarkAttacked(g) PROVE ManagerInv'
    <2>1. Idle \in RoutineSteps /\ rt[g].op = "mark" /\ Idle.op = "idle" /\ rt[g].server \in Servers
        BY <1>0, <1>13 DEF MarkAttacked, ManagerTypeOK, RoutineSteps, Idle
    <2>2. /\ rt' = [rt EXCEPT ![g] = Idle] /\ attacked' = attacked \cup {rt[g].server}
          /\ UNCHANGED <<gen, recorded, underFire, distance, truth>>
        BY <1>13 DEF MarkAttacked, Go
    <2>3. truth[rt[g].server] # {} BY <1>0, <2>1 DEF CausesKnown, ServerBlamed
    <2>4. ManagerTypeOK' BY <1>0, <2>1, <2>2 DEF ManagerTypeOK
    <2>5. RegistrationFits' BY <1>0, <2>1, <2>2 DEF RegistrationFits, ManagerTypeOK
    <2>6. AttackPending'
        <3>1. \A d \in Clusters : \A u \in Tools : WillMark(rt[g], d, u) => d[1] \in attacked'
            BY <2>1, <2>2 DEF WillMark
        <3> QED BY <1>0, <2>2, <3>1, PendingKept
    <2>7. CausesKnown'
        <3>1. ServerBlamed(Idle, truth') BY <2>1 DEF ServerBlamed
        <3> QED BY <1>0, <2>1, <2>2, <2>3, <3>1, CausesKept
    <2> QED BY <2>4, <2>5, <2>6, <2>7 DEF ManagerInv
<1> QED BY <1>a, <1>1, <1>2, <1>3, <1>4, <1>5, <1>6, <1>7, <1>8, <1>9, <1>10, <1>11, <1>12, <1>13
    DEF ManagerNext

(* When nobody is between two sections, what is pending has been marked.   *)
LEMMA BlameFollows == ManagerInv => BlameJust
<1> SUFFICES ASSUME ManagerInv PROVE BlameJust OBVIOUS
<1>0. ManagerTypeOK /\ AttackPending /\ CausesKnown BY DEF ManagerInv
<1>1. \A s \in Servers : gen[s] > 0 => Current(s) \in Clusters /\ Current(s)[1] = s
    BY <1>0, ManagerAssumption DEF ManagerTypeOK, Current, Clusters
<1>2. AttackNoticed
    <2> SUFFICES ASSUME ~Running, NEW s \in Servers, gen[s] > 0, NEW t \in Tools,
                        Invalid(Current(s), t) > AttackAfter
                 PROVE  s \in attacked /\ ShouldEvictServer(s)
        BY DEF AttackNoticed
    <2>1. \A g \in Routines : \A c \in Clusters : ~WillMark(rt[g], c, t)
        BY DEF Running, WillMark, Idle
    <2>2. s \in attacked BY <1>0, <1>1, <2>1 DEF AttackPending, Invalid
    <2>3. gen[s] # 0 BY <1>0 DEF ManagerTypeOK
    <2> QED BY <2>2, <2>3 DEF ShouldEvictServer, Status, UnderAttack
<1>3. NoBlameWithoutCause
    <2> SUFFICES ASSUME NEW s \in Servers, Status(s) \in {"degraded", "compromised", "under-attack"}
                 PROVE  truth[s] # {}
        BY DEF NoBlameWithoutCause
    <2>1. gen[s] # 0 BY DEF Status
    <2>2. Current(s) \in Clusters /\ Current(s)[1] = s BY <1>0, <1>1, <2>1 DEF ManagerTypeOK
    <2>3. Threshold \in Nat /\ distance[Current(s)] \in Nat
        BY <1>0, <2>2, ManagerAssumption DEF ManagerTypeOK
    <2>4. s \in attacked \/ underFire[Current(s)] # {} \/ distance[Current(s)] > 0
        BY <2>3 DEF Status, UnderAttack
    <2> QED BY <1>0, <2>2, <2>4 DEF CausesKnown
<1> QED BY <1>2, <1>3 DEF BlameJust

(* For any servers, tools, goroutines and thresholds: once the             *)
(* validations have returned, a server one of whose tools took more        *)
(* invalid calls than the limit is under attack and to be evicted, and     *)
(* no server is called degraded, compromised or under attack that          *)
(* nothing ever spoke against (property BlameJust; ValidateToolCall,       *)
(* GetServerHealth and ShouldEvictServer).                                 *)
THEOREM BlameAlwaysJust == ManagerSpec => []BlameJust
BY ManagerStart, ManagerStep, BlameFollows, PTL DEF ManagerSpec
=============================================================================
