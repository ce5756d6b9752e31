---------------------------- MODULE HealthServer ----------------------------
(***************************************************************************)
(* internal/health/server.go: the isotope registry (registrations that are *)
(* renewed or expire, records mirrored from federation membership) and the *)
(* feature registry with who may certify.                                  *)
(*                                                                         *)
(* A handler that registers a name reads the record on file, decides the   *)
(* rung without the lock (the probe takes seconds) and writes; one that    *)
(* certifies checks the caller and then marks the feature.  A receipt is   *)
(* for one endpoint and verifies until ReceiptEnd; VerifyRegistration of   *)
(* the isotope library gives the top rung for a receipt that verifies and  *)
(* the floor otherwise.  The identity a registration carries (project      *)
(* route, contract, dependencies) is left out.                             *)
(***************************************************************************)
EXTENDS Naturals, FiniteSets

CONSTANTS
    Names, Endpoints, Handlers,
    TTL,            \* IsotopeTTL
    ReceiptEnd,     \* when the receipts expire
    HealthHorizon   \* bound on the clock

ASSUME HealthAssumption ==
    /\ TTL \in Nat \ {0} /\ ReceiptEnd \in Nat /\ HealthHorizon \in Nat
    /\ "no receipt" \notin Endpoints

Floor == 2              \* rungHarnessTools
MeshMemberRung == 4
CertificationRung == 6  \* isotopeCertificationRung
Durable == 0            \* the zero expiry
Receipts == Endpoints \cup {"no receipt"}
Absent == [rung |-> 0]

VARIABLES
    now,        \* the time
    iso,        \* s.isotopes, Absent for a name that is not there
    members,    \* the names the membership feed has mirrored and not removed
    hd,         \* the handlers
    feature,    \* the status of a feature
    claim       \* history: the last certification that was let through

healthVars == <<now, iso, members, hd, feature, claim>>
regVars == <<iso, members>>
restVars == <<feature, claim>>

Free == [op |-> "free"]
Listed(n) == iso[n] # Absent
Expired(e) == e.expires # Durable /\ now >= e.expires

(* Attestation.VerifyWith: the receipt is for the endpoint, and in time.   *)
Verifies(receipt, endpoint) == receipt = endpoint /\ now <= ReceiptEnd

HealthInit ==
    /\ now = 1
    /\ iso = [n \in Names |-> Absent]
    /\ members = {}
    /\ hd = [h \in Handlers |-> Free]
    /\ feature = "none"
    /\ claim = [rung |-> CertificationRung, expired |-> FALSE]

HealthTick ==
    /\ now < HealthHorizon
    /\ now' = now + 1
    /\ UNCHANGED <<regVars, hd, restVars>>

(* Mutant of RenewalAttests: the same endpoint is proof enough.            *)
RenewalByEndpoint(e, receipt, endpoint) == TRUE

(* renewalAttests: an attested record wants the same proof again, one      *)
(* without an attestation wants none.                                      *)
RenewalAttests(e, receipt, endpoint) ==
    IF e.attested THEN Verifies(receipt, endpoint) ELSE receipt = "no receipt"

(* handleIsotopeRegister up to the write: the expired records are not      *)
(* swept first.                                                            *)
RegisterRead(h, n, endpoint, receipt) ==
    /\ hd[h] = Free
    /\ LET old == iso[n]
           renews == Listed(n) /\ old.endpoint = endpoint /\ RenewalAttests(old, receipt, endpoint)
           rung == IF renews THEN old.rung
                   ELSE IF Verifies(receipt, endpoint) THEN CertificationRung ELSE Floor
       IN  hd' = [hd EXCEPT ![h] =
               [op |-> "register", name |-> n,
                entry |-> [endpoint |-> endpoint, rung |-> rung, expires |-> now + TTL, seen |-> now,
                           attested |-> IF renews THEN old.attested
                                        ELSE receipt # "no receipt" /\ rung > Floor]]]
    /\ UNCHANGED <<now, regVars, restVars>>

RegisterWrite(h) ==
    /\ hd[h].op = "register"
    /\ iso' = [iso EXCEPT ![hd[h].name] = hd[h].entry]
    /\ hd' = [hd EXCEPT ![h] = Free]
    /\ UNCHANGED <<now, members, restVars>>

(* sweepIsotopesLocked, before the list, the resolution of a name and the  *)
(* resolution by route or contract.                                        *)
Swept == [n \in Names |-> IF Listed(n) /\ Expired(iso[n]) THEN Absent ELSE iso[n]]
LiveViews ==
    /\ Swept # iso
    /\ iso' = Swept
    /\ UNCHANGED <<now, members, hd, restVars>>

(* handleIsotopeDelete.                                                    *)
Deregister(n) ==
    /\ Listed(n)
    /\ iso' = [iso EXCEPT ![n] = Absent]
    /\ UNCHANGED <<now, members, hd, restVars>>

(* UpsertIsotope: the record is replaced, a heartbeat on file stays.       *)
UpsertIsotope(n, endpoint) ==
    /\ iso' = [iso EXCEPT ![n] =
                  [endpoint |-> endpoint, rung |-> MeshMemberRung, attested |-> FALSE,
                   expires |-> IF Listed(n) THEN iso[n].expires ELSE Durable,
                   seen |-> IF Listed(n) /\ iso[n].expires # Durable THEN iso[n].seen ELSE now]]
    /\ members' = members \cup {n}
    /\ UNCHANGED <<now, hd, restVars>>

RemoveIsotope(n) ==
    /\ n \in members
    /\ iso' = [iso EXCEPT ![n] = Absent]
    /\ members' = members \ {n}
    /\ UNCHANGED <<now, hd, restVars>>

(* refuseUnattestedCertification of an alarm that holds evidence.          *)
MayCertify(n, endpoint, receipt) ==
    /\ Verifies(receipt, endpoint)
    /\ Listed(n) /\ iso[n].endpoint = endpoint /\ iso[n].rung >= CertificationRung

(* handleFeatureCertify: the check and the mark.                           *)
CertifyCheck(h, n, endpoint, receipt, status) ==
    /\ hd[h] = Free
    /\ MayCertify(n, endpoint, receipt)
    /\ hd' = [hd EXCEPT ![h] = [op |-> "certify", status |-> status]]
    /\ claim' = IF Listed(n) THEN [rung |-> iso[n].rung, expired |-> Expired(iso[n])]
                ELSE [rung |-> 0, expired |-> FALSE]
    /\ UNCHANGED <<now, regVars, feature>>

(* CertifyFeature and FailFeature: a feature that is registered.           *)
CertifyMark(h) ==
    /\ hd[h].op = "certify"
    /\ feature' = IF feature = "none" THEN feature ELSE hd[h].status
    /\ hd' = [hd EXCEPT ![h] = Free]
    /\ UNCHANGED <<now, regVars, claim>>

RegisterFeature ==
    /\ feature # "certified" /\ feature' = "unclaimed"
    /\ UNCHANGED <<now, regVars, hd, claim>>

HealthNext ==
    \/ HealthTick \/ LiveViews \/ RegisterFeature
    \/ \E n \in Names : Deregister(n) \/ RemoveIsotope(n)
    \/ \E n \in Names, e \in Endpoints : UpsertIsotope(n, e)
    \/ \E h \in Handlers : RegisterWrite(h) \/ CertifyMark(h)
    \/ \E h \in Handlers, n \in Names, e \in Endpoints, r \in Receipts :
          \/ RegisterRead(h, n, e, r)
          \/ \E status \in {"certified", "failed"} : CertifyCheck(h, n, e, r, status)

HealthSpec == HealthInit /\ [][HealthNext]_healthVars
-----------------------------------------------------------------------------
(* A name holds the certification rung only if the call that registered or *)
(* last renewed it proved its endpoint with a receipt that verified then:  *)
(* neither a renewal, nor a record of the mesh in between, nor two         *)
(* handlers crossing carry the rung over (renewalAttests).                 *)
RungProved ==
    \A n \in Names : Listed(n) /\ iso[n].rung >= CertificationRung
        => iso[n].attested /\ iso[n].seen <= ReceiptEnd

(* Whoever marked a feature held the certification rung when asked.        *)
CertifierRanked == claim.rung >= CertificationRung

(* A renewal with no receipt is a new claim: what it holds is the floor.   *)
(* Refuted, and of no run.                                                 *)
UnprovenHoldsFloor ==
    \A n \in Names : Listed(n) /\ ~iso[n].attested /\ iso[n].expires # Durable /\ n \notin members
        => iso[n].rung <= Floor

(* A registration that has expired certifies nothing.                      *)
CertifierLive == ~claim.expired

(* No crossing of registrations, sweeps, mesh records and certifications   *)
(* gives a name the certification rung without a proof, or a feature a     *)
(* certifier below it.  (Of the rungs beneath it says nothing: see         *)
(* UnprovenHoldsFloor.)                                                    *)
TrustProved ==
    /\ RungProved
    /\ CertifierRanked
=============================================================================
