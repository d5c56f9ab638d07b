------------------------------ MODULE AcmeOrder ------------------------------
(***************************************************************************)
(* IssueCertificate and the DNS clients (issue_certificate.go,             *)
(* pkg/clients): how the workers obtain certificates from Let's Encrypt    *)
(* for the CertificateRequests of one cluster.                             *)
(*                                                                         *)
(* A cluster has one public DNS zone, and up to ten workers reconcile its  *)
(* CertificateRequests at the same time (MaxConcurrentReconciles): every   *)
(* one of them writes a test record of the same name, answers DNS-01       *)
(* challenges with TXT records, and cleans up afterwards.  Route 53 has an *)
(* UPSERT; Cloud DNS takes a change whose deletions must match what the    *)
(* zone holds, so the client lists the zone first.                         *)
(*                                                                         *)
(* A failed IssueCertificate is called again by the work queue.            *)
(***************************************************************************)
EXTENDS Integers, FiniteSets

CONSTANTS
    CRs,          \* the CertificateRequests, with a worker each
    DnsNames,     \* CertificateRequest -> spec.dnsNames, as a set
    BaseName,     \* DNS name -> the name without a leading "*."
    Platforms,    \* clouds the cluster may run on
    FirstPages,   \* records that the first page of a list of the zone may show
    MaxFaults     \* bound on API errors, failed verifications and restarts

AllNames == UNION {DnsNames[c] : c \in CRs}

AccessTest == "_certman_access_test"

ASSUME ConstantsAssumption ==
    /\ DOMAIN DnsNames = CRs
    /\ AllNames \subseteq DOMAIN BaseName
    /\ AccessTest \notin {BaseName[n] : n \in AllNames}   \* another prefix
    /\ Platforms \subseteq {"AWS", "GCP", "Azure"}
    /\ FirstPages \subseteq SUBSET ({BaseName[n] : n \in AllNames} \cup {AccessTest})
    /\ MaxFaults \in Nat

VARIABLES
    platform,     \* the cloud the cluster runs on
    onFirstPage,  \* is the zone on the first page of a list of the zones?
    firstPage,    \* the records on the first page of a list of the zone
    zone,    \* the TXT records of the zone: name -> value
    pc,      \* CertificateRequest -> the call its worker makes next
    todo,    \* CertificateRequest -> names whose authorization is not done
    cur,     \* CertificateRequest -> the name in hand, as a set
    saw,     \* CertificateRequest -> the zone as last listed
    retired, \* CertificateRequests whose certificate has been revoked
    faults

site == <<platform, onFirstPage, firstPage>>
vars == <<site, zone, pc, todo, cur, saw, retired, faults>>

-----------------------------------------------------------------------------
(* Records.  _acme-challenge.<name> is known by its base name: the one of   *)
(* "*.x" is also the one of "x".                                            *)

RecordNames == {BaseName[n] : n \in AllNames} \cup {AccessTest}

NoRecord    == <<>>
TestEntry   == <<"txt_entry">>
Token(c, n) == <<c, n>>     \* the key authorization of one authorization

Values == {NoRecord, TestEntry} \cup {Token(c, n) : c \in CRs, n \in AllNames}

PC == {"idle", "testList", "testWrite", "testDelete", "order", "authorize",
       "answerList", "answer", "verify", "challenge", "finalize",
       "cleanList", "cleanDelete", "done", "doneUnclean"}

Empty == [r \in RecordNames |-> NoRecord]

Init ==
    /\ platform \in Platforms
    /\ onFirstPage \in IF platform = "Azure" THEN {TRUE} ELSE BOOLEAN
    /\ firstPage \in IF platform = "GCP" THEN FirstPages ELSE {RecordNames}
    /\ zone = Empty
    /\ pc = [c \in CRs |-> "idle"]
    /\ todo = [c \in CRs |-> {}] /\ cur = [c \in CRs |-> {}]
    /\ saw = [c \in CRs |-> Empty]
    /\ retired = {}
    /\ faults = 0

Goto(c, p) == pc' = [pc EXCEPT ![c] = p]

(* Cloud DNS is asked for the zone before it is changed. *)
ByList == platform = "GCP"

Return(c, p) ==
    /\ Goto(c, p)
    /\ todo' = [todo EXCEPT ![c] = {}] /\ cur' = [cur EXCEPT ![c] = {}]
    /\ saw' = [saw EXCEPT ![c] = Empty]

(* IssueCertificate returns an error; the work queue will try again. *)
Fail(c) == Return(c, "idle") /\ UNCHANGED zone

List(c, records, p) ==
    /\ saw' = [saw EXCEPT ![c] = [r \in RecordNames |->
                   IF r \in records THEN zone[r] ELSE NoRecord]]
    /\ Goto(c, p)
    /\ UNCHANGED <<zone, todo, cur>>

(* getManagedZone and the list of upsertDnsRecord: one page of each. *)
ListPage(c, p) == IF onFirstPage THEN List(c, firstPage, p) ELSE Fail(c)

(* The cleaning turns the pages. *)
ListZone(c, p) == List(c, RecordNames, p)

(* Mutant: the change has no deletions. *)
AcceptsNewOnly(c, r) == zone[r] = NoRecord

(* upsertDnsRecord: Cloud DNS refuses an addition that exists and a         *)
(* deletion that does not, so what was listed has to be there still.        *)
Accepts(c, r) == ByList => zone[r] = saw[c][r]

Upsert(c, r, value, p) ==
    IF Accepts(c, r)
    THEN /\ zone' = [zone EXCEPT ![r] = value]
         /\ Goto(c, p) /\ UNCHANGED <<todo, cur, saw>>
    ELSE Fail(c)

-----------------------------------------------------------------------------
(* ValidateDNSWriteAccess: write a test record and delete it.  Only Azure   *)
(* accepts the deletion of a record that is not there.                      *)

Start(c) ==
    /\ pc[c] = "idle"
    /\ Goto(c, IF ByList THEN "testList" ELSE "testWrite")
    /\ UNCHANGED <<zone, todo, cur, saw>>

TestList(c) == pc[c] = "testList" /\ ListPage(c, "testWrite")

TestWrite(c) ==
    /\ pc[c] = "testWrite"
    /\ Upsert(c, AccessTest, TestEntry, "testDelete")

TestDelete(c) ==
    /\ pc[c] = "testDelete"
    /\ IF zone[AccessTest] # NoRecord \/ platform = "Azure"
       THEN /\ zone' = [zone EXCEPT ![AccessTest] = NoRecord]
            /\ Goto(c, "order") /\ UNCHANGED <<todo, cur, saw>>
       ELSE Fail(c)

-----------------------------------------------------------------------------
(* UpdateAccount and CreateOrder, then the loop over the authorizations in  *)
(* the order Let's Encrypt lists them.                                      *)

NewOrder(c) ==
    /\ pc[c] = "order"
    /\ todo' = [todo EXCEPT ![c] = DnsNames[c]]
    /\ Goto(c, "authorize")
    /\ UNCHANGED <<zone, cur, saw>>

(* FindZoneIDForChallenge knows the DNSZone status of AWS and of GCP only. *)
ZoneFound == platform \in {"AWS", "GCP"}

Authorize(c) ==
    /\ pc[c] = "authorize"
    /\ \/ /\ todo[c] = {}
          /\ Goto(c, "finalize") /\ UNCHANGED <<zone, todo, cur, saw>>
       \/ \E n \in todo[c] :
             IF ZoneFound
             THEN /\ cur' = [cur EXCEPT ![c] = {n}]
                  /\ Goto(c, IF ByList THEN "answerList" ELSE "answer")
                  /\ UNCHANGED <<zone, todo, saw>>
             ELSE Fail(c)

AnswerList(c) == pc[c] = "answerList" /\ ListPage(c, "answer")

Answer(c) ==
    /\ pc[c] = "answer"
    /\ \E n \in cur[c] : Upsert(c, BaseName[n], Token(c, n), "verify")

Published(c) == \A n \in cur[c] : zone[BaseName[n]] = Token(c, n)

(* VerifyDnsResourceRecordUpdate (module VerifyDns). *)
Verify(c) ==
    /\ pc[c] = "verify"
    /\ IF Published(c)
       THEN Goto(c, "challenge") /\ UNCHANGED <<zone, todo, cur, saw>>
       ELSE Fail(c)

(* UpdateChallenge: Let's Encrypt looks the record up, and one that is not  *)
(* the expected one spoils the order.                                       *)
UpdateChallenge(c) ==
    /\ pc[c] = "challenge"
    /\ IF Published(c)
       THEN /\ todo' = [todo EXCEPT ![c] = @ \ cur[c]]
            /\ cur' = [cur EXCEPT ![c] = {}]
            /\ Goto(c, "authorize") /\ UNCHANGED <<zone, saw>>
       ELSE Fail(c)

(* Mutant: the names to clean up are those of the zone. *)
FinalizeOrderWholeZone(c) ==
    /\ pc[c] = "finalize"
    /\ todo' = [todo EXCEPT ![c] = IF onFirstPage THEN RecordNames ELSE {}]
    /\ Goto(c, "cleanList")
    /\ UNCHANGED <<zone, cur, saw>>

(* FinalizeOrder and FetchCertificates.  What is to be cleaned up: Cloud    *)
(* DNS does it in one change, Route 53 name by name, and only looks at the  *)
(* first page of the hosted zones.                                          *)
FinalizeOrder(c) ==
    /\ pc[c] = "finalize"
    /\ todo' = [todo EXCEPT ![c] = IF onFirstPage THEN DnsNames[c] ELSE {}]
    /\ Goto(c, "cleanList")
    /\ UNCHANGED <<zone, cur, saw>>

-----------------------------------------------------------------------------
(* DeleteAcmeChallengeResourceRecords; its error is logged.  It is called   *)
(* once more when a deleted CertificateRequest has been revoked.            *)

Returned == {"done", "doneUnclean"}

RevokeCertificate(c) ==
    /\ pc[c] \in Returned /\ c \notin retired
    /\ retired' = retired \cup {c}
    /\ todo' = [todo EXCEPT ![c] = IF onFirstPage THEN DnsNames[c] ELSE {}]
    /\ Goto(c, "cleanList")
    /\ UNCHANGED <<site, zone, cur, saw, faults>>

(* Mutant: whatever was listed is deleted. *)
TargetsWholeZone(c) == {r \in RecordNames : saw[c][r] # NoRecord}

(* Mutant: records are matched with the names as they are spelled. *)
TargetsByExactName(c) ==
    {r \in RecordNames : \E n \in DnsNames[c] : r = n /\ saw[c][r] = Token(c, n)}

(* What of the zone listed is to be deleted.  Cloud DNS: every challenge    *)
(* and test record, whosever it is.  Route 53: the record of the name in    *)
(* hand.                                                                    *)
Targets(c) ==
    {r \in RecordNames : /\ saw[c][r] # NoRecord
                         /\ ByList \/ r \in {BaseName[n] : n \in cur[c]}}

(* Mutant: Route 53 is not asked again for the records of the next name. *)
CleanListUnasked(c) ==
    /\ pc[c] = "cleanList"
    /\ \/ ByList /\ ListZone(c, "cleanDelete")
       \/ /\ ~ByList
          /\ \E n \in todo[c] : /\ cur' = [cur EXCEPT ![c] = {n}]
                                /\ todo' = [todo EXCEPT ![c] = @ \ {n}]
          /\ Goto(c, "cleanDelete") /\ UNCHANGED <<zone, saw>>
       \/ /\ ~ByList /\ todo[c] = {}
          /\ Return(c, "done") /\ UNCHANGED zone

CleanList(c) ==
    /\ pc[c] = "cleanList"
    /\ \/ ByList /\ ListZone(c, "cleanDelete")
       \/ /\ ~ByList
          /\ \E n \in todo[c] : /\ cur' = [cur EXCEPT ![c] = {n}]
                                /\ todo' = [todo EXCEPT ![c] = @ \ {n}]
          /\ saw' = [saw EXCEPT ![c] = zone]
          /\ Goto(c, "cleanDelete") /\ UNCHANGED zone
       \/ /\ ~ByList /\ todo[c] = {}
          /\ Return(c, "done") /\ UNCHANGED zone

Unchanged(c) == \A r \in Targets(c) : zone[r] = saw[c][r]

Delete(c) ==
    zone' = [r \in RecordNames |-> IF r \in Targets(c) THEN NoRecord ELSE zone[r]]

(* Cloud DNS: one change, which fails as a whole when a record changed. *)
CleanGCP(c) ==
    /\ pc[c] = "cleanDelete" /\ ByList
    /\ \/ Unchanged(c) /\ Delete(c) /\ Return(c, "done")
       \/ ~Unchanged(c) /\ UNCHANGED zone /\ Return(c, "doneUnclean")

(* Route 53: on to the next name.  An error would end the cleaning and be   *)
(* swallowed; for want of a rival for the name it takes a fault.            *)
CleanAWS(c) ==
    /\ pc[c] = "cleanDelete" /\ ~ByList
    /\ IF Unchanged(c)
       THEN /\ Delete(c) /\ Goto(c, "cleanList")
            /\ cur' = [cur EXCEPT ![c] = {}] /\ saw' = [saw EXCEPT ![c] = Empty]
            /\ UNCHANGED todo
       ELSE UNCHANGED zone /\ Return(c, "done")

-----------------------------------------------------------------------------
(* Faults: a call fails, the record does not propagate in time, or the      *)
(* operator restarts and every worker with it; a revocation is then begun   *)
(* again.                                                                   *)

Fault == faults < MaxFaults /\ faults' = faults + 1

Calls(c) ==
    CASE pc[c] = "cleanList"   -> ByList \/ todo[c] # {}
      [] pc[c] = "cleanDelete" -> Targets(c) # {}
      [] OTHER -> pc[c] \notin Returned \cup {"idle"}

CallFails(c) ==
    /\ Fault /\ Calls(c)
    /\ UNCHANGED <<site, zone, retired>>
    /\ Return(c, CASE pc[c] = "cleanList"   -> "doneUnclean"
                   [] pc[c] = "cleanDelete" -> IF ByList THEN "doneUnclean" ELSE "done"
                   [] OTHER -> "idle")

Restart ==
    /\ Fault
    /\ pc' = [c \in CRs |-> CASE pc[c] \in Returned -> pc[c]
                               [] pc[c] \notin Returned /\ c \in retired -> "doneUnclean"
                               [] OTHER -> "idle"]
    /\ retired' = {c \in retired : pc[c] \in Returned}
    /\ todo' = [c \in CRs |-> {}] /\ cur' = [c \in CRs |-> {}]
    /\ saw' = [c \in CRs |-> Empty]
    /\ UNCHANGED <<site, zone>>

-----------------------------------------------------------------------------

Worker(c) ==
    /\ \/ Start(c) \/ TestList(c) \/ TestWrite(c) \/ TestDelete(c)
       \/ NewOrder(c) \/ Authorize(c) \/ AnswerList(c) \/ Answer(c)
       \/ Verify(c) \/ UpdateChallenge(c) \/ FinalizeOrder(c)
       \/ CleanList(c) \/ CleanGCP(c) \/ CleanAWS(c)
    /\ UNCHANGED <<site, retired, faults>>

Next ==
    \/ \E c \in CRs : Worker(c) \/ RevokeCertificate(c) \/ CallFails(c)
    \/ Restart

(* Every worker goroutine runs on, and the queue retries a failed request. *)
Fairness == \A c \in CRs : WF_vars(Worker(c))

Spec == Init /\ [][Next]_vars
FairSpec == Spec /\ Fairness

-----------------------------------------------------------------------------
(* Properties. *)

(* The shape of every variable. *)
TypeOK ==
    /\ zone \in [RecordNames -> Values] /\ saw \in [CRs -> [RecordNames -> Values]]
    /\ platform \in Platforms /\ onFirstPage \in BOOLEAN /\ firstPage \subseteq RecordNames
    /\ pc \in [CRs -> PC] /\ retired \subseteq CRs
    /\ todo \in [CRs -> SUBSET AllNames] /\ cur \in [CRs -> SUBSET AllNames]
    /\ faults \in Nat

(* From the moment a worker has published the answer to a challenge until   *)
(* Let's Encrypt has looked it up, the record stands as written: neither    *)
(* the next authorization, which may be for the same record (a name and its *)
(* wildcard), nor another worker's cleaning ("delete the challenge records  *)
(* that were used") touches it.                                             *)
RecordStands == \A c \in CRs : pc[c] \in {"verify", "challenge"} => Published(c)

(* On Route 53 that holds, revocations by other workers included: a         *)
(* cleaning looks for the names of its own request.                         *)
RecordStandsOnRoute53 == platform = "AWS" => RecordStands

Unpublished(c) == \A n \in DnsNames[c] : zone[BaseName[n]] = NoRecord

MustBeClean == platform = "GCP" \/ (platform = "AWS" /\ onFirstPage /\ faults = 0)

(* When DeleteAcmeChallengeResourceRecords reports success, the zone holds  *)
(* no challenge record of the CertificateRequest, not even one left by an   *)
(* earlier attempt that failed or died half way.  That is so on Cloud DNS;  *)
(* on Route 53 as long as no call fails (an error in the middle is not      *)
(* returned) and the zone is on the first page.                             *)
CleanedUp == MustBeClean => \A c \in CRs : pc[c] = "done" => Unpublished(c)

(* No two CertificateRequests of the cluster share a challenge record. *)
NamesDisjoint ==
    \A c, d \in CRs : \A m \in DnsNames[c], n \in DnsNames[d] :
        BaseName[m] = BaseName[n] => c = d

(* The worker of c has names of c in hand, one at a time. *)
InHand == {"answerList", "answer", "verify", "challenge", "cleanDelete"}

HandOK(c) ==
    /\ todo[c] \subseteq DnsNames[c] /\ cur[c] \subseteq DnsNames[c]
    /\ \A m, n \in cur[c] : m = n
    /\ cur[c] # {} => pc[c] \in InHand

StandsOK(c) ==
    platform = "AWS" /\ pc[c] \in {"verify", "challenge"} => Published(c)

(* What a cleaning listed is as it was, or gone (on Cloud DNS, where others *)
(* may delete it).                                                          *)
ListedOK(c) ==
    pc[c] = "cleanDelete" => \A n \in DnsNames[c] :
        \/ zone[BaseName[n]] = saw[c][BaseName[n]]
        \/ ByList /\ zone[BaseName[n]] = NoRecord

(* On Route 53 a cleaning has every record that is left before it. *)
LeftOK(c) ==
    platform = "AWS" /\ onFirstPage /\ pc[c] \in {"cleanList", "cleanDelete"} =>
        \A n \in DnsNames[c] : zone[BaseName[n]] # NoRecord =>
            \E m \in todo[c] \cup cur[c] : BaseName[m] = BaseName[n]

DoneOK(c) == MustBeClean /\ pc[c] = "done" => Unpublished(c)

OrderOK(c) == HandOK(c) /\ StandsOK(c) /\ ListedOK(c) /\ LeftOK(c) /\ DoneOK(c)

(* The inductive invariant behind RecordStandsOnRoute53 and CleanedUp, when *)
(* no record is shared: each worker finds the records of its request as it  *)
(* left them, except that on Cloud DNS they may be gone.                    *)
OrdersOK == NamesDisjoint => \A c \in CRs : OrderOK(c)

(* The zone is found for the challenge and, on Cloud DNS, on the one page   *)
(* of zones that is read.                                                   *)
Issuable == ZoneFound /\ (ByList => onFirstPage)

(* A record of the operator's stands where upsertDnsRecord does not see it. *)
Hidden == \E r \in RecordNames \ firstPage : zone[r] # NoRecord

(* Where the zone can be found, every CertificateRequest gets its           *)
(* certificate in the end, although the workers share the test record, may  *)
(* delete each other's challenges, and leave records behind when they fail. *)
(* Nothing can prevent that but a record that stays, on Cloud DNS, beyond   *)
(* the first page of the zone: it is not replaced, and what would delete it *)
(* comes after the certificate.                                             *)
Issues == Issuable => (\A c \in CRs : <>(pc[c] \in Returned)) \/ <>[]Hidden
=============================================================================
