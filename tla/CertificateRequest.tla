------------------------- MODULE CertificateRequest -------------------------
(***************************************************************************)
(* The CertificateRequest controller (controllers/certificaterequest): one *)
(* CertificateRequest name, the Secret that holds its certificate, and the *)
(* worker that reconciles it.                                              *)
(*                                                                         *)
(* The work queue never hands one key to two workers, so a single worker   *)
(* is the whole of the concurrency inside the operator for this name.  It  *)
(* interleaves, between any two of its API calls, with everybody else who  *)
(* touches the same objects: the ClusterDeployment controller, Hive, the   *)
(* Kubernetes garbage collector, a user, and the clock.                    *)
(*                                                                         *)
(* Reads go to an informer cache (mgr.GetClient()), which may be any       *)
(* number of versions behind the API server and only moves forward; writes *)
(* go to the server.  Update carries the resourceVersion read and is       *)
(* refused when that is stale; the merge patches carry none and apply to   *)
(* whatever object now has the name.                                       *)
(*                                                                         *)
(* How a certificate is obtained (orders, DNS challenges) is one action    *)
(* here with every outcome it can have.                                    *)
(***************************************************************************)
EXTENDS Integers, Sequences, FiniteSets

CONSTANTS
    Domains,        \* DNS names a CertificateRequest may ask for
    CacheLags,      \* may the informer cache be behind the API server?
    ClientNeedsCD,  \* building the DNS client reads the ClusterDeployment (AWS)
    IssuerKnown,    \* does the CA sign as an issuer the code takes for Let's Encrypt?
    ForeignCDs,     \* are there ClusterDeployments in other namespaces?
    EnvOps,         \* what the environment may do, a subset of AllEnvOps
    MaxEdits,       \* bound on environment edits
    MaxFaults,      \* bound on API errors, failed issuances and crashes
    MaxCerts        \* the CA's rate limit for this set of names

AllEnvOps == {"delete", "recreate", "spec", "dropOwner", "dropSecret",
              "emptySecret", "replaceCert", "relocate", "cdGone", "age"}

ASSUME ConstantsAssumption ==
    /\ Domains # {}
    /\ CacheLags \in BOOLEAN
    /\ ClientNeedsCD \in BOOLEAN
    /\ IssuerKnown \in BOOLEAN
    /\ ForeignCDs \in BOOLEAN
    /\ EnvOps \subseteq AllEnvOps
    /\ MaxEdits \in Nat
    /\ MaxFaults \in Nat
    /\ MaxCerts \in Nat

VARIABLES
    cr,        \* the CertificateRequest on the API server
    crSeen,    \* the cached CertificateRequest
    crMissed,  \* the later versions the informer has not delivered yet
    sec,       \* the certificate Secret on the API server
    secSeen,   \* the cached Secret
    secMissed, \* its undelivered versions
    cd,        \* the ClusterDeployment, as the worker's client returns it
    certs,     \* certificates issued so far; a serial number is an index
    revoked,   \* serial numbers the CA has revoked
    due,       \* serial numbers within reissueBeforeDays of their expiry
    queued,    \* is the key in the work queue (or marked dirty)?
    pc,        \* the call the worker makes next
    mem,       \* the worker's `cr`
    found,     \* the worker's `found` Secret
    reissue,   \* the worker's `shouldReissue`
    edits,     \* environment edits so far
    faults     \* faults so far

crObj  == <<cr, crMissed>>
secObj == <<sec, secMissed>>
api    == <<crObj, secObj, cd>>
seen   == <<crSeen, secSeen>>
ca     == <<certs, revoked, due>>
locals == <<mem, found, reissue>>
worker == <<queued, pc, locals>>
budget == <<edits, faults>>
vars   == <<api, seen, ca, worker, budget>>

-----------------------------------------------------------------------------
(* Objects.  Absence is an object with ex = FALSE, which keeps the last uid *)
(* and resourceVersion so that both only grow.                              *)

NoCert == 0        \* a Secret without tls.crt; a status without a serial number
ForeignCert == -1  \* a certificate a user got elsewhere, good for every name

CertRef == Nat \cup {ForeignCert}

Phase == {"", "Success", "Error", "Relocating"}

Status == [issued: BOOLEAN, phase: Phase, cert: CertRef, acmeError: BOOLEAN]

NewStatus == [issued |-> FALSE, phase |-> "", cert |-> NoCert,
              acmeError |-> FALSE]

CR == [ex: BOOLEAN, uid: Nat, rv: Nat, del: BOOLEAN, fin: BOOLEAN,
       own: BOOLEAN, names: SUBSET Domains, st: Status]

Secret == [ex: BOOLEAN, rv: Nat, owner: Nat, cert: CertRef]

(* `for` records the CertificateRequest a certificate was issued for. *)
Cert == [names: SUBSET Domains, for: Nat]

PC == {"idle", "addFinalizer", "findOwner", "setOwner", "bailOut", "getSecret",
       "shouldReissue", "bailOutAgain", "issue", "createSecret", "createStatus",
       "statusError", "renew", "updateSecret", "status",
       "secretExists", "revoke", "removeFinalizer"}

GoneCR(uid, rv) ==
    [ex |-> FALSE, uid |-> uid, rv |-> rv, del |-> FALSE, fin |-> FALSE,
     own |-> FALSE, names |-> {}, st |-> NewStatus]

NewCR(uid, rv, names) ==
    [ex |-> TRUE, uid |-> uid, rv |-> rv, del |-> FALSE, fin |-> FALSE,
     own |-> TRUE, names |-> names, st |-> NewStatus]

GoneSecret(rv) == [ex |-> FALSE, rv |-> rv, owner |-> 0, cert |-> NoCert]

(* The server stores a new version of an object; a write that changes       *)
(* nothing makes none.                                                      *)
StoreCR(c) ==
    IF c = cr
    THEN UNCHANGED crObj
    ELSE /\ cr' = [c EXCEPT !.rv = cr.rv + 1]
         /\ crMissed' = crMissed \cup {cr'}

StoreSecret(s) ==
    /\ sec' = [s EXCEPT !.rv = sec.rv + 1]
    /\ secMissed' = secMissed \cup {sec'}

HoldsCert(owner, cert) ==
    [ex |-> TRUE, rv |-> sec.rv, owner |-> owner, cert |-> cert]

(* Client.Update and Status().Update of the worker's copy are accepted. *)
Fresh == cr.ex /\ cr.rv = mem.rv

(* A step that reads the cache; without lag every event was delivered. *)
CacheRead == CacheLags \/ (crMissed = {} /\ secMissed = {})

(* getClient: an AWS client reads the ClusterDeployment named by the owner  *)
(* references of the worker's copy.                                         *)
ClientBuilds == ClientNeedsCD => (cd.ex /\ mem.own)

Init ==
    /\ \E names \in SUBSET Domains \ {{}} : cr = NewCR(1, 1, names)
    /\ crSeen = GoneCR(0, 0) /\ crMissed = {cr}
    /\ sec = GoneSecret(0) /\ secSeen = sec /\ secMissed = {}
    /\ cd = [ex |-> TRUE, relocating |-> FALSE]
    /\ certs = <<>> /\ revoked = {} /\ due = {}
    /\ queued = FALSE /\ pc = "idle"
    /\ mem = GoneCR(0, 0) /\ found = GoneSecret(0) /\ reissue = FALSE
    /\ edits = 0 /\ faults = 0

-----------------------------------------------------------------------------
(* How a call of Reconcile moves on or ends. *)

Step(p) == pc' = p /\ UNCHANGED queued

Goto(p) == Step(p) /\ UNCHANGED locals

Return ==
    /\ pc' = "idle"
    /\ mem' = GoneCR(0, 0) /\ found' = GoneSecret(0) /\ reissue' = FALSE

(* reconcile.Result{}, nil: the key is forgotten *)
Finish == Return /\ UNCHANGED queued

(* reconcile.Result{}, err: the key is queued again, after a back-off *)
Fail == Return /\ queued' = TRUE

GotoOrFail(ok, p) == IF ok THEN Goto(p) ELSE Fail

FinishOrFail(ok) == IF ok THEN Finish ELSE Fail

Fault == faults < MaxFaults /\ faults' = faults + 1 /\ UNCHANGED edits

-----------------------------------------------------------------------------
(* Reconcile, first part: read the object, decide between issuing and      *)
(* finalizing, and make sure the finalizer is in place.                    *)

(* Mutant: the finalizer is not added. *)
FirstCallWithoutFinalizer(c) ==
    CASE ~c.ex \/ (c.del /\ ~c.fin) -> "idle"
      [] c.ex /\ c.del /\ c.fin      -> "secretExists"
      [] c.ex /\ ~c.del              -> "findOwner"

(* Mutant: a request that could not be served is cleaned up. *)
FirstCallFinalizingFailed(c) ==
    CASE ~c.ex \/ (c.del /\ ~c.fin) -> "idle"
      [] c.ex /\ c.fin /\ (c.del \/ c.st.phase = "Error") -> "secretExists"
      [] c.ex /\ ~c.del /\ ~c.fin -> "addFinalizer"
      [] c.ex /\ ~c.del /\ c.fin /\ c.st.phase # "Error" -> "findOwner"

FirstCall(c) ==
    CASE ~c.ex                -> "idle"
      [] c.ex /\ c.del /\ c.fin   -> "secretExists"
      [] c.ex /\ c.del /\ ~c.fin  -> "idle"
      [] c.ex /\ ~c.del /\ ~c.fin -> "addFinalizer"
      [] c.ex /\ ~c.del /\ c.fin  -> "findOwner"

StartReconcile ==
    /\ pc = "idle" /\ queued /\ CacheRead
    /\ queued' = FALSE
    /\ pc' = FirstCall(crSeen)
    /\ mem' = IF pc' = "idle" THEN mem ELSE crSeen
    /\ UNCHANGED <<api, seen, ca, found, reissue, budget>>

(* A merge patch that sets metadata.finalizers on the object of that name;  *)
(* the answer replaces the worker's copy.                                   *)
AddFinalizer ==
    /\ pc = "addFinalizer"
    /\ IF cr.ex
       THEN /\ StoreCR([cr EXCEPT !.fin = TRUE])
            /\ mem' = cr' /\ Step("findOwner") /\ UNCHANGED <<found, reissue>>
       ELSE UNCHANGED crObj /\ Fail
    /\ UNCHANGED <<secObj, cd, seen, ca, budget>>

(* With no owner reference the code lists the ClusterDeployments of every   *)
(* namespace, takes the first, and then gets that name in this namespace.   *)
(* (An object owned by others only is looked up so too and keeps its owners:*)
(* nothing in the system makes one.)                                        *)
FindOwner ==
    /\ pc = "findOwner"
    /\ \/ /\ mem.own
          /\ GotoOrFail(cd.ex, "bailOut")
       \/ /\ ~mem.own
          /\ \E here \in BOOLEAN : /\ here \/ ForeignCDs
                                   /\ GotoOrFail(here /\ cd.ex, "setOwner")
    /\ UNCHANGED <<api, seen, ca, budget>>

SetOwner ==
    /\ pc = "setOwner"
    /\ IF cr.ex
       THEN /\ StoreCR([cr EXCEPT !.own = TRUE])
            /\ mem' = cr' /\ Step("bailOut") /\ UNCHANGED <<found, reissue>>
       ELSE UNCHANGED crObj /\ Fail
    /\ UNCHANGED <<secObj, cd, seen, ca, budget>>

(* relocationBailOut: the ClusterDeployment has an outgoing relocation. *)
Relocating == cd.ex /\ cd.relocating

(* Both bail-outs set cr.Status.Status and call Client.Update.  Status is a *)
(* subresource of this CRD, so the server ignores the change.               *)
ReportRelocation ==
    /\ UNCHANGED crObj
    /\ FinishOrFail(Fresh)

BailOut ==
    /\ pc = "bailOut"
    /\ IF Relocating
       THEN ReportRelocation
       ELSE UNCHANGED crObj /\ Goto("getSecret")
    /\ UNCHANGED <<secObj, cd, seen, ca, budget>>

(* Mutant: any error of the look-up counts as a missing Secret. *)
GetSecretIgnoringErrors ==
    /\ pc = "getSecret" /\ CacheRead
    /\ \/ found' = secSeen /\ Step(IF secSeen.ex THEN "shouldReissue" ELSE "issue")
       \/ found' = GoneSecret(0) /\ Step("issue")
    /\ UNCHANGED <<api, seen, ca, mem, reissue, budget>>

GetSecret ==
    /\ pc = "getSecret" /\ CacheRead
    /\ found' = secSeen
    /\ Step(IF secSeen.ex THEN "shouldReissue" ELSE "issue")
    /\ UNCHANGED <<api, seen, ca, mem, reissue, budget>>

NamesOn(cert) == IF cert = ForeignCert THEN Domains ELSE certs[cert].names

(* Mutant: the comparison with reissueBeforeDays is the wrong way round. *)
NeedsReissueInverted(cert) ==
    cert = NoCert \/ cert \notin due \/ ~(mem.names \subseteq NamesOn(cert))

(* Mutant: a certificate is only replaced because of its age. *)
NeedsReissueByAge(cert) == cert = NoCert \/ cert \in due

(* Is cert, in a Secret, to be replaced for the names the worker has? *)
NeedsReissue(cert) ==
    \/ cert = NoCert
    \/ cert \in due
    \/ ~(mem.names \subseteq NamesOn(cert))

ShouldReissue ==
    /\ pc = "shouldReissue" /\ CacheRead
    /\ IF secSeen.ex
       THEN /\ reissue' = NeedsReissue(secSeen.cert)
            /\ Step("bailOutAgain") /\ UNCHANGED <<mem, found>>
       ELSE Fail
    /\ UNCHANGED <<api, seen, ca, budget>>

(* The second bail-out: this time a missing ClusterDeployment is an error. *)
BailOutAgain ==
    /\ pc = "bailOutAgain"
    /\ IF Relocating
       THEN ReportRelocation
       ELSE /\ UNCHANGED crObj
            /\ GotoOrFail(cd.ex, IF reissue THEN "renew" ELSE "status")
    /\ UNCHANGED <<secObj, cd, seen, ca, budget>>

-----------------------------------------------------------------------------
(* IssueCertificate.  The CA issues for the names of the worker's copy.  A  *)
(* failure may come after the order was finalized: FetchCertificates fails  *)
(* and the certificate exists at the CA only.                               *)

Issued == certs' = Append(certs, [names |-> mem.names, for |-> mem.uid])

IssueCertificate ==
    /\ pc \in {"issue", "renew"}
    /\ ClientBuilds /\ Len(certs) < MaxCerts
    /\ Issued
    /\ Goto(IF pc = "issue" THEN "createSecret" ELSE "updateSecret")
    /\ UNCHANGED <<api, seen, revoked, due, budget>>

(* createCertificateSecret records the failure in the status; the renewal   *)
(* branch of Reconcile returns the error as it is.                          *)
IssueFails ==
    /\ pc \in {"issue", "renew"}
    /\ \/ /\ ~ClientBuilds \/ Len(certs) >= MaxCerts
          /\ UNCHANGED <<certs, budget>>
       \/ Fault /\ UNCHANGED certs
       \/ Fault /\ ClientBuilds /\ Len(certs) < MaxCerts /\ Issued
    /\ GotoOrFail(pc = "issue", "statusError")
    /\ UNCHANGED <<api, seen, revoked, due>>

(* Mutant: the status gets the type of the condition in place of "Error". *)
UpdateStatusErrorAsCondition ==
    /\ pc = "statusError"
    /\ \E acme \in BOOLEAN :
           IF Fresh
           THEN StoreCR([cr EXCEPT !.st.issued = FALSE,
                                   !.st.phase = IF acme THEN "acme error" ELSE "Error",
                                   !.st.acmeError = @ \/ acme])
           ELSE UNCHANGED crObj
    /\ Fail
    /\ UNCHANGED <<secObj, cd, seen, ca, budget>>

(* updateStatusError: the "acme error" condition is added once and stays. *)
UpdateStatusError ==
    /\ pc = "statusError"
    /\ \E acme \in BOOLEAN :
           IF Fresh
           THEN StoreCR([cr EXCEPT !.st.issued = FALSE, !.st.phase = "Error",
                                   !.st.acmeError = @ \/ acme])
           ELSE UNCHANGED crObj
    /\ Fail
    /\ UNCHANGED <<secObj, cd, seen, ca, budget>>

NewestCert == Len(certs)

(* Create, or on AlreadyExists an Update without resourceVersion, which is  *)
(* unconditional and installs the new owner reference too.  (That the Secret *)
(* vanishes between the two is one of the errors of ApiError.)              *)
CreateSecret ==
    /\ pc = "createSecret"
    /\ StoreSecret(HoldsCert(mem.uid, NewestCert))
    /\ Goto("createStatus")
    /\ UNCHANGED <<crObj, cd, seen, ca, budget>>

(* Update of `found`: refused if the Secret changed since it was read. *)
UpdateSecret ==
    /\ pc = "updateSecret"
    /\ IF sec.ex /\ sec.rv = found.rv
       THEN StoreSecret(HoldsCert(found.owner, NewestCert)) /\ Goto("status")
       ELSE UNCHANGED secObj /\ Fail
    /\ UNCHANGED <<crObj, cd, seen, ca, budget>>

(* GetCertificate succeeds: there is a Secret and it holds a certificate. *)
GetCertificate(s) == s.ex /\ s.cert # NoCert

(* updateStatus.  After a creation its error is returned, otherwise logged. *)
UpdateStatus ==
    LET cert == secSeen.cert
        ok   == GetCertificate(secSeen)
        same == mem.st.issued /\ mem.st.cert = cert
        done == ok /\ (same \/ Fresh)
    IN  /\ pc \in {"createStatus", "status"} /\ CacheRead
        /\ IF ok /\ ~same /\ Fresh
           THEN StoreCR([cr EXCEPT !.st.issued = TRUE, !.st.phase = "Success",
                                   !.st.cert = cert])
           ELSE UNCHANGED crObj
        /\ FinishOrFail(pc = "createStatus" => done)
        /\ UNCHANGED <<secObj, cd, seen, ca, budget>>

-----------------------------------------------------------------------------
(* finalizeCertificateRequest *)

SecretExists ==
    /\ pc = "secretExists" /\ CacheRead
    /\ Goto(IF secSeen.ex THEN "revoke" ELSE "removeFinalizer")
    /\ UNCHANGED <<api, seen, ca, budget>>

(* IsCertificateIssuerLE goes by the organization "Let's Encrypt" or the    *)
(* common name of an intermediate of the staging CA that is not used any    *)
(* more, whichever CA the account belongs to.                               *)
IsCertificateIssuerLE(cert) == IssuerKnown /\ cert # ForeignCert

(* Mutant: the error of RevokeCertificate does not stop the finalizing. *)
RevokeCertificateIgnoringErrors ==
    LET ok == /\ ClientBuilds /\ GetCertificate(secSeen)
              /\ IsCertificateIssuerLE(secSeen.cert)
    IN  /\ pc = "revoke" /\ CacheRead
        /\ revoked' = IF ok THEN revoked \cup {secSeen.cert} ELSE revoked
        /\ Goto("removeFinalizer")
        /\ UNCHANGED <<api, seen, certs, due, budget>>

(* Mutant: alreadyRevoked is an error like any other. *)
RevokeCertificateOnce ==
    LET ok == /\ ClientBuilds /\ GetCertificate(secSeen)
              /\ IsCertificateIssuerLE(secSeen.cert) /\ secSeen.cert \notin revoked
    IN  /\ pc = "revoke" /\ CacheRead
        /\ revoked' = IF ok THEN revoked \cup {secSeen.cert} ELSE revoked
        /\ GotoOrFail(ok, "removeFinalizer")
        /\ UNCHANGED <<api, seen, certs, due, budget>>

(* RevokeCertificate tolerates alreadyRevoked; a Secret that vanished, has  *)
(* no certificate or one of an issuer the code does not know is an error.   *)
RevokeCertificate ==
    LET ok == /\ ClientBuilds /\ GetCertificate(secSeen)
              /\ IsCertificateIssuerLE(secSeen.cert)
    IN  /\ pc = "revoke" /\ CacheRead
        /\ revoked' = IF ok THEN revoked \cup {secSeen.cert} ELSE revoked
        /\ GotoOrFail(ok, "removeFinalizer")
        /\ UNCHANGED <<api, seen, certs, due, budget>>

(* The merge patch that removes the finalizer applies to whatever object    *)
(* has the name; a deleted object with no finalizer left disappears.        *)
RemoveFinalizer ==
    /\ pc = "removeFinalizer"
    /\ CASE ~cr.ex -> UNCHANGED crObj
         [] cr.ex /\ cr.del -> StoreCR(GoneCR(cr.uid, cr.rv))
         [] cr.ex /\ ~cr.del -> StoreCR([cr EXCEPT !.fin = FALSE])
    /\ FinishOrFail(cr.ex)
    /\ UNCHANGED <<secObj, cd, seen, ca, budget>>

-----------------------------------------------------------------------------
(* Faults.  An error of the call the worker is about to make; because the   *)
(* previous call has taken effect, this is also a write whose answer is     *)
(* lost.  A failed status update at the end of Reconcile is only logged.    *)

ApiError ==
    /\ pc \notin {"idle", "issue", "renew"}
    /\ Fault
    /\ FinishOrFail(pc = "status")
    /\ UNCHANGED <<api, seen, ca>>

(* The operator restarts: fresh caches, and every object is queued. *)
Crash ==
    /\ Fault
    /\ Fail
    /\ crSeen' = cr /\ crMissed' = {}
    /\ secSeen' = sec /\ secMissed' = {}
    /\ UNCHANGED <<cr, sec, cd, ca>>

-----------------------------------------------------------------------------
(* The controller machinery: informers deliver events and enqueue the key   *)
(* (For CertificateRequest, Owns Secret), and resync it periodically.  A    *)
(* relist may skip versions.                                                *)

Later(versions, v) == {w \in versions : w.rv > v.rv}

SyncCR ==
    /\ \E v \in crMissed : crSeen' = v /\ crMissed' = Later(crMissed, v)
    /\ queued' = TRUE
    /\ UNCHANGED <<cr, secObj, cd, secSeen, ca, pc, locals, budget>>

SyncSecret ==
    /\ \E v \in secMissed : secSeen' = v /\ secMissed' = Later(secMissed, v)
    /\ queued' = TRUE
    /\ UNCHANGED <<crObj, sec, cd, crSeen, ca, pc, locals, budget>>

Resync ==
    /\ ~queued /\ crSeen.ex
    /\ queued' = TRUE
    /\ UNCHANGED <<api, seen, ca, pc, locals, budget>>

(* The Kubernetes garbage collector removes a Secret whose owner is gone. *)
CollectSecret ==
    /\ sec.ex /\ ~(cr.ex /\ sec.owner = cr.uid)
    /\ StoreSecret(GoneSecret(sec.rv))
    /\ UNCHANGED <<crObj, cd, seen, ca, worker, budget>>

-----------------------------------------------------------------------------
(* The environment: the ClusterDeployment controller, Hive, users, time. *)

Edit(op) ==
    /\ op \in EnvOps /\ edits < MaxEdits
    /\ edits' = edits + 1
    /\ UNCHANGED <<seen, certs, revoked, worker, faults>>

DeleteCR ==
    /\ Edit("delete") /\ cr.ex /\ ~cr.del
    /\ StoreCR(IF cr.fin THEN [cr EXCEPT !.del = TRUE] ELSE GoneCR(cr.uid, cr.rv))
    /\ UNCHANGED <<secObj, cd, due>>

RecreateCR ==
    /\ Edit("recreate") /\ ~cr.ex /\ cd.ex
    /\ \E names \in SUBSET Domains \ {{}} :
           StoreCR(NewCR(cr.uid + 1, cr.rv, names))
    /\ UNCHANGED <<secObj, cd, due>>

EditSpec ==
    /\ Edit("spec") /\ cr.ex
    /\ \E names \in SUBSET Domains \ {{}, cr.names} :
           StoreCR([cr EXCEPT !.names = names])
    /\ UNCHANGED <<secObj, cd, due>>

DropOwner ==
    /\ Edit("dropOwner") /\ cr.ex /\ cr.own
    /\ StoreCR([cr EXCEPT !.own = FALSE])
    /\ UNCHANGED <<secObj, cd, due>>

DropSecret ==
    /\ Edit("dropSecret") /\ sec.ex
    /\ StoreSecret(GoneSecret(sec.rv))
    /\ UNCHANGED <<crObj, cd, due>>

EmptySecret ==
    /\ Edit("emptySecret") /\ sec.ex /\ sec.cert # NoCert
    /\ StoreSecret(HoldsCert(sec.owner, NoCert))
    /\ UNCHANGED <<crObj, cd, due>>

(* A user stores a certificate of another CA under the Secret's name. *)
ReplaceCert ==
    /\ Edit("replaceCert") /\ sec.ex /\ sec.cert # ForeignCert
    /\ StoreSecret(HoldsCert(sec.owner, ForeignCert))
    /\ UNCHANGED <<crObj, cd, due>>

Relocate ==
    /\ Edit("relocate") /\ cd.ex
    /\ cd' = [cd EXCEPT !.relocating = ~@]
    /\ UNCHANGED <<crObj, secObj, due>>

LoseCD ==
    /\ Edit("cdGone") /\ cd.ex
    /\ cd' = [ex |-> FALSE, relocating |-> FALSE]
    /\ UNCHANGED <<crObj, secObj, due>>

Age ==
    /\ Edit("age")
    /\ \E sn \in 1..Len(certs) : sn \notin due /\ due' = due \cup {sn}
    /\ UNCHANGED api

-----------------------------------------------------------------------------

Worker ==
    \/ StartReconcile \/ AddFinalizer \/ FindOwner \/ SetOwner \/ BailOut
    \/ GetSecret \/ ShouldReissue \/ BailOutAgain
    \/ IssueCertificate \/ IssueFails \/ UpdateStatusError
    \/ CreateSecret \/ UpdateSecret \/ UpdateStatus
    \/ SecretExists \/ RevokeCertificate \/ RemoveFinalizer

Machinery == SyncCR \/ SyncSecret \/ Resync \/ CollectSecret

Environment ==
    \/ DeleteCR \/ RecreateCR \/ EditSpec \/ DropOwner \/ DropSecret
    \/ EmptySecret \/ ReplaceCert \/ Relocate \/ LoseCD \/ Age

Next == Worker \/ ApiError \/ Crash \/ Machinery \/ Environment

(* A worker goroutine runs on, informers deliver, resync fires, the garbage *)
(* collector collects.  A list of all ClusterDeployments comes out of the    *)
(* cache in the random order of a Go map, so the one of this namespace does  *)
(* not lose the draw for ever.  Faults and edits are never owed; that there  *)
(* are finitely many is the bound, not fairness.                             *)
Fairness ==
    /\ WF_vars(Worker)
    /\ WF_vars(SyncCR) /\ WF_vars(SyncSecret) /\ WF_vars(Resync)
    /\ WF_vars(CollectSecret)
    /\ SF_vars(FindOwner /\ pc' = "setOwner")

Spec == Init /\ [][Next]_vars
FairSpec == Spec /\ Fairness
-----------------------------------------------------------------------------
(* Properties. *)

(* The shape of every variable. *)
TypeOK ==
    /\ cr \in CR /\ crSeen \in CR /\ mem \in CR /\ crMissed \subseteq CR
    /\ sec \in Secret /\ secSeen \in Secret /\ found \in Secret
    /\ secMissed \subseteq Secret
    /\ cd \in [ex: BOOLEAN, relocating: BOOLEAN]
    /\ certs \in Seq(Cert)
    /\ revoked \subseteq Nat /\ due \subseteq Nat
    /\ queued \in BOOLEAN /\ reissue \in BOOLEAN
    /\ pc \in PC
    /\ edits \in Nat /\ faults \in Nat

IssuedFor(uid) == \E i \in 1..Len(certs) : certs[i].for = uid

(* As soon as the CA has issued a certificate for a CertificateRequest, and *)
(* for as long as that object exists, it carries the certman finalizer: no  *)
(* interleaving of stale reads, unconditional merge patches, crashes and    *)
(* re-creations lets it be deleted without finalizeCertificateRequest.      *)
FinalizerGuardsIssued == (cr.ex /\ IssuedFor(cr.uid)) => cr.fin

(* No certificate of a CertificateRequest that is not being deleted is ever *)
(* revoked, although the finalizing pass may run on a cached copy of an     *)
(* earlier object of the same name and revokes whatever the Secret holds.   *)
LiveNotRevoked ==
    (cr.ex /\ ~cr.del) => \A sn \in revoked : certs[sn].for # cr.uid

(* The Secret holds a certificate of our CA. *)
HoldsOurs == sec.ex /\ sec.cert \notin {NoCert, ForeignCert}

(* The object disappears past its finalizer only when the certificate in    *)
(* its Secret has been revoked ("all valid certificates are first revoked   *)
(* and then the secret is deleted").                                        *)
RevokedBeforeGone ==
    [][(cr.ex /\ cr.fin /\ ~cr'.ex /\ HoldsOurs) => sec.cert \in revoked]_vars

(* The CA is not asked for a certificate while the Secret holds one of its  *)
(* that is good for the names requested: each counts against the rate limit.*)
GoodInSecret ==
    /\ HoldsOurs /\ sec.cert \notin due
    /\ mem.names \subseteq certs[sec.cert].names

NoDuplicateIssuance == [][certs' # certs => ~GoodInSecret]_vars

(* RevokeCertificate has nothing to refuse in the Secret. *)
Revocable == sec.ex => GetCertificate(sec) /\ IsCertificateIssuerLE(sec.cert)

(* Every deleted CertificateRequest goes away; its finalizer stays for ever *)
(* only over a Secret that stays, for ever, without a certificate or with   *)
(* one of an issuer the code does not take for Let's Encrypt.  Faults,      *)
(* crashes, a stale cache and a revocation done twice do not block it.      *)
DeletionCompletes == <>[](cr.ex /\ cr.del) => <>[]~Revocable

(* A live CertificateRequest of a cluster that is not relocating ends with  *)
(* its finalizer, a Secret whose certificate is valid, not revoked, not due *)
(* and covers the names asked for, and a status that names that certificate.*)
Settled ==
    (cr.ex /\ ~cr.del /\ cd.ex /\ ~cd.relocating) =>
        /\ cr.fin /\ cr.own
        /\ sec.ex /\ sec.owner = cr.uid
        /\ sec.cert # NoCert /\ sec.cert \notin due \cup revoked
        /\ cr.names \subseteq NamesOn(sec.cert)
        /\ cr.st.issued /\ cr.st.cert = sec.cert

Converges == <>[]Settled

(* A cluster that relocates for good has that in its CertificateRequest's   *)
(* status, as the bail-outs of Reconcile intend.                            *)
RelocationReported ==
    <>[](cr.ex /\ ~cr.del /\ cd.ex /\ cd.relocating)
        => <>(cr.st.phase = "Relocating")

(* The life of the object and of its certificates, whatever the cache, the  *)
(* worker and the faults make of it.                                        *)
LifeStage ==
    IF ~cr.ex THEN "absent"
    ELSE IF cr.del THEN "deleting"
    ELSE IF cr.fin THEN "guarded" ELSE "new"

Owners == [i \in 1..Len(certs) |-> certs[i].for]

Life ==
    INSTANCE CRLifecycle WITH
        uid <- cr.uid, life <- LifeStage, owners <- Owners, revoked <- revoked

(* The controller implements the life cycle: every step of anybody, seen    *)
(* through the objects on the server and the CA, is one of its transitions. *)
(* In particular the two merge patches of the finalizer, which apply to     *)
(* whatever has the name, and the revocation, which takes whatever the      *)
(* Secret holds, never move a later object backwards.                       *)
Implements == Life!Spec

-----------------------------------------------------------------------------
(* The inductive invariant behind FinalizerGuardsIssued and LiveNotRevoked. *)

Issuing ==
    pc \in {"findOwner", "setOwner", "bailOut", "getSecret", "shouldReissue",
            "bailOutAgain", "issue", "createSecret", "createStatus",
            "statusError", "renew", "updateSecret", "status"}

Finalizing == pc \in {"secretExists", "revoke", "removeFinalizer"}

(* Everything the worker may still read. *)
Views == crMissed \cup {crSeen}

(* y may be a later version than x: uids grow, an object once gone is gone, *)
(* and neither the finalizer nor the deletion mark of an object comes off.  *)
Evolves(x, y) ==
    /\ x.uid <= y.uid
    /\ (x.uid = y.uid /\ y.ex) => x.ex /\ (x.fin => y.fin) /\ (x.del => y.del)

History ==
    /\ \A v \in Views : v.rv <= cr.rv /\ Evolves(v, cr)
    /\ \A v \in crMissed : crSeen.rv <= v.rv
    /\ \A v, w \in Views : v.rv <= w.rv => Evolves(v, w)

(* v marks for deletion an object that is already gone. *)
Stale(v) == v.ex /\ v.del /\ ~(cr.ex /\ v.uid = cr.uid)

(* While such a version can still be read, it is what the worker reads: it  *)
(* cannot have begun to serve the next object of the name.                  *)
StaleViews ==
    \A v \in Views : Stale(v) =>
        /\ crSeen.ex /\ crSeen.del /\ crSeen.uid = v.uid
        /\ ~Issuing /\ pc # "addFinalizer"
        /\ ~cr.fin
        /\ cr.ex => ~IssuedFor(cr.uid)

(* A live version with the finalizer is of the object that is there now. *)
LiveViews ==
    \A v \in Views : (v.ex /\ v.fin /\ ~v.del) =>
        cr.ex /\ cr.fin /\ v.uid = cr.uid

(* What the worker knows in each half of Reconcile. *)
WorkerKnows ==
    /\ Issuing => cr.ex /\ cr.fin /\ mem.uid = cr.uid
    /\ Finalizing =>
           /\ mem.ex /\ mem.del
           /\ Evolves(mem, cr) /\ \A v \in Views : Evolves(mem, v)
           /\ Stale(mem) => ~cr.fin /\ (cr.ex => ~IssuedFor(cr.uid))

Serials == 1..Len(certs)

CertsKnown ==
    /\ \A i \in Serials : certs[i].for <= cr.uid
    /\ revoked \subseteq Serials
    /\ \A s \in secMissed \cup {sec, secSeen} : s.cert \in Serials \cup {NoCert, ForeignCert}

(* Inductive: Init implies it and every step of Next preserves it. *)
IInv ==
    /\ TypeOK
    /\ (cr.ex /\ cr.del) => cr.fin
    /\ ~cr.ex => ~cr.fin
    /\ History /\ StaleViews /\ LiveViews /\ WorkerKnows /\ CertsKnown
    /\ FinalizerGuardsIssued /\ LiveNotRevoked

-----------------------------------------------------------------------------
(* The inductive invariant behind RevokedBeforeGone and NoDuplicateIssuance.*)

(* The versions of the Secret to be delivered end with the stored one. *)
SecretHistory ==
    IF secMissed = {} THEN secSeen = sec
    ELSE /\ sec \in secMissed
         /\ \A s \in secMissed : s.rv < sec.rv \/ s = sec

(* What the worker found out about the Secret still holds when it acts on   *)
(* it, some calls later: others may delete the Secret, take tls.crt out of  *)
(* it or put their own in, but only the worker stores one of our CA's.      *)
SecretKnown ==
    /\ pc = "issue" => ~sec.ex
    /\ pc = "renew" \/ (pc = "bailOutAgain" /\ reissue) => ~GoodInSecret
    /\ pc = "removeFinalizer" /\ HoldsOurs => sec.cert \in revoked

(* With a cache that is current whenever it is read, nothing a pass of      *)
(* Reconcile learnt about the Secret is outdated by the time it matters.    *)
SecretInv == SecretHistory /\ (~CacheLags => SecretKnown)
=============================================================================
