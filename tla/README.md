# certman-operator: a TLA+ verification project

This directory models [certman-operator](../src), the operator that keeps Let's
Encrypt certificates for the OpenShift clusters of a Hive installation, checks
the models with TLC, and proves their safety properties for every instance with
TLAPS. Paths below are relative to `src/`.

## 1. The system

### 1.1 Parts, their state and their operations

| Part | Code | State it keeps | Operations |
|---|---|---|---|
| CertificateRequest controller | `controllers/certificaterequest/` | the CertificateRequest (finalizer, owner reference, status) and the Secret with the certificate, both on the API server | `Reconcile`, `createCertificateSecret`, `ShouldReissue`, `updateStatus`, `updateStatusError`, `finalizeCertificateRequest`, `RevokeCertificate` |
| ClusterDeployment controller | `controllers/clusterdeployment/` | the ClusterDeployment's finalizer, and which CertificateRequests exist with which names | `Reconcile`, `syncCertificateRequests`, `handleDelete` |
| Issuance | `issue_certificate.go`, `pkg/leclient/lets_encrypt.go` | an ACME order, its authorizations and challenges | `IssueCertificate`, `AnswerDNSChallenge`, cleaning up |
| DNS clients | `pkg/clients/{aws,gcp,azure}` | TXT records in the public zone of the cluster | `NewClient`, `ValidateDNSWriteAccess`, `AnswerDNSChallenge`, `DeleteAcmeChallengeResourceRecords` |
| ACME client | `pkg/leclient` | the account (URL and key) in the operator's Secret | `NewClient`, `UpdateAccount`, one method per ACME request |
| DNS propagation check | `cloudflare.go`, `constants.go` | loop counter, negative TTL | `VerifyDnsResourceRecordUpdate` |
| Metrics | `pkg/localmetrics` | process-wide counters and gauges | `CheckInitCounter`, increments and decrements |
| Start-up, API types, wrappers, helpers | `main.go`, `api/`, `pkg/acmeclient`, `controllers/utils` | none that outlives a call | - |

### 1.2 How they interact

The two controllers share no memory. They talk through the API server: the
ClusterDeployment controller creates, updates and deletes CertificateRequests;
the CertificateRequest controller guards them with a finalizer, issues, writes a
Secret and a status, and lets a deleted object go when its certificate has been
revoked. Both **read from an informer cache** (`mgr.GetClient()`), which lags
behind the server, and **write to the server**. A write is either an `Update`
(refused when the version read is out of date) or a merge `Patch` or a `Delete`
by name (neither carries a version or a UID, so each hits whatever object has
that name now). Hive installs, relocates and deletes ClusterDeployments; the
Kubernetes garbage collector removes what a gone owner leaves; users edit
objects; certificates age.

Inside the operator the work queue never hands the same key to two workers, but
up to ten workers (`MaxConcurrentReconciles`) reconcile different
CertificateRequests, and those of one cluster share one DNS zone. Every pass that
issues or revokes builds its clients anew, from Secrets, ConfigMaps and, in STS
mode, two assumed roles, and holds its worker while it does.

### 1.3 What is hard

- the cached object may belong to an earlier incarnation of the name, and the
  decision to finalize, revoke or issue is taken from it;
- every call of `Reconcile` is a sequence of remote calls that can fail or be cut
  off by a crash anywhere, and an issuance takes minutes;
- a Secret, a ClusterDeployment or an owner reference may vanish in the middle;
- the challenges and the cleaning of several workers meet in one zone;
- a refused role is tried a hundred times with a pause, and there are ten workers
  for all clusters;
- the propagation loop blocks a worker, and must neither wait too little (the
  resolver serves a cached negative answer) nor too long.

### 1.4 What makes each part correct

- CertificateRequest controller: whatever was issued is guarded by the finalizer
  until it is dealt with; no certificate in use is revoked; an object leaves with
  its certificate revoked; the CA is not asked twice for the same thing; a live
  request ends with a certificate for its current names; deletion terminates.
- ClusterDeployment controller: requests are created only for a cluster that is
  there and guarded; a deleted cluster leaves nothing behind that could still be
  removed; the requests end up being exactly the desired ones.
- Issuance and DNS: a published challenge stands until it has been read; what was
  published is removed; all workers get their certificates.
- Client building: a cluster that is in order is served whatever the others do,
  and a worker never enters a zone with other credentials than the cluster's.
- Propagation check: the bounds its comments promise.

`PROJECT.json` lists the hazards, each at its line, with the properties aimed at it.

## 2. Modules

| Module | Models | Size of the instance |
|---|---|---|
| `CertificateRequest` | one CertificateRequest name, its Secret, its worker, and everybody who touches them | 1-2 names |
| `CertificateRequest_proofs` | theorems about it, with any lag of the cache | every instance |
| `CertificateRequest_current_proofs` | theorems about it that need a current cache | every instance with `~CacheLags` |
| `CRLifecycle` | what that controller promises: the life of a name's successive objects and their certificates | - |
| `CRLifecycle_proofs` | `CertificateRequest` implements `CRLifecycle` | every instance |
| `ClusterDeployment` (`MCClusterDeployment`) | one ClusterDeployment, the CertificateRequests of its namespace, its worker | 1-2 bundles, 1-3 domains |
| `ClusterDeployment_proofs` | theorems about it | every instance |
| `AcmeOrder` (`MCAcmeOrder`) | several workers that obtain certificates in one zone | 2 workers, 3 names, 3 clouds |
| `AcmeOrder_proofs` | theorems about it | every instance whose requests share no record |
| `ClientPool` (`MCClientPool`) | the workers, their queue, and the building of clients | 2 workers, 3 clusters |
| `ClientPool_proofs` | theorems about it | every instance |
| `VerifyDns` | the propagation loop with its real constants | exact |
| `VerifyDns_proofs` | theorems about it | any constants |

### 2.1 CertificateRequest

`cr` and `sec` are the objects on the server (absence is an object with
`ex = FALSE`, which keeps the last uid and resourceVersion); `crSeen`/`secSeen`
are the cached versions, `crMissed`/`secMissed` the versions not delivered yet.
`certs` is everything the CA ever issued (a serial number is an index; `for`
remembers the uid it was issued for), `revoked` and `due` are what became of it.
`pc`, `mem`, `found` and `reissue` are the worker's program counter and locals.

There is one action per API call of `Reconcile`, so that everybody else
interleaves between any two calls:

| Actions | Code |
|---|---|
| `StartReconcile`, `AddFinalizer` | `certificaterequest_controller.go` 106-150 |
| `FindOwner`, `SetOwner` | owner references restored, 152-205 |
| `BailOut`, `BailOutAgain` | the two relocation checks |
| `GetSecret`, `ShouldReissue` | look-up of the Secret, `renew_certificate.go` |
| `IssueCertificate`, `IssueFails`, `UpdateStatusError` | issuance as one step with every outcome, also "issued, but never fetched" |
| `CreateSecret`, `UpdateSecret`, `UpdateStatus` | storing it and reporting it |
| `SecretExists`, `RevokeCertificate`, `RemoveFinalizer` | `finalizeCertificateRequest` |
| `ApiError`, `Crash` | a failed call, a lost answer, a restart with fresh caches |
| `SyncCR`, `SyncSecret`, `Resync`, `CollectSecret` | informers, resync, garbage collector |
| `DeleteCR`, `RecreateCR`, `EditSpec`, `DropOwner`, `DropSecret`, `EmptySecret`, `ReplaceCert`, `Relocate`, `LoseCD`, `Age` | the environment |

`Client.Update` with a changed status has no effect, because status is a
subresource of the CRD; `Status().Update` works on the version read. `CacheLags`
selects between a cache arbitrarily far behind and one that is current whenever
the worker reads. `ClientNeedsCD` is TRUE on AWS, whose client reads the
ClusterDeployment. `RevokeCertificate` refuses a certificate whose issuer is not
one of the two names it knows (`IsCertificateIssuerLE`): that of the CA unless
`IssuerKnown`, and always the one of another CA that a user may store in the
Secret (`ForeignCert`, `ReplaceCert`). `ForeignCDs` says whether the list over all namespaces has
other entries. Of the environment's objects, the ClusterDeployment is read
without lag here: the properties do not depend on it, and the lag of its deletion
is that of `LoseCD` happening later.

**The abstract specification.** `CRLifecycle` has four variables: the incarnation,
the stage of its life (absent, new, guarded, deleting), the owner of each
certificate issued, and the certificates revoked. `Implements` is
`Life!Spec` under the refinement mapping of `CertificateRequest`: `LifeStage` is
read off the stored object (`ex`, `del`, `fin`), `Owners` off `certs`. It says in
one formula that a guarded object can only leave through deletion and finalizing,
that certificates are issued for guarded objects only, that none is revoked whose
object is still wanted, and that each re-creation is a new incarnation; caches,
the worker, the Secret and the environment's other edits are invisible there.
`Next` of `CRLifecycle` is what the ClusterDeployment controller relies on, and
`GuardCR`, `IssueCR`, `FinalizeCR` in the next module are its `Guard`, `Issue` and
`Finalize`.

### 2.2 ClusterDeployment

The same scheme with several CertificateRequests: `List`, `Sync` (visit one
desired request), `Create`, `Update`, `Prune` are `syncCertificateRequests`;
`ListAll`, `DeleteAll`, `RemoveFinalizer` are the deletion. `GuardCR`, `IssueCR`
and `FinalizeCR` are the other controller as seen from here. `Skipped` keeps the
order of the code: the early returns come before the deletion check. `Blocked` is
the reason for which the other controller cannot finalize: on AWS
(`ClientNeedsCD`) a certificate cannot be revoked once the ClusterDeployment is
gone.

`generate` is the set of bundles to be generated, and `serving` says which place
of the spec (the default serving certificate, an additional one, an ingress)
names which bundle. `getDomainsForCertBundle` collects the names: the default
place brings the name of `EXTRA_RECORD` with it, and an ingress domain becomes a
wildcard. A bundle nobody names, or that is not to be generated, has no request.

### 2.3 AcmeOrder

`zone` is the TXT records of the cluster's public zone; each worker goes through
test record, order, authorizations (publish, verify, challenge), finalizing and
cleaning; `RevokeCertificate` is the second cleaning, that of a request being
finalized. `platform` is the cloud. Two lists are not read to their end:
`onFirstPage` says whether the zone is on the first page of zones, which is all that the
cleaning of Route 53 and every search of Cloud DNS (`getManagedZone`) look at, and
`firstPage` which records `upsertDnsRecord` sees of the zone on Cloud DNS
(`ListPage`); the cleaning there turns the pages (`ListZone`). `BaseName` makes a name and its wildcard share one record, as
`_acme-challenge.` names do. `Accepts` is Cloud DNS's rule that a change must
match what the zone holds; `Targets` is what a cleaning deletes. The module
`CertificateRequest` replaces all of this by one action with every outcome.

### 2.4 VerifyDns

The loop of `VerifyDnsResourceRecordUpdate` with a clock, which runs in the sleeps
and in the HTTP requests: an attempt asks one endpoint and, when that fails, a
second one, and each request ends after `RequestTimeout` at the latest. The
resolver may serve the negative answer it cached with what is left of its TTL; the
record may propagate at any moment. A negative answer is what the code takes for
one, NXDOMAIN with a SOA; that resolvers keep an answer without records too is left
out (section 6).

### 2.5 ClientPool

A pass is a sequence of calls, `CallsOf[kind][fedramp]`: the two reads of the ACME
account, then those of the DNS client, which depend on the cloud and, on AWS, on
FedRAMP, STS mode and whether the request names a Secret; then the rest of the
issuance as one step, which fails where `FindZoneIDForChallenge` does: on Azure,
and on Cloud DNS in FedRAMP (`ZoneFound`). `Needs` is the object or role trust a call depends on,
`usable` what of it is in order, `creds` what the next session is opened with.
`AssumeRole` and `Retry` are `getSTSCredentials`: the worker stays where it is
until the role is granted or `Retries` tries are used up. A failed pass puts its
key aside until its back-off is over (`delayed`, `Requeue`); `queue` is first in,
first out. The environment breaks and repairs any of the things needed, replaces
the account between the two reads, and makes certificates due.

## 3. Runs

Every run takes less than four minutes with two workers.

| Run | Checks | Shows |
|---|---|---|
| `cr_lag` | `TypeOK`, `FinalizerGuardsIssued`, `LiveNotRevoked`, `DeletionCompletes`, `Implements` | the safety properties, the abstract life cycle and termination of deletion with a lagging cache, a fault, deletions, re-creations, and Secrets that lose their certificate or get one of another CA: only these keep a finalizer for ever (with a client that does not need the ClusterDeployment). 655,000 states |
| `cr_current` | `IInv`, `SecretInv`, `RevokedBeforeGone`, `NoDuplicateIssuance`, `Converges` | with a current cache and everything the environment can do: revocation comes before the object goes, nothing good is issued twice, a live request settles; and the inductive invariants of the proofs hold. 333,000 states |
| `cd_lag` | `TypeOK`, `FinalizerInv`, `CreatesUnderFinalizer`, `DeletionCompletes`, `Converges`, `OnlyBlockedLeft` | the ClusterDeployment controller on AWS under lag, one fault, deletion, re-creation, and a managed label taken off and perhaps put back; of the requests of a gone ClusterDeployment only those remain that cannot be finalized without it. 401,000 states |
| `cd_current` | `CleanUpInv`, `CleanedUpFirst`, `Converges` | two bundles, and three places that name one of them or none: the finalizer goes only after all deletions were requested, and each request follows its bundle. 632,000 states |
| `dns_verify` | `TypeOK`, `LoopInvariant`, `HonoursNegativeCache`, `BlockedInBounds` | the propagation loop with the constants of the code and requests that take no time, one timeout or two. 225,000 states |
| `acme_shared_zone` | `TypeOK`, `OrdersOK`, `RecordStandsOnRoute53`, `CleanedUp`, `Issues` | on all clouds, revocations included. Route 53: challenges stand. Cloud DNS: both workers finish although they disturb each other, unless a record stays beyond the first page. Both: a cleaning that reports success left nothing, on Route 53 as long as no call failed and the zone is on the first page. 106,000 states |
| `client_pool` | `TypeOK`, `OwnCredentials`, `Served` | two clusters whose role may be refused for ever, two workers, and a third cluster of any kind, also one whose zone is never found: whoever is in order in the end and has a zone gets a certificate, with the right credentials, also across a half-read account, a passing failure and a restart. 223,000 states |
| `cr_relocation`, `cr_stale_secret`, `cr_aws_cd_gone`, `cd_revoked_first`, `acme_gcp_foreign` | one property each, violated | section 6 |

`IInv`, `SecretInv`, `FinalizerInv`, `CleanUpInv`, `LoopInvariant` and `OrdersOK`
are the inductive invariants of section 4: the runs check them on
their instances, and with them that the proofs are about reachable states.

**Bounds.** Two edits and one fault are enough for the histories that matter: the
longest is delete, finalize, re-create, with a crash or a lost answer in between
and any number of cache deliveries, resyncs and collections, which are not
bounded. With a lagging cache one name suffices, since the properties checked there
are about which object a version belongs to; the runs about the *content* of the
certificate (`cr_current`) have two names so that a spec can outgrow a
certificate. `MaxCerts` is the CA's rate limit. In `cr_lag`, which leaves the loss of the Secret and of the ClusterDeployment to
`cr_current` for the size of the run, it is 2, which the run reaches; in `cr_current` it is 6, more than two edits and a fault can
consume, so that `Converges` is not refuted by the limit itself. `cd_lag` has one bundle with one name, two edits and a fault (delete,
re-create; drop a bundle, want it again; take the label off and delete; putting
it back is not counted). `cd_current` has two bundles and one place of each
kind, in every combination, one edit and a fault: a pass can succeed for one
bundle and fail for the other, and a domain can move between them. `AcmeOrder` has the smallest instance with
both kinds of sharing: a name with its wildcard, and a second worker; two faults
let each worker leave a record behind; the record of the shared challenges, or the
test record, or neither is beyond the first page. `ClientPool` has as many clusters in STS
mode as workers, so that refusals hold all of them, and one more that has to
wait; two tries stand for a hundred: a try is the last or it is not. One edit and one fault
let a thing break or be repaired in the middle of a pass, once, and a call fail. The TTLs of `VerifyDns` are the values
around `WaitTime` and `MaxNegativeTTL` (the code adds five seconds). Runs do not check
deadlock because each system legitimately comes to rest once the object is gone.

**Fairness.** Weak fairness of a controller's worker: its goroutine keeps
running, and a failed key is re-queued with back-off. Weak fairness of the
informers (watch events arrive eventually), of the periodic resync, of the
garbage collector; in `ClientPool`, of each worker and of each key's back-off
(whose length is bounded in controller-runtime); and, in `ClusterDeployment`, of the
installation, of Hive's own finalizer, and of the other controller where it puts its
finalizer on and where it can finalize (`~Blocked`). That a certificate is issued
is not assumed there. `CertificateRequest` has one strong
fairness condition, `SF_vars(FindOwner /\ pc' = "setOwner")`: the list over all
namespaces comes out of the cache in the random order of a Go map, so the
ClusterDeployment of this namespace is not passed over for ever. Faults and edits
are never fair; that there are only finitely many is a bound.

**Mutants.** Each property of a passing run has a mutant of the code (definitions
whose comment begins with "Mutant:"), a plausible mistake that the property
catches: a forgotten finalizer, a swallowed error, a missing update, records
matched by the wrong name, a sleep that ignores the TTL, the session of one role
used for another.

## 4. Proofs

Every safety property that a passing run checks is also a theorem, proved for
every value of the constants that the `ConstantsAssumption` of its module admits.
Three of the theorems about objects read through the cache have the hypothesis
`~CacheLags`, and the two about the shared zone the hypothesis `NamesDisjoint`,
because without it they are false; each is said below.

### 4.1 CertificateRequest, with any lag

`CertificateRequest_proofs` proves, for every set of names, every `EnvOps`,
every bound and both settings of `CacheLags`, `ClientNeedsCD` and `ForeignCDs`
(that is, from `ConstantsAssumption` alone):

| Theorem | Statement |
|---|---|
| `TypeCorrect` | `Spec => []TypeOK` |
| `Inductive` | `Spec => []IInv` |
| `FinalizerGuards` | `Spec => []FinalizerGuardsIssued` |
| `LiveCertificatesStand` | `Spec => []LiveNotRevoked` |

Neither safety property is inductive. The danger is a *stale* version: the cache
may still show a deleted incarnation while a new object of that name exists, and
the finalizing half of `Reconcile` then patches and revokes by name. It is
harmless because of an ordering argument, which is what `IInv` records:

- `History`: the versions that can still be read are ordered by resourceVersion,
  and along that order uids grow, an object once gone stays gone, and neither
  finalizer nor deletion mark comes off (`Evolves`);
- `StaleViews`: while a version that marks a gone object for deletion can still be
  read, it is what the cache shows, hence the worker has not begun to serve the new
  object: the new one has no finalizer and no certificate;
- `LiveViews`: a version that is live and guarded is of the object that exists now
  and still guards it;
- `WorkerKnows`: in the serving half the object exists, is guarded and is the one
  the worker read; in the finalizing half what the worker read is marked for
  deletion and precedes the stored object, and if that is a different object it
  is unguarded and nothing has been issued for it;
- `CertsKnown`: certificates belong to objects that have existed, and what is
  revoked or stored in a Secret has been issued.

Most actions leave alone everything these conjuncts look at (`QuietStep`); the
ones that do not have a lemma each: `StartStep`, `AddFinalizerStep`, `IssueStep`,
`RevokeStep`, `RemoveFinalizerStep`, `SyncStep`, `CrashStep`, `DeleteStep`,
`RecreateStep`. `cr_current` checks `IInv` with TLC, and `cr_lag` the two
properties it is for.

`CRLifecycle_proofs` proves `Refinement`, that is `Spec => Implements`, from the
same assumption. The initial state maps to the initial state (`LifeInit`), and
each step to a step of the life cycle or a stutter (`LifeStep`), with a lemma for
each group of actions: `LifeReads` and `LifeWrites` for what is invisible,
`LifeGuard`, `LifeIssue`, `LifeRevoke`, `LifeFinalize`, `LifeDelete` and
`LifeCreate` for what is not. `IInv` is needed at three of them: the worker issues
for the object that exists (`WorkerKnows`), it removes a finalizer only from an
object marked for deletion or finds none to remove, and what it revokes is not
wanted, for which `LifeRevoke` uses the invariant *after* the step.

### 4.2 CertificateRequest, with a current cache

`CertificateRequest_current_proofs`:

| Theorem | Statement |
|---|---|
| `SecretInductive` | `Spec => []SecretInv` |
| `RevokedFirst` | `~CacheLags => (Spec => RevokedBeforeGone)` |
| `NoDuplicates` | `~CacheLags => (Spec => NoDuplicateIssuance)` |

`~CacheLags` says that the cache is current at the moments the worker reads it; at
all others it may be behind, and between its read of the Secret and the act that
depends on it anybody may change the objects. The hypothesis is needed:
`cr_stale_secret` refutes `RevokedBeforeGone` without it. `SecretInv` has two
parts. `SecretHistory`: the undelivered versions of the Secret end with the stored
one, so that a cache with nothing left to deliver shows what is stored.
`SecretKnown`: what a pass found (no Secret; a certificate to be replaced; one now
revoked) still holds at the step that acts on it, because others delete the Secret
or take its certificate out and never put one in. `Disappears` and `Issues` say
which actions can make the object go and a certificate appear.

### 4.3 ClusterDeployment

`ClusterDeployment_proofs`, for any bundles, names (also colliding ones) and uses:

| Theorem | Statement |
|---|---|
| `TypeCorrect` | `Spec => []TypeOK` |
| `FinalizerInductive` | `Spec => []FinalizerInv` |
| `CreatedUnderFinalizer` | `Spec => CreatesUnderFinalizer` |
| `CleanUpInductive` | `Spec => []CleanUpInv` |
| `CleansUpFirst` | `~CacheLags => (Spec => CleanedUpFirst)` |

`FinalizerInv` is the ordering argument of 4.1 for an object that outlives its
finalizer: Hive has one of its own, so a ClusterDeployment without certman's may
still be there, marked, for a while. A version is therefore stale (`Stale`) when it
asks for a clean-up that is *over*, not only when its object is gone; while such a
version can be read the worker has not put the finalizer on anything. It follows
that in the serving half (`Serving`) the ClusterDeployment that is there is the one
the worker read and carries the finalizer, whatever the lag, which is
`CreatesUnderFinalizer`: of all actions only `Create` makes a CertificateRequest
appear (`OnlyCreateCreates`). `CleanUpInv` is to `handleDelete` what `SecretInv` is
to the finalizing of a request: the list is complete when it is made, and what is
not in it any more is gone or marked, because nobody else creates.

### 4.4 AcmeOrder

| Theorem of `AcmeOrder_proofs` | Statement |
|---|---|
| `TypeCorrect` | `Spec => []TypeOK` |
| `OrdersInductive` | `Spec => []OrdersOK` |
| `AnswersStand` | `NamesDisjoint => (Spec => []RecordStandsOnRoute53)` |
| `CleaningCleans` | `NamesDisjoint => (Spec => []CleanedUp)` |

`NamesDisjoint`: the requests being served have no challenge record in common (a
name and its wildcard in *one* request do share theirs, and the proof covers it).
Two requests that ask for the same name would overwrite each other's challenge.
`OrdersOK` says, for each worker, that it has at most one name of its own in hand
(`HandOK`); that on Route 53 the record it published stands (`StandsOK`); that what
its cleaning listed is as it was, or gone (`ListedOK`, on Cloud DNS another worker
may have deleted it); that a cleaning on Route 53 still has before it whatever is
left (`LeftOK`); and that after a successful one nothing is (`DoneOK`). The
assumption on the constants is that the record of the access test is not the
challenge record of any name: the code gives it another prefix.

### 4.5 ClientPool

| Theorem of `ClientPool_proofs` | Statement |
|---|---|
| `TypeCorrect` | `Spec => []TypeOK` |
| `OwnCredentialsOnly` | `Spec => []OwnCredentials` |

For any number of workers and clusters, any kinds of them and any bound on the
tries. The inductive invariant, `PoolInvariant` of the proof module, adds to the types
that the credentials in force are a function of the calls the pass has made
(`CredentialsAfter`), and that an idle worker has none left over. The rest
is a case analysis over the kinds of cluster: after the calls before `issue` that
function gives the cluster's own (`Rightful`).

### 4.6 VerifyDns

| Theorem of `VerifyDns_proofs` | Statement |
|---|---|
| `LoopInductive` | `Spec => []LoopInvariant` |
| `TypeCorrect` | `Spec => []TypeOK` |
| `NegativeCacheHonoured` | `Spec => []HonoursNegativeCache` |
| `WorkerHeldInBounds` | `Spec => []BlockedInBounds` |

For any `MaxAttempts` of at least two, any TTLs, any timeout and times within it, and
`WaitTime <= MaxNegativeTTL` (30 and 600 in `constants.go`). `BlockedInBounds` counts
the sleeps and the HTTP requests: the default wait and one query with both timeouts,
and for each further attempt a `Round`, the longest sleep and another such query.
`LoopInvariant` adds what holds before a sleep (the resolver forgets its answer
within the TTL it gave, and the time passed is that of the attempts made) and before
a query (one query less). The products of attempts and `Round` have lemmas of their
own (`OneMoreAttempt`, `FewerAttempts`), since the solver does not get on with them
among other facts.

### 4.7 Only model-checked

The liveness properties (`DeletionCompletes`, `Converges` of both controllers,
`OnlyBlockedLeft`, `Issues`, `Served`): the prover does not handle fairness and
`ENABLED`. And the properties of the runs that expect a violation, which are false.

## 5. Not modelled

- Metrics: nothing in the program reads them, and the counter of requests has no
  property that holds (increment before the patch, decrement without one, an
  initialization that a failed List makes final). Start-up, generated code, mocks
  and tests.
- The contents of keys, CSRs, PEM and DNS messages; well-formed chains are assumed.
- Answering challenges and cleaning on Azure: that code cannot be reached, since
  the zone look-up fails first. In FedRAMP, the hosted zone given by an environment
  variable, which replaces the search for it.
- The choice among several hosted zones of one name; the order of names within a
  request, which are sets here; its e-mail address and URLs.
- In `CertificateRequest` the building of clients is the condition `ClientBuilds`,
  and in `ClientPool` the passes that revoke are left out: they build the same two
  clients in the other order.
- A request that has owners but none of kind ClusterDeployment: its cluster is looked
  up like that of one without owners, but the owner reference is not added
  (`certificaterequest_controller.go:157`, `:185`). Nothing in the system makes one.
- A second operator instance: leader election leaves one.

## 6. Deviations observed

With a run that shows them:

| Run | Code | Says otherwise |
|---|---|---|
| `cr_relocation` | the relocation status is written with `Update`, which ignores a status subresource (`certificaterequest_controller.go:218`, `:265`) | the controller's test, `certificaterequest_controller_test.go:113` |
| `cr_stale_secret` | a Secret the cache has not seen counts as nothing to revoke (`certificaterequest_controller.go:404-411`) | `README.md:82` |
| `cr_aws_cd_gone` | on AWS a request whose ClusterDeployment is gone is never finalized (`pkg/clients/aws/route53.go:409`) | `certificaterequest_controller.go:209`, `:326-327` |
| `cd_revoked_first` | the ClusterDeployment's finalizer comes off when the Delete calls were accepted (`clusterdeployment_controller.go:142`) | `README.md:82` |
| `acme_gcp_foreign` | on Cloud DNS the cleaning deletes every challenge record of the zone (`pkg/clients/gcp/dns.go:140`) | `issue_certificate.go:215-216` |

Seen while reading, part of the models as they are or outside them, without a run:

- Only the certificate in the Secret is revoked; the one it superseded in a
  renewal, and one issued but never stored, stay valid (`README.md:82`: "all valid
  certificates").
- A relocation annotation without a slash makes the operator panic
  (`certificaterequest_controller.go:436`).
- `NoDuplicateIssuance` holds with a current cache only: a look-up before the cache has the new Secret
  issues again (`certificaterequest_controller.go:235-241`).
- A Secret without `tls.crt` blocks finalizing for ever (`revoke_certificate.go:45`),
  and so does one whose certificate has an issuer other than the organization "Let's
  Encrypt" or "Fake LE Intermediate X1" (`:51`, `:58-60`, `pkg/leclient/utils.go:42-56`):
  a user's own, or one of the present staging CA, whose organization is "(STAGING)
  Let's Encrypt". `DeletionCompletes` says that nothing else in the Secret does.
- The list that restores an owner reference has no namespace
  (`certificaterequest_controller.go:161`).
- `handleDelete` deletes what the cache lists, so `CleanedUpFirst` needs a current
  cache (`clusterdeployment_delete.go:32`); the garbage collector makes up for it
  (`OnlyBlockedLeft`).
- A ClusterDeployment that loses its managed label, or relocates, while it
  carries the finalizer cannot be deleted until that is undone: the skips come
  before the deletion check (`clusterdeployment_controller.go:101-127`).
  `DeletionCompletes` is about clusters that are not skipped.
- The ClusterDeployment status is compared with a copy of itself, so the patch is
  never sent (`clusterdeployment_controller.go:292-300`).
- Lower-casing can make the names of two bundles collide
  (`clusterdeployment_controller.go:375-376`); `CRName` is injective in the runs.
- The propagation loop asks nine times, not ten (`cloudflare.go:60`,
  `constants.go:26`; `README.md:74` says five), and may hold its worker for
  30 + 120 + 8 * 720 = 5910 seconds (`BlockedInBounds`), where `constants.go:26` says
  "5 minutes total": that is what the default waits alone add up to.
- An answer without records (NOERROR) is not a negative cache result to the loop
  (`cloudflare.go:94`, `:104`), although resolvers cache it, and although it is the
  usual answer below a `*.apps` wildcard record: the loop waits 30 seconds then.
- On Cloud DNS `getManagedZone` and the list of `upsertDnsRecord` read one page
  (`pkg/clients/gcp/dns.go:189`, `:221`). A zone beyond it is not found, and nothing is
  issued. A record beyond it is not replaced but added again, which Cloud DNS refuses:
  one left by a failed attempt, or the one of a name when its wildcard comes next,
  blocks the request, because the cleaning, which does turn the pages (`:139`), comes
  after the issuance. `Issues` names that as the only exception.
- `README.md:52-54` says that the reconcile loop is left when the "managed cluster"
  label is found; it is left when that label is missing or not "true"
  (`clusterdeployment_controller.go:101-106`).
- Route 53 cleaning looks at the first page of zones only and reports an error as
  success (`pkg/clients/aws/route53.go:258`, `:331-333`); `CleanedUp` excepts
  exactly these two cases.
- `aws.NewClient` says that "if secrets fail to return, the IAM role of the masters
  is used" (`pkg/clients/aws/route53.go:348`); the error is returned, and the role
  of the masters is used only when the request names no Secret (`:547`, `:555`).
- An AccountClaim without a role is refused at once in manual STS mode only
  (`pkg/clients/aws/route53.go:508`); otherwise an empty role is tried a hundred
  times.
- A certificate is revoked with the ACME account of the day, not the one that
  ordered it (`revoke_certificate.go:39`, `:52`); if the account was replaced the
  CA may refuse, and the request is then never finalized.
- On Azure no certificate is ever issued: `FindZoneIDForChallenge` knows the zones
  of AWS and GCP only (`issue_certificate.go:258`); in FedRAMP none on GCP either
  (`pkg/clients/gcp/dns.go:50-52`, `pkg/clients/azure/dns.go:88-90`).
- `CheckInitCounter` is not retried after an error, although its comment says so
  (`pkg/localmetrics/localmetrics.go:117-138`).

## 7. Plan

Done, in this order: CertificateRequest, its proofs, ClusterDeployment, VerifyDns,
AcmeOrder, CRLifecycle with the refinement and its proof, ClientPool, and the
proofs of the safety properties of all of them (section 4). What of the system can
be modelled faithfully and has a property worth checking is there. Left are
results that would say more than the present ones:

1. What of `RevokedBeforeGone` and `CleanedUpFirst` survives a lagging cache, as
   statements about the versions the worker had read, with their proofs.
2. Step properties behind the liveness ones: that the measure `Converges` and
   `DeletionCompletes` argue by never grows except by a fault or an edit.
