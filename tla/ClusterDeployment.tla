-------------------------- MODULE ClusterDeployment --------------------------
(***************************************************************************)
(* The ClusterDeployment controller (controllers/clusterdeployment): one   *)
(* ClusterDeployment, the CertificateRequests of its namespace, and the    *)
(* worker that keeps the latter in step with the former.                   *)
(*                                                                         *)
(* The worker creates, updates and deletes CertificateRequests; the other  *)
(* controller puts its own finalizer on them, reports issuance in their    *)
(* status, and lets a deleted one go once its certificate is revoked.  That*)
(* controller appears here only as the three things it does to the objects *)
(* (module CertificateRequest has the detail).  Reads come from a cache    *)
(* that lags, as there; both controllers share it.                         *)
(***************************************************************************)
EXTENDS Integers, FiniteSets

CONSTANTS
    Bundles,    \* names of certificate bundles
    CRName,     \* bundle -> lower-cased name of its CertificateRequest
    Uses,       \* where the spec names a bundle: the default serving certificate,
                \* the additional ones and the ingress list, with their domains
    ExtraNames, \* the name EXTRA_RECORD adds, if that is set
    CacheLags,  \* may the cache be behind the API server?
    ClientNeedsCD, \* revoking a certificate reads the ClusterDeployment (AWS)
    EnvOps,     \* what the environment may do, a subset of AllEnvOps
    MaxEdits,   \* bound on environment edits
    MaxFaults   \* bound on API errors and crashes

AllEnvOps == {"bundles", "serving", "delete", "recreate", "relocate", "manage", "deleteCR"}

Names == {CRName[b] : b \in Bundles}

ASSUME ConstantsAssumption ==
    /\ DOMAIN CRName = Bundles
    /\ \A u \in Uses : /\ u.part \in {"default", "additional", "ingress"}
                      /\ u.domain.wild \in BOOLEAN
    /\ CacheLags \in BOOLEAN
    /\ ClientNeedsCD \in BOOLEAN
    /\ EnvOps \subseteq AllEnvOps
    /\ MaxEdits \in Nat
    /\ MaxFaults \in Nat

VARIABLES
    cd,         \* the ClusterDeployment on the API server
    cdSeen,     \* the cached ClusterDeployment
    cdMissed,   \* its undelivered versions
    crs,        \* the CertificateRequests, by name
    crsSeen,    \* the cached ones
    crsMissed,  \* their undelivered versions
    queued,     \* is the key in the work queue?
    pc,         \* the call the worker makes next
    mem,        \* the worker's `cd`
    listed,     \* names that getCurrentCertificateRequests returned
    todo,       \* bundles (sync) still to visit
    bundle,     \* the bundle being created or updated, as a set
    current,    \* the worker's `currentCR`
    errs,       \* has a create or an update failed?
    edits, faults

cdObj  == <<cd, cdMissed>>
crObjs == <<crs, crsMissed>>
seen   == <<cdSeen, crsSeen>>
locals == <<mem, listed, todo, bundle, current, errs>>
worker == <<queued, pc, locals>>
budget == <<edits, faults>>
vars   == <<cdObj, crObjs, seen, worker, budget>>

-----------------------------------------------------------------------------
(* Objects.  `managed` stands for the managed label without the fake        *)
(* annotation; `generate` for the bundles that are there and to be          *)
(* generated; <<u, b>> \in serving if the spec names bundle b in place u;    *)
(* a request is `issued` when there is a Secret with its certificate.       *)

(* "always request wildcard certificates for the ingress domain" *)
Wildcard(domain) == [domain EXCEPT !.wild = TRUE]

NamesOf(u) ==
    CASE u.part = "default"    -> {u.domain} \cup ExtraNames
      [] u.part = "additional" -> {u.domain}
      [] u.part = "ingress"    -> {Wildcard(u.domain)}

Domains == UNION {NamesOf(u) : u \in Uses}

getDomainsForCertBundle(c, b) ==
    UNION {NamesOf(u) : u \in {v \in Uses : <<v, b>> \in c.serving}}

CD == [ex: BOOLEAN, uid: Nat, rv: Nat, del: BOOLEAN, fin: BOOLEAN,
       managed: BOOLEAN, installed: BOOLEAN, relocating: BOOLEAN,
       generate: SUBSET Bundles, serving: SUBSET (Uses \X Bundles)]

CR == [ex: BOOLEAN, uid: Nat, rv: Nat, owner: Nat, del: BOOLEAN, fin: BOOLEAN,
       names: SUBSET Domains, issued: BOOLEAN]

PC == {"idle", "addFinalizer", "list", "sync", "create", "update", "prune",
       "listAll", "deleteAll", "removeFinalizer"}

GoneCD(uid, rv) ==
    [ex |-> FALSE, uid |-> uid, rv |-> rv, del |-> FALSE, fin |-> FALSE,
     managed |-> FALSE, installed |-> FALSE, relocating |-> FALSE,
     generate |-> {}, serving |-> {}]

(* A new ClusterDeployment, each place naming one of the bundles. *)
NewCD(uid, rv, bs, named) ==
    [GoneCD(uid, rv) EXCEPT !.ex = TRUE, !.managed = TRUE, !.generate = bs,
                            !.serving = {<<u, named[u]>> : u \in Uses}]

NewCDs(uid, rv) ==
    {NewCD(uid, rv, bs, named) : bs \in SUBSET Bundles, named \in [Uses -> Bundles]}

GoneCR(c) ==
    [ex |-> FALSE, uid |-> c.uid, rv |-> c.rv, owner |-> 0, del |-> FALSE,
     fin |-> FALSE, names |-> {}, issued |-> FALSE]

(* Mutant: SetControllerReference is forgotten. *)
NewCRWithoutOwner(c, owner, names) ==
    [GoneCR(c) EXCEPT !.ex = TRUE, !.uid = c.uid + 1, !.names = names]

NewCR(c, owner, names) ==
    [GoneCR(c) EXCEPT !.ex = TRUE, !.uid = c.uid + 1, !.owner = owner,
                      !.names = names]

NoCR == GoneCR([uid |-> 0, rv |-> 0])

(* The server stores a new version; a write that changes nothing makes none. *)
StoreCD(c) ==
    IF c = cd
    THEN UNCHANGED cdObj
    ELSE /\ cd' = [c EXCEPT !.rv = cd.rv + 1]
         /\ cdMissed' = cdMissed \cup {cd'}

StoreCR(n, c) ==
    IF c = crs[n]
    THEN UNCHANGED crObjs
    ELSE LET new == [c EXCEPT !.rv = crs[n].rv + 1]
         IN  /\ crs' = [crs EXCEPT ![n] = new]
             /\ crsMissed' = [crsMissed EXCEPT ![n] = @ \cup {new}]

(* A Delete call: the object goes, or waits for its finalizer. *)
Deleted(c) == IF c.fin THEN [c EXCEPT !.del = TRUE] ELSE GoneCR(c)

(* A step that reads the cache; without lag every event was delivered. *)
CacheRead ==
    CacheLags \/ (cdMissed = {} /\ \A n \in Names : crsMissed[n] = {})

Init ==
    /\ cd \in NewCDs(1, 1)
    /\ cdSeen = GoneCD(0, 0) /\ cdMissed = {cd}
    /\ crs = [n \in Names |-> NoCR] /\ crsSeen = crs
    /\ crsMissed = [n \in Names |-> {}]
    /\ queued = FALSE /\ pc = "idle"
    /\ mem = GoneCD(0, 0) /\ listed = {} /\ todo = {} /\ bundle = {}
    /\ current = NoCR /\ errs = FALSE
    /\ edits = 0 /\ faults = 0

-----------------------------------------------------------------------------
(* How a call of Reconcile moves on or ends. *)

Step(p) == pc' = p /\ UNCHANGED queued

Return ==
    /\ pc' = "idle" /\ mem' = GoneCD(0, 0) /\ current' = NoCR
    /\ listed' = {} /\ todo' = {} /\ bundle' = {} /\ errs' = FALSE

Finish == Return /\ UNCHANGED queued
Fail   == Return /\ queued' = TRUE

FinishOrFail(ok) == IF ok THEN Finish ELSE Fail

Fault == faults < MaxFaults /\ faults' = faults + 1 /\ UNCHANGED edits

-----------------------------------------------------------------------------
(* Reconcile: the early returns come before the deletion check. *)

Skipped(c) == ~c.ex \/ ~c.managed \/ ~c.installed \/ c.relocating

(* Mutant: the finalizer is not added. *)
FirstCallWithoutFinalizer(c) ==
    CASE Skipped(c)                      -> "idle"
      [] ~Skipped(c) /\ c.del /\ c.fin   -> "listAll"
      [] ~Skipped(c) /\ c.del /\ ~c.fin  -> "idle"
      [] ~Skipped(c) /\ ~c.del           -> "list"

(* Mutant: the deletion timestamp is not looked at. *)
FirstCallIgnoringDeletion(c) ==
    CASE Skipped(c)            -> "idle"
      [] ~Skipped(c) /\ ~c.fin -> "addFinalizer"
      [] ~Skipped(c) /\ c.fin  -> "list"

FirstCall(c) ==
    CASE Skipped(c)                      -> "idle"
      [] ~Skipped(c) /\ c.del /\ c.fin   -> "listAll"
      [] ~Skipped(c) /\ c.del /\ ~c.fin  -> "idle"
      [] ~Skipped(c) /\ ~c.del /\ ~c.fin -> "addFinalizer"
      [] ~Skipped(c) /\ ~c.del /\ c.fin  -> "list"

StartReconcile ==
    /\ pc = "idle" /\ queued /\ CacheRead
    /\ queued' = FALSE
    /\ pc' = FirstCall(cdSeen)
    /\ mem' = IF pc' = "idle" THEN mem ELSE cdSeen
    /\ UNCHANGED <<cdObj, crObjs, seen, listed, todo, bundle, current, errs, budget>>

(* Mutant: the error of the patch does not end the call. *)
AddFinalizerIgnoringErrors ==
    /\ pc = "addFinalizer"
    /\ IF cd.ex /\ (cd.del => cd.fin)
       THEN StoreCD([cd EXCEPT !.fin = TRUE]) /\ mem' = cd'
       ELSE UNCHANGED <<cdObj, mem>>
    /\ Step("list")
    /\ UNCHANGED <<listed, todo, bundle, current, errs>>
    /\ UNCHANGED <<crObjs, seen, budget>>

(* The merge patch; the server accepts no new finalizer on an object that   *)
(* is being deleted.                                                        *)
AddFinalizer ==
    /\ pc = "addFinalizer"
    /\ IF cd.ex /\ (cd.del => cd.fin)
       THEN /\ StoreCD([cd EXCEPT !.fin = TRUE])
            /\ mem' = cd' /\ Step("list")
            /\ UNCHANGED <<listed, todo, bundle, current, errs>>
       ELSE UNCHANGED cdObj /\ Fail
    /\ UNCHANGED <<crObjs, seen, budget>>

-----------------------------------------------------------------------------
(* syncCertificateRequests *)

(* Mutant: the `generate` flag of a bundle is ignored. *)
DesiredAllBundles(c) == {b \in Bundles : getDomainsForCertBundle(c, b) # {}}

Desired(c) == {b \in c.generate : getDomainsForCertBundle(c, b) # {}}

(* Mutant: names of bundles where names of CertificateRequests are due. *)
CurrentBundles == Bundles

(* Mutant: only issued requests are listed. *)
CurrentIssuedCRs == {n \in Names : crsSeen[n].ex /\ crsSeen[n].issued}

(* getCurrentCertificateRequests: every CertificateRequest of the namespace. *)
CurrentCRs == {n \in Names : crsSeen[n].ex}

List ==
    /\ pc = "list" /\ CacheRead
    /\ listed' = CurrentCRs \ {CRName[b] : b \in Desired(mem)}
    /\ todo' = Desired(mem)
    /\ Step("sync")
    /\ UNCHANGED <<cdObj, crObjs, seen, mem, bundle, current, errs, budget>>

(* Mutant: an existing CertificateRequest is never updated. *)
VisitWithoutUpdate(b) ==
    LET c == crsSeen[CRName[b]]
    IN  /\ todo' = todo \ {b}
        /\ IF c.ex
           THEN UNCHANGED <<pc, bundle, current>>
           ELSE pc' = "create" /\ bundle' = {b} /\ current' = c
        /\ UNCHANGED <<queued, mem, listed, errs>>

(* Visit one desired CertificateRequest: read it, and leave it alone if its *)
(* spec is the desired one.  After the last: an error ends the call before  *)
(* anything is deleted.                                                     *)
Visit(b) ==
    LET c == crsSeen[CRName[b]]
    IN  /\ todo' = todo \ {b}
        /\ IF c.ex /\ c.names = getDomainsForCertBundle(mem, b)
           THEN UNCHANGED <<pc, bundle, current>>
           ELSE /\ pc' = IF c.ex THEN "update" ELSE "create"
                /\ bundle' = {b} /\ current' = c
        /\ UNCHANGED <<queued, mem, listed, errs>>

Sync ==
    /\ pc = "sync"
    /\ \/ CacheRead /\ \E b \in todo : Visit(b)
       \/ todo = {} /\ errs /\ Fail
       \/ /\ todo = {} /\ ~errs /\ Step("prune")
          /\ UNCHANGED locals
    /\ UNCHANGED <<cdObj, crObjs, seen, budget>>

BackToSync(failed) ==
    /\ Step("sync") /\ errs' = (errs \/ failed)
    /\ bundle' = {} /\ current' = NoCR
    /\ UNCHANGED <<mem, listed, todo>>

(* Create: AlreadyExists if the cache had missed it. *)
Create ==
    /\ pc = "create"
    /\ \E b \in bundle :
           LET n == CRName[b]
           IN  /\ IF crs[n].ex
                  THEN UNCHANGED crObjs
                  ELSE StoreCR(n, NewCR(crs[n], mem.uid, getDomainsForCertBundle(mem, b)))
               /\ BackToSync(crs[n].ex)
    /\ UNCHANGED <<cdObj, seen, budget>>

(* Update: refused if the version read is not the current one. *)
Update ==
    /\ pc = "update"
    /\ \E b \in bundle :
           LET n     == CRName[b]
               fresh == crs[n].ex /\ crs[n].rv = current.rv
           IN  /\ IF fresh
                  THEN StoreCR(n, [crs[n] EXCEPT !.names = getDomainsForCertBundle(mem, b)])
                  ELSE UNCHANGED crObjs
               /\ BackToSync(~fresh)
    /\ UNCHANGED <<cdObj, seen, budget>>

(* Delete what is not desired, by name and without preconditions; NotFound  *)
(* is an error.  At the end the status is compared with its own copy, so    *)
(* the patch that would report it is never sent: cd is left alone.          *)
DeleteOne(n) ==
    IF crs[n].ex
    THEN /\ StoreCR(n, Deleted(crs[n]))
         /\ listed' = listed \ {n}
         /\ UNCHANGED <<queued, pc, mem, todo, bundle, current, errs>>
    ELSE UNCHANGED crObjs /\ Fail

Prune ==
    /\ pc = "prune"
    /\ \/ \E n \in listed : DeleteOne(n)
       \/ listed = {} /\ UNCHANGED crObjs /\ Finish
    /\ UNCHANGED <<cdObj, seen, budget>>

-----------------------------------------------------------------------------
(* handleDelete, and the removal of the finalizer after it. *)

ListAll ==
    /\ pc = "listAll" /\ CacheRead
    /\ listed' = CurrentCRs
    /\ Step("deleteAll")
    /\ UNCHANGED <<cdObj, crObjs, seen, mem, todo, bundle, current, errs, budget>>

(* Mutant: the loop ends after the first deletion. *)
DeleteAllFirstOnly ==
    /\ pc = "deleteAll"
    /\ \/ \E n \in listed : crs[n].ex /\ StoreCR(n, Deleted(crs[n]))
       \/ listed = {} /\ UNCHANGED crObjs
    /\ Step("removeFinalizer") /\ UNCHANGED locals
    /\ UNCHANGED <<cdObj, seen, budget>>

DeleteAll ==
    /\ pc = "deleteAll"
    /\ \/ \E n \in listed : DeleteOne(n)
       \/ /\ listed = {} /\ Step("removeFinalizer")
          /\ UNCHANGED <<crObjs, locals>>
    /\ UNCHANGED <<cdObj, seen, budget>>

RemoveFinalizer ==
    /\ pc = "removeFinalizer"
    /\ IF cd.ex THEN StoreCD([cd EXCEPT !.fin = FALSE]) ELSE UNCHANGED cdObj
    /\ FinishOrFail(cd.ex)
    /\ UNCHANGED <<crObjs, seen, budget>>

-----------------------------------------------------------------------------
(* Faults: a call fails, which for Get, Create and Update inside the loop   *)
(* only counts as an error; or the operator restarts.                       *)

ApiError ==
    /\ Fault
    /\ \/ pc \in {"addFinalizer", "list", "listAll", "removeFinalizer"} /\ Fail
       \/ pc \in {"prune", "deleteAll"} /\ listed # {} /\ Fail
       \/ pc \in {"create", "update"} /\ BackToSync(TRUE)
       \/ /\ pc = "sync" /\ \E b \in todo : todo' = todo \ {b}
          /\ errs' = TRUE
          /\ UNCHANGED <<queued, pc, mem, listed, bundle, current>>
    /\ UNCHANGED <<cdObj, crObjs, seen>>

Crash ==
    /\ Fault
    /\ Fail
    /\ cdSeen' = cd /\ cdMissed' = {}
    /\ crsSeen' = crs /\ crsMissed' = [n \in Names |-> {}]
    /\ UNCHANGED <<cd, crs>>

-----------------------------------------------------------------------------
(* The machinery: informers (For ClusterDeployment, Owns CertificateRequest)*)
(* and the garbage collector, which deletes what a gone ClusterDeployment   *)
(* owned.                                                                   *)

Later(versions, v) == {w \in versions : w.rv > v.rv}

SyncCD ==
    /\ \E v \in cdMissed : cdSeen' = v /\ cdMissed' = Later(cdMissed, v)
    /\ queued' = TRUE
    /\ UNCHANGED <<cd, crObjs, crsSeen, pc, locals, budget>>

SyncCRs ==
    /\ \E n \in Names : \E v \in crsMissed[n] :
           /\ crsSeen' = [crsSeen EXCEPT ![n] = v]
           /\ crsMissed' = [crsMissed EXCEPT ![n] = Later(@, v)]
    /\ queued' = TRUE
    /\ UNCHANGED <<cdObj, crs, cdSeen, pc, locals, budget>>

Resync ==
    /\ ~queued /\ cdSeen.ex
    /\ queued' = TRUE
    /\ UNCHANGED <<cdObj, crObjs, seen, pc, locals, budget>>

CollectCRs ==
    /\ \E n \in Names :
           /\ crs[n].ex /\ ~crs[n].del /\ crs[n].owner # 0
           /\ ~(cd.ex /\ crs[n].owner = cd.uid)
           /\ StoreCR(n, Deleted(crs[n]))
    /\ UNCHANGED <<cdObj, seen, worker, budget>>

-----------------------------------------------------------------------------
(* The CertificateRequest controller, seen from here.  A deleted request    *)
(* whose certificate has to be revoked waits for a DNS client, and on AWS   *)
(* that needs the ClusterDeployment.  (A Secret that holds no certificate,  *)
(* or one the code refuses to revoke, is the other module's business.)      *)

Blocked(c) == ClientNeedsCD /\ c.issued /\ ~cdSeen.ex

GuardCR ==
    /\ \E n \in Names : /\ crs[n].ex /\ ~crs[n].del /\ ~crs[n].fin
                        /\ StoreCR(n, [crs[n] EXCEPT !.fin = TRUE])
    /\ UNCHANGED <<cdObj, seen, worker, budget>>

IssueCR ==
    /\ \E n \in Names : /\ crs[n].ex /\ ~crs[n].del /\ crs[n].fin /\ ~crs[n].issued
                        /\ StoreCR(n, [crs[n] EXCEPT !.issued = TRUE])
    /\ UNCHANGED <<cdObj, seen, worker, budget>>

FinalizeCR ==
    /\ \E n \in Names : /\ crs[n].ex /\ crs[n].del /\ ~Blocked(crs[n])
                        /\ StoreCR(n, GoneCR(crs[n]))
    /\ UNCHANGED <<cdObj, seen, worker, budget>>

-----------------------------------------------------------------------------
(* The environment: Hive and users. *)

(* Hive's own finalizer is the last: the object goes when ours is off. *)
HiveFinishes ==
    /\ cd.ex /\ cd.del /\ ~cd.fin
    /\ StoreCD(GoneCD(cd.uid, cd.rv))
    /\ UNCHANGED <<crObjs, seen, worker, budget>>

Edit(op) ==
    /\ op \in EnvOps /\ edits < MaxEdits
    /\ edits' = edits + 1
    /\ UNCHANGED <<seen, worker, faults>>

Install ==
    /\ cd.ex /\ ~cd.installed
    /\ StoreCD([cd EXCEPT !.installed = TRUE])
    /\ UNCHANGED <<crObjs, seen, worker, budget>>

EditBundles ==
    /\ Edit("bundles") /\ cd.ex
    /\ \E b \in Bundles :
           StoreCD([cd EXCEPT !.generate = IF b \in @ THEN @ \ {b} ELSE @ \cup {b}])
    /\ UNCHANGED crObjs

(* A place names another bundle, or none. *)
EditServing ==
    /\ Edit("serving") /\ cd.ex
    /\ \E u \in Uses, bs \in {{}} \cup {{b} : b \in Bundles} :
           LET new == {s \in cd.serving : s[1] # u} \cup ({u} \X bs)
           IN  new # cd.serving /\ StoreCD([cd EXCEPT !.serving = new])
    /\ UNCHANGED crObjs

DeleteCD ==
    /\ Edit("delete") /\ cd.ex /\ ~cd.del
    /\ StoreCD([cd EXCEPT !.del = TRUE])
    /\ UNCHANGED crObjs

RecreateCD ==
    /\ Edit("recreate") /\ ~cd.ex
    /\ \E c \in NewCDs(cd.uid + 1, cd.rv) : StoreCD(c)
    /\ UNCHANGED crObjs

Relocate ==
    /\ Edit("relocate") /\ cd.ex /\ ~cd.relocating
    /\ StoreCD([cd EXCEPT !.relocating = TRUE])
    /\ UNCHANGED crObjs

(* The managed label is taken off (or the cluster is made a fake one). *)
Unmanage ==
    /\ Edit("manage") /\ cd.ex /\ cd.managed
    /\ StoreCD([cd EXCEPT !.managed = FALSE])
    /\ UNCHANGED crObjs

(* Either may be undone, or not; that is not counted as another edit. *)
Restore ==
    /\ cd.ex
    /\ \/ cd.relocating /\ StoreCD([cd EXCEPT !.relocating = FALSE])
       \/ ~cd.managed /\ StoreCD([cd EXCEPT !.managed = TRUE])
    /\ UNCHANGED <<crObjs, seen, worker, budget>>

DeleteCR ==
    /\ Edit("deleteCR")
    /\ \E n \in Names : crs[n].ex /\ ~crs[n].del /\ StoreCR(n, Deleted(crs[n]))
    /\ UNCHANGED cdObj

-----------------------------------------------------------------------------

Worker ==
    \/ StartReconcile \/ AddFinalizer
    \/ List \/ Sync \/ Create \/ Update \/ Prune
    \/ ListAll \/ DeleteAll \/ RemoveFinalizer

Machinery == SyncCD \/ SyncCRs \/ Resync \/ CollectCRs

CRController == GuardCR \/ IssueCR \/ FinalizeCR

Environment ==
    \/ Install \/ EditBundles \/ EditServing \/ DeleteCD \/ RecreateCD \/ Relocate
    \/ Unmanage \/ Restore \/ DeleteCR \/ HiveFinishes

Next == Worker \/ ApiError \/ Crash \/ Machinery \/ CRController \/ Environment

(* The worker, the informers and the garbage collector keep going, Hive     *)
(* finishes an installation and, once our finalizer is off, a deletion; the *)
(* other controller guards what is new and finalizes what it can.  No       *)
(* issuance is owed: it may fail for ever.                                  *)
Fairness ==
    /\ WF_vars(Worker)
    /\ WF_vars(SyncCD) /\ WF_vars(SyncCRs) /\ WF_vars(Resync) /\ WF_vars(CollectCRs)
    /\ WF_vars(GuardCR) /\ WF_vars(FinalizeCR)
    /\ WF_vars(Install) /\ WF_vars(HiveFinishes)

Spec == Init /\ [][Next]_vars
FairSpec == Spec /\ Fairness
-----------------------------------------------------------------------------
(* Properties. *)

(* The shape of every variable. *)
TypeOK ==
    /\ cd \in CD /\ cdSeen \in CD /\ mem \in CD /\ cdMissed \subseteq CD
    /\ crs \in [Names -> CR] /\ crsSeen \in [Names -> CR]
    /\ crsMissed \in [Names -> SUBSET CR] /\ current \in CR
    /\ queued \in BOOLEAN /\ errs \in BOOLEAN /\ pc \in PC
    /\ listed \subseteq Names /\ todo \subseteq Bundles /\ bundle \subseteq Bundles
    /\ edits \in Nat /\ faults \in Nat

(* A CertificateRequest is only ever created for the ClusterDeployment that *)
(* is there now, while certman's finalizer is on it: neither a stale copy   *)
(* nor a finished deletion makes the worker create one nobody cleans up.    *)
CreatesUnderFinalizer ==
    [][\A n \in Names : (crs'[n].ex /\ ~crs[n].ex)
           => cd.ex /\ cd.fin /\ crs'[n].owner = cd.uid]_vars

(* The finalizer comes off when handleDelete has asked for the deletion of  *)
(* every CertificateRequest of the namespace ("remove the certman-operator  *)
(* finalizer after cleanup").                                               *)
CleanedUpFirst ==
    [][(cd.fin /\ ~cd'.fin) => \A n \in Names : crs[n].ex => crs[n].del]_vars

(* The finalizer comes off, and Hive continues, when every CertificateRequest*)
(* is gone, that is, when its certificates have been revoked.               *)
RevokedFirst ==
    [][(cd.fin /\ ~cd'.fin) => \A n \in Names : ~crs[n].ex]_vars

(* A deleted ClusterDeployment goes away, unless it is one that Reconcile   *)
(* skips: the early returns come before the deletion check, so a cluster    *)
(* that has lost its managed label or is relocating keeps the finalizer,    *)
(* but only for as long as that lasts ...                                   *)
DeletionCompletes == ~<>[](cd.ex /\ cd.del /\ ~Skipped(cd))

(* ... and when it stays away so do, in the end, its CertificateRequests,   *)
(* even the ones the worker's stale list missed, but for those whose        *)
(* certificate cannot be revoked any more without the ClusterDeployment:    *)
(* these have been asked to go and stay.                                    *)
OnlyBlockedLeft ==
    <>[](~cd.ex) =>
        <>[](\A n \in Names : crs[n].ex => crs[n].del /\ Blocked(crs[n]))

(* For a cluster that is to be served, the CertificateRequests end up being *)
(* exactly the desired ones, each live and asking for its bundle's domains, *)
(* although a bundle may be dropped and wanted again before the old object  *)
(* has been finalized.                                                      *)
InStep ==
    /\ \A u \in Uses, b \in cd.generate : <<u, b>> \in cd.serving =>
           /\ crs[CRName[b]].ex /\ ~crs[CRName[b]].del
           /\ NamesOf(u) \subseteq crs[CRName[b]].names
    /\ \A n \in Names : crs[n].ex =>
           \E b \in cd.generate : /\ n = CRName[b]
                                  /\ crs[n].names = getDomainsForCertBundle(cd, b)

Converges == <>[](~Skipped(cd) /\ ~cd.del => InStep)

-----------------------------------------------------------------------------
(* The inductive invariant behind CreatesUnderFinalizer. *)

Serving == pc \in {"list", "sync", "create", "update", "prune"}

Deleting == pc \in {"listAll", "deleteAll", "removeFinalizer"}

(* Everything the worker may still read of the ClusterDeployment. *)
Views == cdMissed \cup {cdSeen}

(* y may be a later version than x: uids grow, an object once gone is gone, *)
(* and no deletion is taken back.                                           *)
Evolves(x, y) ==
    /\ x.uid <= y.uid
    /\ (x.uid = y.uid /\ y.ex) => x.ex /\ (x.del => y.del)

History ==
    /\ \A v \in Views : v.rv <= cd.rv /\ Evolves(v, cd)
    /\ \A v \in cdMissed : cdSeen.rv <= v.rv
    /\ \A v, w \in Views : v.rv <= w.rv => Evolves(v, w)

Guarded(c) == c.ex /\ c.fin

(* v asks for a clean-up that is already over. *)
Stale(v) == Guarded(v) /\ v.del /\ ~(Guarded(cd) /\ v.uid = cd.uid)

(* While such a version can still be read, it is what the worker reads: it  *)
(* cannot have put the finalizer on the next ClusterDeployment.             *)
StaleViews ==
    \A v \in Views : Stale(v) =>
        /\ cdSeen.ex /\ cdSeen.del /\ cdSeen.uid = v.uid
        /\ ~Serving /\ pc # "addFinalizer"
        /\ ~cd.fin

(* A live version with the finalizer is of the object that is there now. *)
LiveViews ==
    \A v \in Views : (Guarded(v) /\ ~v.del) => Guarded(cd) /\ v.uid = cd.uid

(* What the worker knows in each half of Reconcile: it serves only the      *)
(* ClusterDeployment that is there, with the finalizer on; and a clean-up   *)
(* that comes too late finds no finalizer to take off.                      *)
WorkerKnows ==
    /\ Serving => Guarded(cd) /\ mem.uid = cd.uid
    /\ Deleting =>
           /\ Guarded(mem) /\ mem.del
           /\ \A v \in Views : Evolves(mem, v)
           /\ Stale(mem) => ~cd.fin

(* Inductive: Init implies it and every step of Next preserves it. *)
FinalizerInv ==
    /\ TypeOK
    /\ ~cd.ex => ~cd.fin
    /\ History /\ StaleViews /\ LiveViews /\ WorkerKnows

-----------------------------------------------------------------------------
(* The inductive invariant behind CleanedUpFirst. *)

(* The versions of a CertificateRequest to be delivered end with the stored *)
(* one.                                                                     *)
CRHistory(n) ==
    IF crsMissed[n] = {} THEN crsSeen[n] = crs[n]
    ELSE /\ crs[n] \in crsMissed[n]
         /\ \A v \in crsMissed[n] : v.rv < crs[n].rv \/ v = crs[n]

Leaving(n) == crs[n].ex => crs[n].del

(* handleDelete has asked for the deletion of what is no longer in its list.*)
CleanUpKnown ==
    /\ pc = "deleteAll" => \A n \in Names \ listed : Leaving(n)
    /\ pc = "removeFinalizer" => \A n \in Names : Leaving(n)

(* With a cache that is current whenever it is read, the list of            *)
(* handleDelete is complete and stays so: only this worker creates.         *)
CleanUpInv ==
    /\ \A n \in Names : CRHistory(n)
    /\ ~CacheLags => CleanUpKnown
=============================================================================
