----------------------- MODULE ClusterDeployment_proofs -----------------------
(***************************************************************************)
(* Proofs about ClusterDeployment for every set of bundles, every way in   *)
(* which the spec may name them, every bound and every choice of what the  *)
(* environment may do.                                                     *)
(***************************************************************************)
EXTENDS ClusterDeployment, TLAPS

-----------------------------------------------------------------------------
(* Types. *)

LEMMA DomainsKnown ==
    ASSUME NEW c, NEW b
    PROVE  getDomainsForCertBundle(c, b) \subseteq Domains
  BY DEF getDomainsForCertBundle, Domains

LEMMA GoneTypes ==
    /\ \A u, r \in Nat : GoneCD(u, r) \in CD
    /\ NoCR \in CR
    /\ \A c \in CR : GoneCR(c) \in CR
  BY DEF GoneCD, NoCR, GoneCR, CD, CR

LEMMA CDFields ==
    ASSUME NEW c \in CD
    PROVE  /\ c.uid \in Nat /\ c.rv \in Nat /\ c.rv + 1 \in Nat /\ c.uid + 1 \in Nat
           /\ c.ex \in BOOLEAN /\ c.del \in BOOLEAN /\ c.fin \in BOOLEAN
  BY DEF CD

LEMMA CRFields ==
    ASSUME NEW c \in CR
    PROVE  /\ c.uid \in Nat /\ c.rv \in Nat /\ c.rv + 1 \in Nat /\ c.uid + 1 \in Nat
           /\ c.ex \in BOOLEAN /\ c.del \in BOOLEAN /\ c.fin \in BOOLEAN
  BY DEF CR

LEMMA NewCDType ==
    ASSUME NEW u \in Nat, NEW r \in Nat, NEW c \in NewCDs(u, r)
    PROVE  /\ c \in CD /\ c.ex /\ ~c.del /\ ~c.fin /\ c.uid = u /\ c.rv = r
  <1>1. PICK bs \in SUBSET Bundles, named \in [Uses -> Bundles] :
            c = NewCD(u, r, bs, named)
    BY DEF NewCDs
  <1> DEFINE serving == {<<w, named[w]>> : w \in Uses}
  <1>2. serving \in SUBSET (Uses \X Bundles)
    OBVIOUS
  <1>3. c = [GoneCD(u, r) EXCEPT !.ex = TRUE, !.managed = TRUE, !.generate = bs,
                                 !.serving = serving]
    BY <1>1 DEF NewCD
  <1> HIDE DEF serving
  <1> QED  BY <1>2, <1>3 DEF GoneCD, CD

(* The ways in which anybody edits a ClusterDeployment: none of them        *)
(* touches its identity.                                                    *)
SameCD(c, d) == d.ex = c.ex /\ d.uid = c.uid

LEMMA EditedCD ==
    ASSUME NEW c \in CD
    PROVE  /\ \A x \in BOOLEAN :
                  /\ [c EXCEPT !.fin = x] \in CD
                  /\ SameCD(c, [c EXCEPT !.fin = x])
                  /\ [c EXCEPT !.fin = x].fin = x
                  /\ [c EXCEPT !.fin = x].del = c.del
           /\ /\ [c EXCEPT !.del = TRUE] \in CD
              /\ SameCD(c, [c EXCEPT !.del = TRUE])
              /\ [c EXCEPT !.del = TRUE].del
              /\ [c EXCEPT !.del = TRUE].fin = c.fin
  BY DEF CD, SameCD

LEMMA RestyledCD ==
    ASSUME NEW c \in CD
    PROVE  /\ \A x \in BOOLEAN :
                  /\ [c EXCEPT !.managed = x] \in CD
                  /\ [c EXCEPT !.relocating = x] \in CD
                  /\ [c EXCEPT !.installed = x] \in CD
           /\ \A bs \in SUBSET Bundles : [c EXCEPT !.generate = bs] \in CD
           /\ \A sv \in SUBSET (Uses \X Bundles) : [c EXCEPT !.serving = sv] \in CD
  BY DEF CD

LEMMA StoreCDType ==
    ASSUME TypeOK, NEW c \in CD, StoreCD(c)
    PROVE  /\ cd' \in CD /\ cdMissed' \subseteq CD
           /\ cd'.ex = c.ex /\ cd'.uid = c.uid /\ cd'.fin = c.fin /\ cd'.del = c.del
           /\ \/ cd' = cd /\ cdMissed' = cdMissed
              \/ cd'.rv = cd.rv + 1 /\ cdMissed' = cdMissed \cup {cd'}
  <1>0. cd.rv + 1 \in Nat
    BY CDFields DEF TypeOK
  <1>1. CASE c = cd
    BY <1>1 DEF StoreCD, TypeOK, cdObj
  <1>2. CASE c # cd
    <2>1. cd' = [c EXCEPT !.rv = cd.rv + 1] /\ cdMissed' = cdMissed \cup {cd'}
      BY <1>2 DEF StoreCD
    <2>2. /\ cd' \in CD /\ cd'.rv = cd.rv + 1
          /\ cd'.ex = c.ex /\ cd'.uid = c.uid /\ cd'.fin = c.fin /\ cd'.del = c.del
      BY <1>0, <2>1 DEF CD
    <2> QED  BY <2>1, <2>2 DEF TypeOK
  <1> QED  BY <1>1, <1>2

(* Storing a version of one CertificateRequest leaves the others alone. *)
LEMMA StoreCRType ==
    ASSUME TypeOK, NEW n \in Names, NEW c \in CR, StoreCR(n, c)
    PROVE  /\ crs' \in [Names -> CR] /\ crsMissed' \in [Names -> SUBSET CR]
           /\ crs'[n].ex = c.ex /\ crs'[n].del = c.del /\ crs'[n].owner = c.owner
           /\ \A m \in Names \ {n} : crs'[m] = crs[m] /\ crsMissed'[m] = crsMissed[m]
           /\ \/ crs'[n] = crs[n] /\ crsMissed'[n] = crsMissed[n]
              \/ /\ crs'[n].rv = crs[n].rv + 1
                 /\ crsMissed'[n] = crsMissed[n] \cup {crs'[n]}
  <1>0. crs[n].rv + 1 \in Nat
    BY CRFields DEF TypeOK
  <1>1. CASE c = crs[n]
    BY <1>1 DEF StoreCR, TypeOK, crObjs
  <1>2. CASE c # crs[n]
    <2> DEFINE new == [c EXCEPT !.rv = crs[n].rv + 1]
    <2>1. /\ crs' = [crs EXCEPT ![n] = new]
          /\ crsMissed' = [crsMissed EXCEPT ![n] = @ \cup {new}]
      BY <1>2 DEF StoreCR
    <2>2. /\ new \in CR /\ new.rv = crs[n].rv + 1
          /\ new.ex = c.ex /\ new.del = c.del /\ new.owner = c.owner
      BY <1>0 DEF CR
    <2> HIDE DEF new
    <2>3. crs \in [Names -> CR] /\ crsMissed \in [Names -> SUBSET CR]
      BY DEF TypeOK
    <2> QED  BY <2>1, <2>2, <2>3
  <1> QED  BY <1>1, <1>2

LEMMA NewCRType ==
    ASSUME NEW c \in CR, NEW o \in Nat, NEW names \in SUBSET Domains
    PROVE  NewCR(c, o, names) \in CR /\ NewCR(c, o, names).owner = o
  <1>1. c.uid + 1 \in Nat /\ c.uid \in Nat /\ c.rv \in Nat
    BY CRFields
  <1> QED  BY <1>1 DEF NewCR, GoneCR, CR

LEMMA EditedCR ==
    ASSUME NEW c \in CR
    PROVE  /\ [c EXCEPT !.fin = TRUE] \in CR /\ [c EXCEPT !.fin = TRUE].ex = c.ex
           /\ [c EXCEPT !.issued = TRUE] \in CR /\ [c EXCEPT !.issued = TRUE].ex = c.ex
           /\ \A names \in SUBSET Domains :
                  [c EXCEPT !.names = names] \in CR /\ [c EXCEPT !.names = names].ex = c.ex
           /\ [c EXCEPT !.fin = TRUE].del = c.del /\ [c EXCEPT !.issued = TRUE].del = c.del
           /\ \A names \in SUBSET Domains : [c EXCEPT !.names = names].del = c.del
  BY DEF CR

(* A Delete call makes nothing: what is there afterwards was there before,  *)
(* and is marked.                                                           *)
LEMMA DeletedCR ==
    ASSUME NEW c \in CR
    PROVE  /\ Deleted(c) \in CR /\ GoneCR(c) \in CR /\ ~GoneCR(c).ex
           /\ Deleted(c).ex => c.ex /\ Deleted(c).del
  <1>1. GoneCR(c) \in CR /\ ~GoneCR(c).ex
    BY GoneTypes DEF GoneCR
  <1>2. CASE c.fin
    BY <1>1, <1>2 DEF Deleted, CR
  <1>3. CASE ~c.fin
    BY <1>1, <1>3 DEF Deleted
  <1> QED  BY <1>1, <1>2, <1>3

LEMMA CRNameType == \A b \in Bundles : CRName[b] \in Names
  BY DEF Names

USE DEF cdObj, crObjs, seen, locals, worker, budget, Step, Finish, Fail, FinishOrFail

LEMMA ReturnType ==
    ASSUME Return
    PROVE  /\ pc' \in PC /\ mem' \in CD /\ current' \in CR /\ errs' \in BOOLEAN
           /\ listed' \subseteq Names /\ todo' \subseteq Bundles
           /\ bundle' \subseteq Bundles
  BY GoneTypes DEF Return, PC

LEMMA BackToSyncType ==
    ASSUME TypeOK, NEW failed \in BOOLEAN, BackToSync(failed)
    PROVE  /\ pc' \in PC /\ mem' \in CD /\ current' \in CR /\ errs' \in BOOLEAN
           /\ listed' \subseteq Names /\ todo' \subseteq Bundles
           /\ bundle' \subseteq Bundles /\ queued' \in BOOLEAN
  <1>1. errs' \in BOOLEAN
    BY Zenon DEF BackToSync, TypeOK
  <1> QED  BY <1>1, GoneTypes DEF BackToSync, TypeOK, PC

(* What the worker's steps do to the stored objects. *)
LEMMA DeleteOneType ==
    ASSUME TypeOK, NEW n \in Names, DeleteOne(n)
    PROVE  /\ crs' \in [Names -> CR] /\ crsMissed' \in [Names -> SUBSET CR]
           /\ pc' \in PC /\ mem' \in CD /\ current' \in CR /\ errs' \in BOOLEAN
           /\ listed' \subseteq Names /\ todo' \subseteq Bundles
           /\ bundle' \subseteq Bundles /\ queued' \in BOOLEAN
  <1>1. CASE crs[n].ex
    <2>1. crs[n] \in CR
      BY DEF TypeOK
    <2>2. Deleted(crs[n]) \in CR
      BY <2>1, DeletedCR
    <2>3. StoreCR(n, Deleted(crs[n]))
      BY <1>1 DEF DeleteOne
    <2>4. crs' \in [Names -> CR] /\ crsMissed' \in [Names -> SUBSET CR]
      BY <2>2, <2>3, StoreCRType
    <2> QED  BY <1>1, <2>4 DEF DeleteOne, TypeOK
  <1>2. CASE ~crs[n].ex
    BY <1>2, ReturnType DEF DeleteOne, TypeOK
  <1> QED  BY <1>1, <1>2

LEMMA WorkerType ==
    ASSUME TypeOK, Worker
    PROVE  TypeOK'
  <1>1. CASE StartReconcile
    <2>1. FirstCall(cdSeen) \in PC
      BY DEF FirstCall, PC, TypeOK, CD, Skipped
    <2> QED  BY <1>1, <2>1 DEF StartReconcile, TypeOK
  <1>2. CASE AddFinalizer
    <2>1. [cd EXCEPT !.fin = TRUE] \in CD
      BY EditedCD DEF TypeOK
    <2> QED  BY <1>2, <2>1, StoreCDType, ReturnType DEF AddFinalizer, TypeOK, PC
  <1>3. CASE List
    <2>1. Desired(mem) \subseteq Bundles
      BY DEF Desired, TypeOK, CD
    <2> QED  BY <1>3, <2>1 DEF List, CurrentCRs, TypeOK, PC
  <1>4. CASE Sync
    <2>1. CASE \E b \in todo : Visit(b)
      <3>1. PICK b \in todo : Visit(b)
        BY <2>1
      <3>2. b \in Bundles /\ CRName[b] \in Names
        BY CRNameType DEF TypeOK
      <3>3. crsSeen[CRName[b]] \in CR
        BY <3>2 DEF TypeOK
      <3> QED  BY <1>4, <3>1, <3>2, <3>3 DEF Sync, Visit, TypeOK, PC
    <2>2. CASE Fail
      BY <1>4, <2>2, ReturnType DEF Sync, TypeOK
    <2>3. CASE Step("prune") /\ UNCHANGED locals
      BY <1>4, <2>3 DEF Sync, TypeOK, PC
    <2> QED  BY <1>4, <2>1, <2>2, <2>3 DEF Sync
  <1>5. CASE Create
    <2>1. PICK b \in bundle :
              /\ IF crs[CRName[b]].ex
                 THEN UNCHANGED crObjs
                 ELSE StoreCR(CRName[b], NewCR(crs[CRName[b]], mem.uid,
                                               getDomainsForCertBundle(mem, b)))
              /\ BackToSync(crs[CRName[b]].ex)
      BY <1>5 DEF Create
    <2> DEFINE n == CRName[b]
               c == NewCR(crs[n], mem.uid, getDomainsForCertBundle(mem, b))
    <2>2. n \in Names /\ mem.uid \in Nat
      BY CRNameType, CDFields DEF TypeOK
    <2>3. crs[n] \in CR
      BY <2>2 DEF TypeOK
    <2>4. c \in CR /\ crs[n].ex \in BOOLEAN
      BY <2>2, <2>3, DomainsKnown, NewCRType, CRFields
    <2>5. (UNCHANGED crObjs \/ StoreCR(n, c)) /\ BackToSync(crs[n].ex)
      BY <2>1
    <2> HIDE DEF n, c
    <2>6. crs' \in [Names -> CR] /\ crsMissed' \in [Names -> SUBSET CR]
      BY <2>2, <2>4, <2>5, StoreCRType DEF TypeOK
    <2> QED  BY <1>5, <2>4, <2>5, <2>6, BackToSyncType DEF Create, TypeOK
  <1>6. CASE Update
    <2>1. PICK b \in bundle :
              LET n == CRName[b]
                  fresh == crs[n].ex /\ crs[n].rv = current.rv
              IN  /\ IF fresh
                     THEN StoreCR(n, [crs[n] EXCEPT
                                        !.names = getDomainsForCertBundle(mem, b)])
                     ELSE UNCHANGED crObjs
                  /\ BackToSync(~fresh)
      BY <1>6 DEF Update
    <2> DEFINE n == CRName[b]
               fresh == crs[n].ex /\ crs[n].rv = current.rv
               c == [crs[n] EXCEPT !.names = getDomainsForCertBundle(mem, b)]
    <2>2. n \in Names
      BY CRNameType DEF TypeOK
    <2>3. crs[n] \in CR
      BY <2>2 DEF TypeOK
    <2>4. c \in CR
      BY <2>3, DomainsKnown, EditedCR
    <2>5. (UNCHANGED crObjs \/ StoreCR(n, c)) /\ BackToSync(~fresh)
      BY <2>1
    <2>5a. (~fresh) \in BOOLEAN
      OBVIOUS
    <2> HIDE DEF n, c, fresh
    <2>6. crs' \in [Names -> CR] /\ crsMissed' \in [Names -> SUBSET CR]
      BY <2>2, <2>4, <2>5, StoreCRType DEF TypeOK
    <2>7. BackToSync(~fresh) /\ (~fresh) \in BOOLEAN
      BY <2>5, <2>5a
    <2> QED  BY <1>6, <2>6, <2>7, BackToSyncType DEF Update, TypeOK
  <1>7. CASE Prune
    <2>1. CASE \E n \in listed : DeleteOne(n)
      BY <1>7, <2>1, DeleteOneType DEF Prune, TypeOK
    <2>2. CASE UNCHANGED crObjs /\ Finish
      BY <1>7, <2>2, ReturnType DEF Prune, TypeOK
    <2> QED  BY <1>7, <2>1, <2>2 DEF Prune
  <1>8. CASE ListAll
    BY <1>8 DEF ListAll, CurrentCRs, TypeOK, PC
  <1>9. CASE DeleteAll
    <2>1. CASE \E n \in listed : DeleteOne(n)
      BY <1>9, <2>1, DeleteOneType DEF DeleteAll, TypeOK
    <2>2. CASE Step("removeFinalizer") /\ UNCHANGED <<crObjs, locals>>
      BY <1>9, <2>2 DEF DeleteAll, TypeOK, PC
    <2> QED  BY <1>9, <2>1, <2>2 DEF DeleteAll
  <1>10. CASE RemoveFinalizer
    <2>1. [cd EXCEPT !.fin = FALSE] \in CD
      BY EditedCD DEF TypeOK
    <2>2. cd' \in CD /\ cdMissed' \subseteq CD
      BY <1>10, <2>1, StoreCDType DEF RemoveFinalizer, TypeOK
    <2> QED  BY <1>10, <2>2, ReturnType DEF RemoveFinalizer, TypeOK
  <1> QED
    BY <1>1, <1>2, <1>3, <1>4, <1>5, <1>6, <1>7, <1>8, <1>9, <1>10 DEF Worker

LEMMA FaultType ==
    ASSUME TypeOK, ApiError \/ Crash
    PROVE  TypeOK'
  <1>0. Fault
    BY DEF ApiError, Crash
  <1>1. edits' \in Nat /\ faults' \in Nat
    BY <1>0 DEF Fault, TypeOK
  <1>2. CASE ApiError
    <2>1. CASE Fail
      BY <1>1, <1>2, <2>1, ReturnType DEF ApiError, TypeOK
    <2>2. CASE BackToSync(TRUE)
      BY <1>1, <1>2, <2>2, BackToSyncType DEF ApiError, TypeOK
    <2>3. CASE /\ todo' \subseteq todo /\ errs' = TRUE
               /\ UNCHANGED <<queued, pc, mem, listed, bundle, current>>
      BY <1>1, <1>2, <2>3 DEF ApiError, TypeOK
    <2> QED  BY <1>2, <2>1, <2>2, <2>3 DEF ApiError
  <1>3. CASE Crash
    BY <1>1, <1>3, ReturnType DEF Crash, TypeOK
  <1> QED  BY <1>2, <1>3

(* The edits of a ClusterDeployment that leave alone its identity, its      *)
(* finalizer and its deletion mark.                                         *)
Quiet(c) ==
    c.ex = cd.ex /\ c.uid = cd.uid /\ c.fin = cd.fin /\ c.del = cd.del

QuietEdit ==
    Install \/ EditBundles \/ EditServing \/ Relocate \/ Unmanage \/ Restore

LEMMA QuietEdits ==
    ASSUME TypeOK, QuietEdit
    PROVE  \E c \in CD : StoreCD(c) /\ Quiet(c)
  <1>0. cd \in CD
    BY DEF TypeOK
  <1>1. \A x \in BOOLEAN : /\ Quiet([cd EXCEPT !.managed = x])
                           /\ Quiet([cd EXCEPT !.relocating = x])
                           /\ Quiet([cd EXCEPT !.installed = x])
    BY <1>0 DEF Quiet, CD
  <1>2. \A y : Quiet([cd EXCEPT !.generate = y]) /\ Quiet([cd EXCEPT !.serving = y])
    BY <1>0 DEF Quiet, CD
  <1>3. CASE Install
    BY <1>0, <1>1, <1>3, RestyledCD DEF Install
  <1>4. CASE EditBundles
    <2>1. PICK b \in Bundles :
              StoreCD([cd EXCEPT !.generate = IF b \in @ THEN @ \ {b} ELSE @ \cup {b}])
      BY <1>4 DEF EditBundles
    <2> DEFINE bs == IF b \in cd.generate THEN cd.generate \ {b}
                     ELSE cd.generate \cup {b}
    <2>2. StoreCD([cd EXCEPT !.generate = bs])
      BY <2>1
    <2>3. bs \in SUBSET Bundles
      BY <1>0 DEF CD
    <2> HIDE DEF bs
    <2> QED  BY <1>0, <1>2, <2>2, <2>3, RestyledCD
  <1>5. CASE EditServing
    <2>1. PICK u \in Uses, bs \in {{}} \cup {{b} : b \in Bundles} :
              StoreCD([cd EXCEPT !.serving =
                         {s \in cd.serving : s[1] # u} \cup ({u} \X bs)])
      BY <1>5 DEF EditServing
    <2> DEFINE sv == {s \in cd.serving : s[1] # u} \cup ({u} \X bs)
    <2>2. StoreCD([cd EXCEPT !.serving = sv])
      BY <2>1
    <2>3. bs \subseteq Bundles /\ cd.serving \subseteq Uses \X Bundles
      BY <1>0 DEF CD
    <2>4. sv \in SUBSET (Uses \X Bundles)
      BY <2>3
    <2> HIDE DEF sv
    <2> QED  BY <1>0, <1>2, <2>2, <2>4, RestyledCD
  <1>6. CASE Relocate
    BY <1>0, <1>1, <1>6, RestyledCD DEF Relocate
  <1>7. CASE Unmanage
    BY <1>0, <1>1, <1>7, RestyledCD DEF Unmanage
  <1>8. CASE Restore
    BY <1>0, <1>1, <1>8, RestyledCD DEF Restore
  <1> QED  BY <1>3, <1>4, <1>5, <1>6, <1>7, <1>8 DEF QuietEdit

(* What anybody but the worker does to a CertificateRequest: nobody else    *)
(* creates one or takes a deletion back.                                    *)
OthersWriteCR == CollectCRs \/ GuardCR \/ IssueCR \/ FinalizeCR \/ DeleteCR

Fades(n, c) == c.ex => crs[n].ex /\ (crs[n].del => c.del)

LEMMA OthersOnlyFade ==
    ASSUME TypeOK, OthersWriteCR
    PROVE  \E n \in Names : \E c \in CR : StoreCR(n, c) /\ Fades(n, c)
  <1>0. \A n \in Names : crs[n] \in CR
    BY DEF TypeOK
  <1>1. \A n \in Names : /\ Deleted(crs[n]) \in CR /\ GoneCR(crs[n]) \in CR
                         /\ Fades(n, Deleted(crs[n])) /\ Fades(n, GoneCR(crs[n]))
    BY <1>0, DeletedCR DEF Fades
  <1>2. \A n \in Names :
            /\ [crs[n] EXCEPT !.fin = TRUE] \in CR /\ [crs[n] EXCEPT !.issued = TRUE] \in CR
            /\ Fades(n, [crs[n] EXCEPT !.fin = TRUE])
            /\ Fades(n, [crs[n] EXCEPT !.issued = TRUE])
    BY <1>0, EditedCR DEF Fades
  <1>3. CASE CollectCRs \/ DeleteCR
    BY <1>1, <1>3 DEF CollectCRs, DeleteCR
  <1>4. CASE FinalizeCR
    BY <1>1, <1>4 DEF FinalizeCR
  <1>5. CASE GuardCR \/ IssueCR
    BY <1>2, <1>5 DEF GuardCR, IssueCR
  <1> QED  BY <1>3, <1>4, <1>5 DEF OthersWriteCR

LEMMA EditBudget ==
    ASSUME TypeOK, NEW op, Edit(op)
    PROVE  edits' \in Nat /\ faults' \in Nat /\ UNCHANGED <<seen, worker>>
  BY DEF Edit, TypeOK

LEMMA OthersWriteCRFrame ==
    ASSUME TypeOK, OthersWriteCR
    PROVE  UNCHANGED <<cdObj, seen, worker>> /\ edits' \in Nat /\ faults' \in Nat
  <1>1. CASE DeleteCR
    BY <1>1, EditBudget DEF DeleteCR
  <1>2. CASE ~DeleteCR
    BY <1>2 DEF OthersWriteCR, CollectCRs, GuardCR, IssueCR, FinalizeCR, TypeOK
  <1> QED  BY <1>1, <1>2

(* The steps that change the ClusterDeployment and nothing the worker has. *)
CDEdit == QuietEdit \/ DeleteCD \/ RecreateCD \/ HiveFinishes

LEMMA CDEditFrame ==
    ASSUME TypeOK, CDEdit
    PROVE  UNCHANGED <<crObjs, seen, worker>> /\ edits' \in Nat /\ faults' \in Nat
  <1>1. CASE EditBundles \/ EditServing \/ DeleteCD \/ RecreateCD \/ Relocate \/ Unmanage
    BY <1>1, EditBudget DEF EditBundles, EditServing, DeleteCD, RecreateCD, Relocate,
                            Unmanage
  <1>2. CASE Install \/ Restore \/ HiveFinishes
    BY <1>2 DEF Install, Restore, HiveFinishes, TypeOK
  <1> QED  BY <1>1, <1>2 DEF CDEdit, QuietEdit

LEMMA CDEditType ==
    ASSUME TypeOK, CDEdit
    PROVE  cd' \in CD /\ cdMissed' \subseteq CD
  <1>0. cd \in CD /\ cd.uid \in Nat /\ cd.uid + 1 \in Nat /\ cd.rv \in Nat
    BY CDFields DEF TypeOK
  <1>1. \E c \in CD : StoreCD(c)
    <2>1. CASE QuietEdit
      BY <2>1, QuietEdits
    <2>2. CASE DeleteCD
      BY <1>0, <2>2, EditedCD DEF DeleteCD
    <2>3. CASE RecreateCD
      BY <1>0, <2>3, NewCDType DEF RecreateCD
    <2>4. CASE HiveFinishes
      BY <1>0, <2>4, GoneTypes DEF HiveFinishes
    <2> QED  BY <2>1, <2>2, <2>3, <2>4 DEF CDEdit
  <1> QED  BY <1>1, StoreCDType

(* Everybody, by what they write. *)
LEMMA NextCases ==
    ASSUME Next
    PROVE  \/ Worker \/ ApiError \/ Crash
           \/ SyncCD \/ SyncCRs \/ Resync
           \/ OthersWriteCR \/ CDEdit
  BY DEF Next, Machinery, CRController, Environment, OthersWriteCR, CDEdit, QuietEdit

LEMMA NextType == TypeOK /\ [Next]_vars => TypeOK'
  <1> SUFFICES ASSUME TypeOK, [Next]_vars PROVE TypeOK'
    OBVIOUS
  <1>1. CASE Worker
    BY <1>1, WorkerType
  <1>2. CASE ApiError \/ Crash
    BY <1>2, FaultType
  <1>3. CASE SyncCD
    BY <1>3 DEF SyncCD, Later, TypeOK
  <1>4. CASE SyncCRs
    <2>1. PICK n \in Names : \E v \in crsMissed[n] :
              /\ crsSeen' = [crsSeen EXCEPT ![n] = v]
              /\ crsMissed' = [crsMissed EXCEPT ![n] = Later(@, v)]
      BY <1>4 DEF SyncCRs
    <2>2. PICK v \in crsMissed[n] :
              /\ crsSeen' = [crsSeen EXCEPT ![n] = v]
              /\ crsMissed' = [crsMissed EXCEPT ![n] = Later(@, v)]
      BY <2>1
    <2>3. v \in CR /\ Later(crsMissed[n], v) \in SUBSET CR
      BY DEF TypeOK, Later
    <2>4. crsSeen' \in [Names -> CR] /\ crsMissed' \in [Names -> SUBSET CR]
      BY <2>2, <2>3 DEF TypeOK
    <2> QED  BY <1>4, <2>4 DEF SyncCRs, TypeOK
  <1>5. CASE Resync
    BY <1>5 DEF Resync, TypeOK
  <1>6. CASE OthersWriteCR
    <2>1. crs' \in [Names -> CR] /\ crsMissed' \in [Names -> SUBSET CR]
      BY <1>6, OthersOnlyFade, StoreCRType
    <2> QED  BY <1>6, <2>1, OthersWriteCRFrame DEF TypeOK
  <1>7. CASE CDEdit
    BY <1>7, CDEditType, CDEditFrame DEF TypeOK
  <1>8. CASE UNCHANGED vars
    BY <1>8 DEF vars, TypeOK
  <1> QED
    BY <1>1, <1>2, <1>3, <1>4, <1>5, <1>6, <1>7, <1>8, NextCases

LEMMA InitType == Init => TypeOK
  <1> SUFFICES ASSUME Init PROVE TypeOK
    OBVIOUS
  <1>1. cd \in CD /\ cdSeen \in CD /\ mem \in CD /\ cdMissed \subseteq CD
    BY NewCDType, GoneTypes DEF Init
  <1>2. /\ crs \in [Names -> CR] /\ crsSeen \in [Names -> CR]
        /\ crsMissed \in [Names -> SUBSET CR] /\ current \in CR
    BY GoneTypes DEF Init
  <1>3. listed \subseteq Names /\ todo \subseteq Bundles /\ bundle \subseteq Bundles
    BY DEF Init
  <1>4. queued \in BOOLEAN /\ errs \in BOOLEAN /\ pc \in PC
    BY DEF Init, PC
  <1>5. edits \in Nat /\ faults \in Nat
    BY DEF Init
  <1> QED  BY <1>1, <1>2, <1>3, <1>4, <1>5 DEF TypeOK

(* Every variable keeps its shape: in particular the worker only ever names *)
(* CertificateRequests of bundles, and asks for domains of the spec.        *)
THEOREM TypeCorrect == Spec => []TypeOK
  BY InitType, NextType, PTL DEF Spec

-----------------------------------------------------------------------------
(* The finalizer guards every creation.  A step is described by what it     *)
(* does to the ClusterDeployment, to the versions of it the worker may      *)
(* still read, and to the worker.                                           *)

USE DEF Serving, Deleting

LEMMA EvolvesTrans ==
    ASSUME NEW x \in CD, NEW y \in CD, NEW z \in CD, Evolves(x, y), Evolves(y, z)
    PROVE  Evolves(x, z)
  BY CDFields DEF Evolves

LEMMA EvolvesSame ==
    ASSUME NEW x \in CD, NEW y \in CD, y.ex = x.ex, y.uid = x.uid, x.del => y.del
    PROVE  Evolves(x, y)
  BY CDFields DEF Evolves

(* A store that evolves the object keeps the history in order. *)
LEMMA StoredHistory ==
    ASSUME TypeOK, History, NEW c \in CD, StoreCD(c), Evolves(cd, c), cdSeen' = cdSeen
    PROVE  History' /\ Views' \subseteq Views \cup {cd'}
  <1>1. CASE cd' = cd /\ cdMissed' = cdMissed
    BY <1>1 DEF History, Views, Evolves
  <1>2. CASE cd'.rv = cd.rv + 1 /\ cdMissed' = cdMissed \cup {cd'}
    <2> DEFINE new == cd'
    <2>0. cd \in CD /\ new \in CD /\ Views \subseteq CD /\ Views' = Views \cup {new}
      BY <1>2, StoreCDType DEF TypeOK, Views
    <2>1. \A v \in Views : v.rv < new.rv
      BY <1>2, <2>0, CDFields DEF History
    <2>2. \A v \in Views : Evolves(v, new)
      <3>1. Evolves(cd, new)
        BY <2>0, StoreCDType DEF Evolves
      <3> QED  BY <2>0, <3>1, EvolvesTrans DEF History
    <2>3. new.rv <= new.rv /\ Evolves(new, new)
      BY <2>0, EvolvesSame, CDFields
    <2>4. \A v \in Views' : v.rv <= new.rv /\ Evolves(v, new)
      BY <2>0, <2>1, <2>2, <2>3, CDFields
    <2>5. \A v \in cdMissed' : cdSeen'.rv <= v.rv
      BY <1>2, <2>0, <2>1, CDFields DEF History, Views
    <2>6. \A v, w \in Views' : v.rv <= w.rv => Evolves(v, w)
      <3> SUFFICES ASSUME NEW v \in Views', NEW w \in Views', v.rv <= w.rv
                   PROVE  Evolves(v, w)
        OBVIOUS
      <3>1. CASE w = new
        BY <3>1, <2>4
      <3>2. CASE w # new
        <4>1. w \in Views /\ v \in Views
          BY <3>2, <2>0, <2>1, CDFields
        <4> QED  BY <4>1 DEF History
      <3> QED  BY <3>1, <3>2
    <2>7. History'
      BY <2>4, <2>5, <2>6 DEF History, Evolves
    <2> QED  BY <2>0, <2>7
  <1> QED  BY <1>1, <1>2, StoreCDType

(* What the worker deletes for evolves into whatever is stored next. *)
LEMMA MemEvolves ==
    ASSUME FinalizerInv, TypeOK', History', Deleting, cdSeen' = cdSeen
    PROVE  Evolves(mem, cd')
  <1>1. /\ mem \in CD /\ cdSeen \in CD /\ cd' \in CD
        /\ cdSeen \in Views /\ cdSeen' \in Views'
    BY DEF FinalizerInv, TypeOK, Views
  <1>2. Evolves(mem, cdSeen) /\ Evolves(cdSeen, cd')
    BY <1>1 DEF FinalizerInv, WorkerKnows, History, Evolves
  <1> QED  BY <1>1, <1>2, EvolvesTrans

(* A step that leaves the identity and the finalizer of the                 *)
(* ClusterDeployment and the cached copy alone, in the same half of         *)
(* Reconcile or out of it.                                                  *)
LEMMA QuietStep ==
    ASSUME FinalizerInv, TypeOK', History',
           cd'.ex = cd.ex, cd'.uid = cd.uid, cd'.fin = cd.fin,
           cdSeen' = cdSeen, Views' \subseteq Views \cup {cd'},
           Serving' => Serving /\ mem'.uid = mem.uid,
           pc' = "addFinalizer" => pc = "addFinalizer",
           Deleting' => Deleting /\ mem' = mem
    PROVE  FinalizerInv'
  <1>1. \A v : Stale(v)' <=> Stale(v)
    BY DEF Stale, Guarded
  <1>2. ~Stale(cd')
    BY DEF Stale, Guarded
  <1>3. StaleViews'
    BY <1>1, <1>2 DEF FinalizerInv, StaleViews
  <1>4. LiveViews'
    BY DEF FinalizerInv, LiveViews, Guarded
  <1>5. WorkerKnows'
    <2>1. CASE Deleting'
      <3>1. Deleting /\ mem' = mem /\ ~Serving'
        BY <2>1
      <3>2. \A v \in Views' : Evolves(mem, v)
        BY <3>1, MemEvolves DEF FinalizerInv, WorkerKnows
      <3>3. Guarded(mem) /\ mem.del /\ (Stale(mem)' => ~cd'.fin)
        BY <1>1, <3>1 DEF FinalizerInv, WorkerKnows
      <3> QED  BY <3>1, <3>2, <3>3 DEF WorkerKnows, Guarded, Evolves, Stale
    <2>2. CASE ~Deleting'
      BY <2>2 DEF FinalizerInv, WorkerKnows, Guarded
    <2> QED  BY <2>1, <2>2
  <1> QED  BY <1>3, <1>4, <1>5 DEF FinalizerInv

LEMMA NoStore ==
    ASSUME FinalizerInv, UNCHANGED cdObj, cdSeen' = cdSeen
    PROVE  History' /\ Views' \subseteq Views \cup {cd'}
  BY DEF FinalizerInv, History, Views, Evolves

(* The calls about CertificateRequests, whatever they do to those. *)
LEMMA QuietCalls ==
    ASSUME FinalizerInv, TypeOK',
           List \/ Sync \/ Create \/ Update \/ Prune \/ ListAll \/ DeleteAll \/ ApiError
    PROVE  FinalizerInv'
  <1>1. UNCHANGED <<cdObj, cdSeen>>
    BY DEF List, Sync, Create, Update, Prune, ListAll, DeleteAll, ApiError
  <1>2. ASSUME Return PROVE ~Serving' /\ ~Deleting' /\ pc' # "addFinalizer"
    BY <1>2 DEF Return
  <1>3. ASSUME NEW x, BackToSync(x) PROVE Serving' /\ mem' = mem
    BY <1>3 DEF BackToSync
  <1>4. /\ Serving' => Serving /\ mem'.uid = mem.uid
        /\ pc' = "addFinalizer" => pc = "addFinalizer"
        /\ Deleting' => Deleting /\ mem' = mem
    <2>1. CASE List \/ ListAll
      BY <2>1 DEF List, ListAll
    <2>2. CASE Sync
      BY <1>2, <2>2 DEF Sync, Visit
    <2>3. CASE Create
      BY <1>3, <2>3 DEF Create
    <2>4. CASE Update
      BY <1>3, <2>4 DEF Update
    <2>5. CASE Prune
      BY <1>2, <2>5 DEF Prune, DeleteOne
    <2>6. CASE DeleteAll
      BY <1>2, <2>6 DEF DeleteAll, DeleteOne
    <2>7. CASE ApiError
      BY <1>2, <1>3, <2>7 DEF ApiError
    <2> QED  BY <2>1, <2>2, <2>3, <2>4, <2>5, <2>6, <2>7
  <1> QED  BY <1>1, <1>4, NoStore, QuietStep

LEMMA QuietOthers ==
    ASSUME FinalizerInv, TypeOK', SyncCRs \/ Resync \/ OthersWriteCR
    PROVE  FinalizerInv'
  <1>1. UNCHANGED <<cdObj, cdSeen, pc, mem>>
    BY OthersWriteCRFrame DEF SyncCRs, Resync, FinalizerInv
  <1> QED  BY <1>1, NoStore, QuietStep

LEMMA QuietCDEdits ==
    ASSUME FinalizerInv, TypeOK', QuietEdit \/ DeleteCD
    PROVE  FinalizerInv'
  <1>0. TypeOK /\ cd \in CD
    BY DEF FinalizerInv, TypeOK
  <1>1. UNCHANGED <<cdSeen, pc, mem>>
    BY <1>0, CDEditFrame DEF CDEdit
  <1>2. PICK c \in CD : /\ StoreCD(c) /\ c.ex = cd.ex /\ c.uid = cd.uid /\ c.fin = cd.fin
                        /\ cd.del => c.del
    <2>1. CASE QuietEdit
      BY <1>0, <2>1, QuietEdits DEF Quiet
    <2>2. CASE DeleteCD
      BY <1>0, <2>2, EditedCD DEF DeleteCD, SameCD
    <2> QED  BY <2>1, <2>2
  <1>3. Evolves(cd, c)
    BY <1>0, <1>2, EvolvesSame
  <1>4. History' /\ Views' \subseteq Views \cup {cd'}
    BY <1>0, <1>1, <1>2, <1>3, StoredHistory DEF FinalizerInv
  <1>5. cd'.ex = cd.ex /\ cd'.uid = cd.uid /\ cd'.fin = cd.fin
    BY <1>0, <1>2, StoreCDType
  <1> QED  BY <1>1, <1>4, <1>5, QuietStep

LEMMA StartStep ==
    ASSUME FinalizerInv, TypeOK', StartReconcile
    PROVE  FinalizerInv'
  <1>0. cdSeen \in CD /\ cdSeen \in Views /\ Views \subseteq CD
    BY DEF FinalizerInv, TypeOK, Views
  <1>1. UNCHANGED <<cd, cdMissed, cdSeen>> /\ pc' = FirstCall(cdSeen)
        /\ (pc' # "idle" => mem' = cdSeen)
    BY DEF StartReconcile
  <1>2. Views' = Views /\ History' /\ LiveViews'
    BY <1>1 DEF FinalizerInv, Views, History, LiveViews, Evolves, Guarded
  <1>3. /\ pc' \in {"idle", "listAll", "addFinalizer", "list"}
        /\ pc' = "listAll" => Guarded(cdSeen) /\ cdSeen.del
        /\ pc' = "addFinalizer" => ~cdSeen.del
        /\ pc' = "list" => Guarded(cdSeen) /\ ~cdSeen.del
    BY <1>0, <1>1 DEF FirstCall, Skipped, Guarded, CD
  <1>4. StaleViews'
    BY <1>1, <1>2, <1>3 DEF FinalizerInv, StaleViews, Stale, Guarded
  <1>5. WorkerKnows'
    <2>1. CASE Serving'
      <3>1. pc' = "list"
        BY <1>3, <2>1
      <3>2. Guarded(cd) /\ cdSeen.uid = cd.uid
        BY <1>0, <1>3, <3>1 DEF FinalizerInv, LiveViews
      <3> QED  BY <1>1, <3>1, <3>2 DEF WorkerKnows, Guarded
    <2>2. CASE Deleting'
      <3>1. pc' = "listAll"
        BY <1>3, <2>2
      <3>2. Stale(cdSeen) => ~cd.fin
        BY <1>0 DEF FinalizerInv, StaleViews
      <3>3. \A v \in Views : Evolves(cdSeen, v)
        BY <1>0, EvolvesSame DEF FinalizerInv, History, Views
      <3> QED
        BY <1>1, <1>2, <1>3, <3>1, <3>2, <3>3
           DEF WorkerKnows, Guarded, Stale, Evolves
    <2>3. CASE ~Serving' /\ ~Deleting'
      BY <2>3 DEF WorkerKnows
    <2> QED  BY <2>1, <2>2, <2>3
  <1> QED  BY <1>1, <1>2, <1>4, <1>5 DEF FinalizerInv

LEMMA AddFinalizerStep ==
    ASSUME FinalizerInv, TypeOK', AddFinalizer
    PROVE  FinalizerInv'
  <1>0. TypeOK /\ cd \in CD
    BY DEF FinalizerInv, TypeOK
  <1>1. cdSeen' = cdSeen /\ pc = "addFinalizer"
    BY DEF AddFinalizer
  <1>2. CASE UNCHANGED cdObj /\ Fail
    BY <1>1, <1>2, NoStore, QuietStep DEF Return
  <1>3. CASE cd.ex /\ StoreCD([cd EXCEPT !.fin = TRUE]) /\ mem' = cd' /\ pc' = "list"
    <2> DEFINE c == [cd EXCEPT !.fin = TRUE]
    <2>1. c \in CD /\ c.ex = cd.ex /\ c.uid = cd.uid /\ c.fin /\ c.del = cd.del
      BY <1>0, EditedCD DEF SameCD
    <2> HIDE DEF c
    <2>2. StoreCD(c)
      BY <1>3 DEF c
    <2>3. Evolves(cd, c)
      BY <1>0, <2>1, EvolvesSame
    <2>4. History' /\ Views' \subseteq Views \cup {cd'}
      BY <1>0, <1>1, <2>1, <2>2, <2>3, StoredHistory DEF FinalizerInv
    <2>5. cd'.ex /\ cd'.uid = cd.uid /\ cd'.fin
      BY <1>0, <1>3, <2>1, <2>2, StoreCDType
    (* No version is outdated, or the worker would not be here. *)
    <2>6. \A v \in Views : ~Stale(v)
      BY <1>1 DEF FinalizerInv, StaleViews
    <2>7. StaleViews'
      BY <2>4, <2>5, <2>6 DEF StaleViews, Stale, Guarded
    <2>8. LiveViews'
      BY <2>4, <2>5 DEF FinalizerInv, LiveViews, Guarded
    <2>9. WorkerKnows'
      BY <1>3, <2>5 DEF WorkerKnows, Guarded
    <2> QED  BY <2>4, <2>5, <2>7, <2>8, <2>9 DEF FinalizerInv
  <1> QED  BY <1>2, <1>3 DEF AddFinalizer

(* The finalizer comes off: every version that still asks for it becomes    *)
(* outdated, and so it must be what the worker reads next.                  *)
LEMMA RemoveFinalizerStep ==
    ASSUME FinalizerInv, TypeOK', RemoveFinalizer
    PROVE  FinalizerInv'
  <1>0. /\ TypeOK /\ cd \in CD /\ mem \in CD /\ cdSeen \in CD
        /\ Views \subseteq CD /\ cdSeen \in Views
    BY DEF FinalizerInv, TypeOK, Views
  <1>1. /\ cdSeen' = cdSeen /\ pc = "removeFinalizer" /\ pc' = "idle"
    BY DEF RemoveFinalizer, Return
  <1>2. CASE ~cd.ex
    <2>1. UNCHANGED cdObj
      BY <1>2 DEF RemoveFinalizer
    <2> QED  BY <1>1, <2>1, NoStore, QuietStep
  <1>3. CASE cd.ex
    <2> DEFINE c == [cd EXCEPT !.fin = FALSE]
    <2>1. c \in CD /\ c.ex = cd.ex /\ c.uid = cd.uid /\ ~c.fin /\ c.del = cd.del
      BY <1>0, EditedCD DEF SameCD
    <2> HIDE DEF c
    <2>2. StoreCD(c)
      BY <1>3 DEF RemoveFinalizer, c
    <2>3. Evolves(cd, c)
      BY <1>0, <2>1, EvolvesSame
    <2>4. History' /\ Views' \subseteq Views \cup {cd'}
      BY <1>0, <1>1, <2>1, <2>2, <2>3, StoredHistory DEF FinalizerInv
    <2>5. cd'.uid = cd.uid /\ ~cd'.fin
      BY <1>0, <2>1, <2>2, StoreCDType
    <2>6. /\ Guarded(mem) /\ mem.del /\ (Stale(mem) => ~cd.fin)
          /\ \A v \in Views : Evolves(mem, v)
      BY <1>1 DEF FinalizerInv, WorkerKnows
    <2>7. ASSUME NEW v \in Views, Guarded(v), v.del
          PROVE  cdSeen.ex /\ cdSeen.del /\ cdSeen.uid = v.uid
      <3>1. CASE Stale(v)
        BY <3>1 DEF FinalizerInv, StaleViews
      <3>2. CASE ~Stale(v)
        <4>1. Guarded(cd) /\ v.uid = cd.uid
          BY <2>7, <3>2 DEF Stale
        <4>2. mem.uid = cd.uid
          BY <2>6, <4>1 DEF Stale, Guarded
        <4>3. Evolves(mem, cdSeen) /\ Evolves(cdSeen, v)
          <5>1. cdSeen.rv <= v.rv
            BY <1>0, <2>7, CDFields DEF FinalizerInv, History, Views
          <5> QED  BY <1>0, <2>6, <5>1 DEF FinalizerInv, History
        <4>4. cdSeen.uid = v.uid
          BY <1>0, <4>1, <4>2, <4>3, CDFields DEF Evolves
        <4> QED  BY <2>6, <2>7, <4>1, <4>2, <4>3, <4>4 DEF Evolves, Guarded
      <3> QED  BY <3>1, <3>2
    <2>8. StaleViews'
      BY <1>1, <2>4, <2>5, <2>7 DEF StaleViews, Stale, Guarded
    <2>9. ASSUME NEW v \in Views, Guarded(v), ~v.del PROVE FALSE
      <3>1. Guarded(cd) /\ v.uid = cd.uid
        BY <2>9 DEF FinalizerInv, LiveViews
      <3>2. mem.uid = cd.uid
        BY <2>6, <3>1 DEF Stale, Guarded
      <3> QED  BY <2>6, <2>9, <3>1, <3>2 DEF Evolves, Guarded
    <2>10. LiveViews'
      BY <2>4, <2>5, <2>9 DEF LiveViews, Guarded
    <2>11. WorkerKnows'
      BY <1>1 DEF WorkerKnows
    <2> QED  BY <2>4, <2>5, <2>8, <2>10, <2>11 DEF FinalizerInv
  <1> QED  BY <1>2, <1>3

LEMMA SyncStep ==
    ASSUME FinalizerInv, TypeOK', SyncCD
    PROVE  FinalizerInv'
  <1>0. Views \subseteq CD /\ cd \in CD /\ cdSeen \in CD
    BY DEF FinalizerInv, TypeOK, Views
  <1>1. PICK v \in cdMissed : cdSeen' = v /\ cdMissed' = Later(cdMissed, v)
    BY DEF SyncCD
  <1>2. UNCHANGED <<cd, pc, mem>>
    BY DEF SyncCD
  <1>3. Views' \subseteq Views /\ v \in Views /\ \A w \in cdMissed' : v.rv <= w.rv
    BY <1>0, <1>1, CDFields DEF Views, Later
  <1>4. History'
    BY <1>1, <1>2, <1>3 DEF FinalizerInv, History, Evolves
  <1>5. StaleViews'
    <2> SUFFICES ASSUME NEW w \in Views', Stale(w)
                 PROVE  v.ex /\ v.del /\ v.uid = w.uid
      BY <1>1, <1>2, <1>3 DEF FinalizerInv, StaleViews, Stale, Guarded
    <2>0. w \in Views /\ cdSeen \in Views /\ w \in CD /\ v \in CD
      BY <1>0, <1>3 DEF Views
    <2>1. cdSeen.ex /\ cdSeen.del /\ cdSeen.uid = w.uid
      BY <2>0 DEF FinalizerInv, StaleViews
    <2>2. Evolves(cdSeen, v) /\ Evolves(v, w)
      <3>1. cdSeen.rv <= v.rv /\ v.rv <= w.rv
        BY <1>1, <1>3, <2>0, CDFields DEF FinalizerInv, History, Views
      <3> QED  BY <1>3, <2>0, <3>1 DEF FinalizerInv, History
    <2>3. v.uid = w.uid
      BY <1>0, <2>0, <2>1, <2>2, CDFields DEF Evolves
    <2> QED  BY <2>1, <2>2, <2>3 DEF Evolves, Stale, Guarded
  <1>6. LiveViews' /\ WorkerKnows'
    BY <1>2, <1>3 DEF FinalizerInv, LiveViews, WorkerKnows, Stale, Guarded, Evolves
  <1> QED  BY <1>2, <1>4, <1>5, <1>6 DEF FinalizerInv

LEMMA CrashStep ==
    ASSUME FinalizerInv, TypeOK', Crash
    PROVE  FinalizerInv'
  <1>0. cd \in CD
    BY DEF FinalizerInv, TypeOK
  <1>1. cd' = cd /\ pc' = "idle" /\ cdSeen' = cd /\ cdMissed' = {}
    BY DEF Crash, Return
  <1>2. Views' = {cd}
    BY <1>1 DEF Views
  <1>3. History'
    BY <1>0, <1>1, <1>2, CDFields DEF History, Evolves
  <1>4. StaleViews' /\ LiveViews' /\ WorkerKnows'
    BY <1>0, <1>1, <1>2 DEF FinalizerInv, StaleViews, LiveViews, WorkerKnows, Stale,
                            Guarded
  <1> QED  BY <1>1, <1>3, <1>4 DEF FinalizerInv

(* One ClusterDeployment goes and the next one comes: neither has the       *)
(* finalizer, so no version that has it can be live.                        *)
LEMMA NextObjectStep ==
    ASSUME FinalizerInv, TypeOK', HiveFinishes \/ RecreateCD
    PROVE  FinalizerInv'
  <1>0. /\ TypeOK /\ cd \in CD /\ mem \in CD /\ Views \subseteq CD
        /\ cd.uid \in Nat /\ cd.uid + 1 \in Nat /\ cd.rv \in Nat
    BY CDFields DEF FinalizerInv, TypeOK, Views
  <1>1. UNCHANGED <<cdSeen, pc, mem>>
    BY <1>0, CDEditFrame DEF CDEdit
  <1>2. ~cd.fin
    BY DEF FinalizerInv, HiveFinishes, RecreateCD
  <1>3. PICK c \in CD : StoreCD(c) /\ ~c.fin /\ Evolves(cd, c)
    <2>1. CASE HiveFinishes
      <3> DEFINE c == GoneCD(cd.uid, cd.rv)
      <3>1. c \in CD /\ ~c.fin /\ ~c.ex /\ c.uid = cd.uid
        BY <1>0, GoneTypes DEF GoneCD
      <3>2. StoreCD(c)
        BY <2>1 DEF HiveFinishes
      <3> HIDE DEF c
      <3>3. Evolves(cd, c)
        BY <1>0, <3>1 DEF Evolves
      <3> QED  BY <3>1, <3>2, <3>3
    <2>2. CASE RecreateCD
      <3>1. PICK c \in NewCDs(cd.uid + 1, cd.rv) : StoreCD(c)
        BY <2>2 DEF RecreateCD
      <3>2. c \in CD /\ ~c.fin /\ c.uid = cd.uid + 1
        BY <1>0, NewCDType
      <3>3. Evolves(cd, c)
        BY <1>0, <3>2 DEF Evolves
      <3> QED  BY <3>1, <3>2, <3>3
    <2> QED  BY <2>1, <2>2
  <1>4. History' /\ Views' \subseteq Views \cup {cd'}
    BY <1>0, <1>1, <1>3, StoredHistory DEF FinalizerInv
  <1>5. ~cd'.fin
    BY <1>0, <1>3, StoreCDType
  <1>6. StaleViews' /\ LiveViews'
    BY <1>1, <1>2, <1>4, <1>5
       DEF FinalizerInv, StaleViews, LiveViews, Stale, Guarded
  <1>7. WorkerKnows'
    <2>1. ~Serving
      BY <1>2 DEF FinalizerInv, WorkerKnows, Guarded
    <2>2. CASE Deleting
      <3>1. \A v \in Views' : Evolves(mem, v)
        BY <1>1, <1>4, <2>2, MemEvolves DEF FinalizerInv, WorkerKnows
      <3> QED
        BY <1>1, <1>5, <2>1, <2>2, <3>1
           DEF FinalizerInv, WorkerKnows, Guarded, Evolves
    <2>3. CASE ~Deleting
      BY <1>1, <2>1, <2>3 DEF WorkerKnows
    <2> QED  BY <2>2, <2>3
  <1> QED  BY <1>4, <1>5, <1>6, <1>7 DEF FinalizerInv

LEMMA FinalizerStep == FinalizerInv /\ [Next]_vars => FinalizerInv'
  <1> SUFFICES ASSUME FinalizerInv, [Next]_vars PROVE FinalizerInv'
    OBVIOUS
  <1>0. TypeOK'
    BY NextType DEF FinalizerInv
  <1>1. CASE Worker
    BY <1>0, <1>1, StartStep, AddFinalizerStep, QuietCalls, RemoveFinalizerStep
       DEF Worker
  <1>2. CASE ApiError
    BY <1>0, <1>2, QuietCalls
  <1>3. CASE Crash
    BY <1>0, <1>3, CrashStep
  <1>4. CASE SyncCD
    BY <1>0, <1>4, SyncStep
  <1>5. CASE SyncCRs \/ Resync \/ OthersWriteCR
    BY <1>0, <1>5, QuietOthers
  <1>6. CASE CDEdit
    BY <1>0, <1>6, QuietCDEdits, NextObjectStep DEF CDEdit
  <1>7. CASE UNCHANGED vars
    BY <1>0, <1>7, NoStore, QuietStep DEF vars
  <1> QED
    BY <1>1, <1>2, <1>3, <1>4, <1>5, <1>6, <1>7, NextCases

LEMMA FinalizerInit == Init => FinalizerInv
  <1> SUFFICES ASSUME Init PROVE FinalizerInv
    OBVIOUS
  <1>1. TypeOK
    BY InitType
  <1>2. cd \in CD /\ cd.ex /\ ~cd.fin /\ cd.uid = 1 /\ cd.rv = 1
    BY NewCDType DEF Init
  <1>3. /\ ~cdSeen.ex /\ cdSeen.uid = 0 /\ cdSeen.rv = 0 /\ cdMissed = {cd}
        /\ pc = "idle"
    BY DEF Init, GoneCD
  <1>4. History
    BY <1>2, <1>3 DEF History, Views, Evolves
  <1>5. StaleViews /\ LiveViews /\ WorkerKnows
    BY <1>2, <1>3 DEF StaleViews, LiveViews, WorkerKnows, Views, Stale, Guarded
  <1> QED  BY <1>1, <1>2, <1>4, <1>5 DEF FinalizerInv

(* The inductive invariant: however far the cache is behind, the worker     *)
(* serves only the ClusterDeployment that is there and has the finalizer,   *)
(* and a clean-up for an earlier one finds no finalizer to take off.        *)
THEOREM FinalizerInductive == Spec => []FinalizerInv
  BY FinalizerInit, FinalizerStep, PTL DEF Spec

-----------------------------------------------------------------------------
(* Who writes CertificateRequests.  A write keeps the versions to be        *)
(* delivered in order, and nobody but Create makes an object appear.        *)

AllFade ==
    \A n \in Names : crs'[n].ex => crs[n].ex /\ (crs[n].del => crs'[n].del)

LEMMA FadingStore ==
    ASSUME TypeOK, NEW n \in Names, NEW c \in CR, StoreCR(n, c), Fades(n, c)
    PROVE  AllFade
  <1>1. crs'[n].ex => crs[n].ex /\ (crs[n].del => crs'[n].del)
    BY StoreCRType DEF Fades
  <1>2. \A m \in Names \ {n} : crs'[m] = crs[m]
    BY StoreCRType
  <1> QED  BY <1>1, <1>2 DEF AllFade

LEMMA NoFade ==
    ASSUME crs' = crs
    PROVE  AllFade
  BY DEF AllFade

LEMMA DeleteOneStores ==
    ASSUME TypeOK, NEW n \in Names, DeleteOne(n)
    PROVE  \/ crs' = crs /\ crsMissed' = crsMissed /\ pc' = "idle"
           \/ /\ \E c \in CR : StoreCR(n, c) /\ Fades(n, c)
              /\ crs'[n].ex => crs'[n].del
              /\ listed' = listed \ {n} /\ pc' = pc
  <1>1. CASE crs[n].ex
    <2>1. crs[n] \in CR
      BY DEF TypeOK
    <2>2. /\ Deleted(crs[n]) \in CR /\ Fades(n, Deleted(crs[n]))
          /\ Deleted(crs[n]).ex => Deleted(crs[n]).del
      BY <2>1, DeletedCR DEF Fades
    <2>3. StoreCR(n, Deleted(crs[n])) /\ listed' = listed \ {n} /\ pc' = pc
      BY <1>1 DEF DeleteOne
    <2>4. crs'[n].ex => crs'[n].del
      BY <2>2, <2>3, StoreCRType
    <2> QED  BY <2>2, <2>3, <2>4
  <1>2. CASE ~crs[n].ex
    BY <1>2 DEF DeleteOne, Return
  <1> QED  BY <1>1, <1>2

LEMMA UpdateStores ==
    ASSUME TypeOK, Update
    PROVE  \/ crs' = crs /\ crsMissed' = crsMissed
           \/ \E n \in Names : \E c \in CR : StoreCR(n, c) /\ Fades(n, c)
  <1>1. PICK b \in bundle :
            \/ UNCHANGED crObjs
            \/ StoreCR(CRName[b],
                       [crs[CRName[b]] EXCEPT !.names = getDomainsForCertBundle(mem, b)])
    BY DEF Update
  <1> DEFINE n == CRName[b]
             c == [crs[n] EXCEPT !.names = getDomainsForCertBundle(mem, b)]
  <1>2. n \in Names
    BY CRNameType DEF TypeOK
  <1>3. crs[n] \in CR
    BY <1>2 DEF TypeOK
  <1>4. c \in CR /\ c.ex = crs[n].ex /\ c.del = crs[n].del
    BY <1>3, DomainsKnown, EditedCR
  <1>5. UNCHANGED crObjs \/ StoreCR(n, c)
    BY <1>1
  <1> HIDE DEF n, c
  <1> QED  BY <1>2, <1>4, <1>5 DEF Fades

LEMMA CreateStores ==
    ASSUME TypeOK, Create
    PROVE  \/ crs' = crs /\ crsMissed' = crsMissed
           \/ \E n \in Names : \E c \in CR : StoreCR(n, c) /\ c.owner = mem.uid
  <1>1. PICK b \in bundle :
            \/ UNCHANGED crObjs
            \/ StoreCR(CRName[b], NewCR(crs[CRName[b]], mem.uid,
                                        getDomainsForCertBundle(mem, b)))
    BY DEF Create
  <1> DEFINE n == CRName[b]
             c == NewCR(crs[n], mem.uid, getDomainsForCertBundle(mem, b))
  <1>2. n \in Names /\ mem.uid \in Nat
    BY CRNameType, CDFields DEF TypeOK
  <1>3. crs[n] \in CR
    BY <1>2 DEF TypeOK
  <1>4. c \in CR /\ c.owner = mem.uid
    BY <1>2, <1>3, DomainsKnown, NewCRType
  <1>5. UNCHANGED crObjs \/ StoreCR(n, c)
    BY <1>1
  <1> HIDE DEF n, c
  <1> QED  BY <1>2, <1>4, <1>5

LEMMA OnlyCreateCreates ==
    ASSUME TypeOK, [Next]_vars
    PROVE  Create \/ AllFade
  <1>1. CASE Update
    BY <1>1, UpdateStores, FadingStore, NoFade
  <1>2. ASSUME NEW n \in Names, DeleteOne(n) PROVE AllFade
    BY <1>2, DeleteOneStores, FadingStore, NoFade
  <1>3. CASE Prune
    BY <1>2, <1>3, NoFade DEF Prune, TypeOK
  <1>4. CASE DeleteAll
    BY <1>2, <1>4, NoFade DEF DeleteAll, TypeOK
  <1>5. CASE OthersWriteCR
    BY <1>5, OthersOnlyFade, FadingStore
  <1>6. CASE StartReconcile \/ AddFinalizer \/ List \/ Sync \/ ListAll \/ RemoveFinalizer
               \/ ApiError \/ Crash
    BY <1>6, NoFade DEF StartReconcile, AddFinalizer, List, Sync, ListAll,
                        RemoveFinalizer, ApiError, Crash
  <1>7. CASE SyncCD \/ SyncCRs \/ Resync
    BY <1>7, NoFade DEF SyncCD, SyncCRs, Resync
  <1>8. CASE CDEdit
    BY <1>8, NoFade, CDEditFrame
  <1>9. CASE UNCHANGED vars
    BY <1>9, NoFade DEF vars
  <1> QED
    BY <1>1, <1>3, <1>4, <1>5, <1>6, <1>7, <1>8, <1>9, NextCases DEF Worker

(* Every CertificateRequest is created for the ClusterDeployment that is    *)
(* there at that moment and has certman's finalizer on it, although the     *)
(* worker decided to create it on a cached copy that may be any number of   *)
(* versions old, of this object or of an earlier one of the same name.      *)
THEOREM CreatedUnderFinalizer == Spec => CreatesUnderFinalizer
  <1>1. FinalizerInv /\ [Next]_vars =>
            [\A n \in Names : (crs'[n].ex /\ ~crs[n].ex)
                 => cd.ex /\ cd.fin /\ crs'[n].owner = cd.uid]_vars
    <2> SUFFICES ASSUME FinalizerInv, [Next]_vars, NEW n \in Names,
                        crs'[n].ex, ~crs[n].ex
                 PROVE  cd.ex /\ cd.fin /\ crs'[n].owner = cd.uid
      OBVIOUS
    <2>0. TypeOK
      BY DEF FinalizerInv
    <2>1. Create
      BY <2>0, OnlyCreateCreates DEF AllFade
    <2>2. cd.ex /\ cd.fin /\ mem.uid = cd.uid
      BY <2>1 DEF Create, FinalizerInv, WorkerKnows, Guarded
    <2>3. PICK m \in Names : \E c \in CR : StoreCR(m, c) /\ c.owner = mem.uid
      BY <2>0, <2>1, CreateStores
    <2>4. PICK c \in CR : StoreCR(m, c) /\ c.owner = mem.uid
      BY <2>3
    <2>5. m = n /\ crs'[n].owner = mem.uid
      BY <2>0, <2>4, StoreCRType
    <2> QED  BY <2>2, <2>5
  <1> QED  BY <1>1, FinalizerInductive, PTL DEF CreatesUnderFinalizer, Spec

-----------------------------------------------------------------------------
(* The clean-up is complete when the cache is current. *)

LEMMA StoredCRHistory ==
    ASSUME TypeOK, \A m \in Names : CRHistory(m), crsSeen' = crsSeen,
           NEW n \in Names, NEW c \in CR, StoreCR(n, c)
    PROVE  \A m \in Names : CRHistory(m)'
  <1> SUFFICES ASSUME NEW m \in Names PROVE CRHistory(m)'
    OBVIOUS
  <1>0. CRHistory(m)
    OBVIOUS
  <1>1. CASE crs'[m] = crs[m] /\ crsMissed'[m] = crsMissed[m]
    BY <1>0, <1>1 DEF CRHistory
  <1>2. CASE /\ crs'[m].rv = crs[m].rv + 1
             /\ crsMissed'[m] = crsMissed[m] \cup {crs'[m]}
    <2>1. crs[m].rv \in Nat /\ \A v \in crsMissed[m] : v.rv \in Nat
      BY CRFields DEF TypeOK
    <2>2. \A v \in crsMissed[m] : v.rv <= crs[m].rv
      BY <1>0, <2>1 DEF CRHistory
    <2>3. \A v \in crsMissed'[m] : v.rv < crs'[m].rv \/ v = crs'[m]
      BY <1>2, <2>1, <2>2
    <2> QED  BY <1>2, <2>3 DEF CRHistory
  <1> QED  BY <1>1, <1>2, StoreCRType

LEMMA SyncedCRHistory ==
    ASSUME TypeOK, \A m \in Names : CRHistory(m), SyncCRs
    PROVE  \A m \in Names : CRHistory(m)'
  <1>1. PICK n \in Names : \E v \in crsMissed[n] :
            /\ crsSeen' = [crsSeen EXCEPT ![n] = v]
            /\ crsMissed' = [crsMissed EXCEPT ![n] = Later(@, v)]
    BY DEF SyncCRs
  <1>2. PICK v \in crsMissed[n] :
            /\ crsSeen' = [crsSeen EXCEPT ![n] = v]
            /\ crsMissed' = [crsMissed EXCEPT ![n] = Later(@, v)]
    BY <1>1
  <1>3. /\ crs' = crs /\ crsSeen'[n] = v /\ crsMissed'[n] = Later(crsMissed[n], v)
        /\ \A m \in Names \ {n} : /\ crsSeen'[m] = crsSeen[m]
                                  /\ crsMissed'[m] = crsMissed[m]
    BY <1>2 DEF SyncCRs, TypeOK
  <1>4. \A m \in Names \ {n} : CRHistory(m)'
    BY <1>3 DEF CRHistory
  <1>5. CRHistory(n)'
    <2>1. /\ crs[n] \in crsMissed[n]
          /\ \A w \in crsMissed[n] : w.rv < crs[n].rv \/ w = crs[n]
      BY <1>2 DEF CRHistory
    <2>2. \A w \in crsMissed[n] : w.rv \in Nat
      BY CRFields DEF TypeOK
    <2>3. CASE v = crs[n]
      <3>1. crsMissed'[n] = {}
        BY <1>3, <2>1, <2>2, <2>3 DEF Later
      <3> QED  BY <1>3, <2>3, <3>1 DEF CRHistory
    <2>4. CASE v # crs[n]
      <3>1. crs[n] \in crsMissed'[n]
        BY <1>3, <2>1, <2>4 DEF Later
      <3>2. \A w \in crsMissed'[n] : w.rv < crs[n].rv \/ w = crs[n]
        BY <1>3, <2>1 DEF Later
      <3> QED  BY <1>3, <3>1, <3>2 DEF CRHistory
    <2> QED  BY <2>3, <2>4
  <1> QED  BY <1>4, <1>5

LEMMA CRHistoryStep ==
    ASSUME TypeOK, \A n \in Names : CRHistory(n), [Next]_vars
    PROVE  \A n \in Names : CRHistory(n)'
  <1>0. ASSUME UNCHANGED <<crs, crsMissed, crsSeen>>
        PROVE  \A n \in Names : CRHistory(n)'
    BY <1>0 DEF CRHistory
  <1>1. CASE Update
    BY <1>0, <1>1, UpdateStores, StoredCRHistory DEF Update
  <1>2. CASE Create
    BY <1>0, <1>2, CreateStores, StoredCRHistory DEF Create
  <1>3. ASSUME NEW n \in Names, DeleteOne(n), crsSeen' = crsSeen
        PROVE  \A m \in Names : CRHistory(m)'
    BY <1>0, <1>3, DeleteOneStores, StoredCRHistory
  <1>4. CASE Prune
    BY <1>0, <1>3, <1>4 DEF Prune, TypeOK
  <1>5. CASE DeleteAll
    BY <1>0, <1>3, <1>5 DEF DeleteAll, TypeOK
  <1>6. CASE OthersWriteCR
    BY <1>6, OthersOnlyFade, OthersWriteCRFrame, StoredCRHistory
  <1>7. CASE StartReconcile \/ AddFinalizer \/ List \/ Sync \/ ListAll
               \/ RemoveFinalizer \/ ApiError
    BY <1>0, <1>7 DEF StartReconcile, AddFinalizer, List, Sync, ListAll,
                      RemoveFinalizer, ApiError
  <1>8. CASE Crash
    BY <1>8 DEF Crash, CRHistory
  <1>9. CASE SyncCRs
    BY <1>9, SyncedCRHistory
  <1>10. CASE SyncCD \/ Resync
    BY <1>0, <1>10 DEF SyncCD, Resync
  <1>11. CASE CDEdit
    BY <1>0, <1>11, CDEditFrame
  <1>12. CASE UNCHANGED vars
    BY <1>0, <1>12 DEF vars
  <1> QED
    BY <1>1, <1>2, <1>4, <1>5, <1>6, <1>7, <1>8, <1>9, <1>10, <1>11, <1>12, NextCases
       DEF Worker

(* What fades does not come back. *)
LEMMA StillLeaving ==
    ASSUME AllFade, NEW n \in Names, Leaving(n)
    PROVE  Leaving(n)'
  BY DEF AllFade, Leaving

LEMMA CleanUpKnownStep ==
    ASSUME TypeOK, \A n \in Names : CRHistory(n), ~CacheLags, CleanUpKnown, [Next]_vars
    PROVE  CleanUpKnown'
  <1>0. ASSUME pc' \notin {"deleteAll", "removeFinalizer"} PROVE CleanUpKnown'
    BY <1>0 DEF CleanUpKnown
  <1>1. ASSUME UNCHANGED <<pc, listed>>, ~Create PROVE CleanUpKnown'
    BY <1>1, OnlyCreateCreates, StillLeaving DEF CleanUpKnown
  <1>2. CASE StartReconcile
    BY <1>0, <1>2 DEF StartReconcile, FirstCall, Skipped, TypeOK, CD
  <1>3. CASE AddFinalizer \/ List \/ RemoveFinalizer
    BY <1>0, <1>3 DEF AddFinalizer, List, RemoveFinalizer, Return
  <1>4. CASE Sync
    BY <1>0, <1>4 DEF Sync, Visit, Return
  <1>5. CASE Create \/ Update
    BY <1>0, <1>5 DEF Create, Update, BackToSync
  <1>6. CASE Prune
    BY <1>0, <1>6 DEF Prune, DeleteOne, Return
  <1>7. CASE ListAll
    <2>1. \A n \in Names : crsSeen[n] = crs[n]
      BY <1>7 DEF ListAll, CacheRead, CRHistory
    <2>2. pc' = "deleteAll" /\ listed' = {n \in Names : crs[n].ex} /\ crs' = crs
      BY <1>7, <2>1 DEF ListAll, CurrentCRs
    <2> QED  BY <2>2 DEF CleanUpKnown, Leaving
  <1>8. CASE DeleteAll
    <2>0. ~Create /\ pc = "deleteAll"
      BY <1>8 DEF DeleteAll, Create
    <2>1. AllFade
      BY <2>0, OnlyCreateCreates
    <2>2. CASE \E n \in listed : DeleteOne(n)
      <3>1. PICK n \in listed : DeleteOne(n)
        BY <2>2
      <3>2. n \in Names
        BY DEF TypeOK
      <3>3. CASE pc' = "idle"
        BY <1>0, <3>3
      <3>4. CASE (crs'[n].ex => crs'[n].del) /\ listed' = listed \ {n} /\ pc' = pc
        <4>1. \A m \in Names \ listed : Leaving(m)'
          BY <2>0, <2>1, StillLeaving DEF CleanUpKnown
        <4>2. Leaving(n)'
          BY <3>4 DEF Leaving
        <4> QED  BY <2>0, <3>4, <4>1, <4>2 DEF CleanUpKnown
      <3> QED  BY <3>1, <3>2, <3>3, <3>4, DeleteOneStores
    <2>3. CASE listed = {} /\ pc' = "removeFinalizer"
      BY <2>0, <2>1, <2>3, StillLeaving DEF CleanUpKnown
    <2> QED  BY <1>8, <2>2, <2>3 DEF DeleteAll
  <1>9. CASE ApiError
    BY <1>0, <1>9 DEF ApiError, BackToSync, Return
  <1>10. CASE Crash
    BY <1>0, <1>10 DEF Crash, Return
  <1>11. CASE ~Create /\ (SyncCD \/ SyncCRs \/ Resync)
    BY <1>1, <1>11 DEF SyncCD, SyncCRs, Resync
  <1>12. CASE ~Create /\ (OthersWriteCR \/ CDEdit)
    BY <1>1, <1>12, OthersWriteCRFrame, CDEditFrame
  <1>13. CASE ~Create /\ UNCHANGED vars
    BY <1>1, <1>13 DEF vars
  <1> QED
    BY <1>2, <1>3, <1>4, <1>5, <1>6, <1>7, <1>8, <1>9, <1>10, <1>11, <1>12, <1>13,
       NextCases DEF Worker

(* The informer's versions of a CertificateRequest end with the stored one, *)
(* and with a current cache what handleDelete has not listed, or has dealt  *)
(* with, is gone or going.                                                  *)
THEOREM CleanUpInductive == Spec => []CleanUpInv
  <1>1. Init => CleanUpInv
    BY DEF Init, CleanUpInv, CRHistory, CleanUpKnown
  <1>2. TypeOK /\ CleanUpInv /\ [Next]_vars => CleanUpInv'
    BY CRHistoryStep, CleanUpKnownStep DEF CleanUpInv
  <1> QED  BY <1>1, <1>2, TypeCorrect, PTL DEF Spec

LEMMA FinalizerComesOff ==
    ASSUME FinalizerInv, [Next]_vars, cd.fin, ~cd'.fin
    PROVE  RemoveFinalizer
  <1>0. TypeOK /\ cd \in CD /\ cd' # cd /\ cd.ex
    BY DEF FinalizerInv, TypeOK
  <1>1. ASSUME NEW c \in CD, StoreCD(c), c.fin PROVE FALSE
    BY <1>0, <1>1, StoreCDType
  <1>2. CASE AddFinalizer
    BY <1>0, <1>1, <1>2, EditedCD DEF AddFinalizer
  <1>3. CASE QuietEdit
    BY <1>0, <1>1, <1>3, QuietEdits DEF Quiet
  <1>4. CASE DeleteCD
    BY <1>0, <1>1, <1>4, EditedCD DEF DeleteCD
  <1>5. CASE RecreateCD
    BY <1>0, <1>5 DEF RecreateCD
  <1>6. CASE HiveFinishes
    BY <1>6 DEF HiveFinishes
  <1>7. CASE StartReconcile \/ List \/ Sync \/ Create \/ Update \/ Prune \/ ListAll
               \/ DeleteAll \/ ApiError \/ Crash
    BY <1>0, <1>7 DEF StartReconcile, List, Sync, Create, Update, Prune, ListAll,
                      DeleteAll, ApiError, Crash
  <1>8. CASE SyncCD \/ SyncCRs \/ Resync \/ OthersWriteCR
    BY <1>0, <1>8, OthersWriteCRFrame DEF SyncCD, SyncCRs, Resync
  <1>9. CASE UNCHANGED vars
    BY <1>0, <1>9 DEF vars
  <1> QED
    BY <1>2, <1>3, <1>4, <1>5, <1>6, <1>7, <1>8, <1>9, NextCases DEF Worker, CDEdit

(* With a current cache the finalizer comes off the ClusterDeployment only  *)
(* when the deletion of every CertificateRequest of the namespace has been  *)
(* asked for, although handleDelete lists them once and deletes them one    *)
(* call at a time.                                                          *)
THEOREM CleansUpFirst == ~CacheLags => (Spec => CleanedUpFirst)
  <1> SUFFICES ASSUME ~CacheLags PROVE Spec => CleanedUpFirst
    OBVIOUS
  <1>1. FinalizerInv /\ CleanUpInv /\ [Next]_vars =>
            [(cd.fin /\ ~cd'.fin) => \A n \in Names : crs[n].ex => crs[n].del]_vars
    <2> SUFFICES ASSUME FinalizerInv, CleanUpInv, [Next]_vars, cd.fin, ~cd'.fin
                 PROVE  \A n \in Names : crs[n].ex => crs[n].del
      OBVIOUS
    <2>1. pc = "removeFinalizer"
      BY FinalizerComesOff DEF RemoveFinalizer
    <2> QED  BY <2>1 DEF CleanUpInv, CleanUpKnown, Leaving
  <1> QED  BY <1>1, CleanUpInductive, FinalizerInductive, PTL DEF CleanedUpFirst, Spec
=============================================================================
