---------------------- MODULE CertificateRequest_proofs ----------------------
(***************************************************************************)
(* Proofs about CertificateRequest for every set of names, every bound and *)
(* every choice of what the environment may do.                            *)
(***************************************************************************)
EXTENDS CertificateRequest, TLAPS

-----------------------------------------------------------------------------
(* Types. *)

LEMMA CertRefs == Nat \subseteq CertRef /\ NoCert \in CertRef /\ ForeignCert \in CertRef
  BY DEF CertRef, NoCert, ForeignCert

LEMMA ObjectTypes ==
    /\ \A u, r \in Nat : GoneCR(u, r) \in CR
    /\ \A u, r \in Nat, names \in SUBSET Domains : NewCR(u, r, names) \in CR
    /\ \A r \in Nat : GoneSecret(r) \in Secret
  BY CertRefs DEF GoneCR, NewCR, GoneSecret, CR, Secret, Status, NewStatus, Phase

LEMMA CRFields ==
    ASSUME NEW c \in CR
    PROVE  /\ c.uid \in Nat /\ c.rv \in Nat /\ c.names \subseteq Domains
           /\ c.ex \in BOOLEAN /\ c.del \in BOOLEAN /\ c.fin \in BOOLEAN
           /\ c.uid + 1 \in Nat /\ c.rv + 1 \in Nat
  BY DEF CR

LEMMA StoreCRType ==
    ASSUME TypeOK, NEW c \in CR, StoreCR(c)
    PROVE  cr' \in CR /\ crMissed' \subseteq CR
  <1>1. CASE c = cr
    BY <1>1 DEF StoreCR, TypeOK, crObj
  <1>2. CASE c # cr
    <2>1. cr.rv + 1 \in Nat
      BY DEF TypeOK, CR
    <2>2. cr' = [c EXCEPT !.rv = cr.rv + 1] /\ crMissed' = crMissed \cup {cr'}
      BY <1>2 DEF StoreCR
    <2> QED  BY <2>1, <2>2 DEF TypeOK, CR
  <1> QED  BY <1>1, <1>2

LEMMA StoreSecretType ==
    ASSUME TypeOK, NEW s \in Secret, StoreSecret(s)
    PROVE  sec' \in Secret /\ secMissed' \subseteq Secret
  <1>1. sec.rv + 1 \in Nat
    BY DEF TypeOK, Secret
  <1>2. sec' \in Secret
    BY <1>1 DEF StoreSecret, Secret
  <1> QED  BY <1>2 DEF StoreSecret, TypeOK

LEMMA ReturnType ==
    ASSUME TypeOK, Return
    PROVE  pc' \in PC /\ mem' \in CR /\ found' \in Secret /\ reissue' \in BOOLEAN
  BY ObjectTypes DEF Return, PC

LEMMA HoldsCertType ==
    ASSUME TypeOK, NEW o \in Nat, NEW n \in CertRef
    PROVE  HoldsCert(o, n) \in Secret
  BY DEF HoldsCert, TypeOK, Secret

LEMMA IssuedType ==
    ASSUME TypeOK, Issued
    PROVE  certs' \in Seq(Cert)
  <1>1. [names |-> mem.names, for |-> mem.uid] \in Cert
    BY DEF TypeOK, CR, Cert
  <1> QED  BY <1>1 DEF Issued, TypeOK

(* The three ways in which the environment and the worker edit a CR. *)
LEMMA EditedCRType ==
    ASSUME NEW c \in CR
    PROVE  /\ \A b \in BOOLEAN : [c EXCEPT !.fin = b] \in CR
           /\ \A b \in BOOLEAN : [c EXCEPT !.own = b] \in CR
           /\ \A b \in BOOLEAN : [c EXCEPT !.del = b] \in CR
           /\ \A names \in SUBSET Domains : [c EXCEPT !.names = names] \in CR
           /\ \A acme \in BOOLEAN :
                  [c EXCEPT !.st.issued = FALSE, !.st.phase = "Error",
                            !.st.acmeError = @ \/ acme] \in CR
           /\ \A n \in CertRef :
                  [c EXCEPT !.st.issued = TRUE, !.st.phase = "Success",
                            !.st.cert = n] \in CR
  BY DEF CR, Status, Phase

USE DEF api, crObj, secObj, seen, ca, locals, worker, budget,
        Step, Goto, Finish, Fail, GotoOrFail, FinishOrFail

LEMMA WorkerType ==
    ASSUME TypeOK, Worker
    PROVE  TypeOK'
  <1>1. CASE StartReconcile
    <2>1. FirstCall(crSeen) \in PC
      BY DEF FirstCall, PC, TypeOK, CR
    <2> QED  BY <1>1, <2>1 DEF StartReconcile, TypeOK
  <1>2. CASE AddFinalizer
    <2>1. [cr EXCEPT !.fin = TRUE] \in CR
      BY EditedCRType DEF TypeOK
    <2> QED  BY <1>2, <2>1, StoreCRType, ReturnType DEF AddFinalizer, TypeOK, PC
  <1>3. CASE FindOwner
    BY <1>3, ReturnType DEF FindOwner, TypeOK, PC
  <1>4. CASE SetOwner
    <2>1. [cr EXCEPT !.own = TRUE] \in CR
      BY EditedCRType DEF TypeOK
    <2> QED  BY <1>4, <2>1, StoreCRType, ReturnType DEF SetOwner, TypeOK, PC
  <1>5. CASE BailOut
    BY <1>5, ReturnType DEF BailOut, ReportRelocation, TypeOK, PC
  <1>6. CASE GetSecret
    BY <1>6 DEF GetSecret, TypeOK, PC
  <1>7. CASE ShouldReissue
    <2>1. NeedsReissue(secSeen.cert) \in BOOLEAN
      BY DEF NeedsReissue
    <2> QED  BY <1>7, <2>1, ReturnType DEF ShouldReissue, TypeOK, PC
  <1>8. CASE BailOutAgain
    BY <1>8, ReturnType DEF BailOutAgain, ReportRelocation, TypeOK, PC
  <1>9. CASE IssueCertificate
    BY <1>9, IssuedType DEF IssueCertificate, TypeOK, PC
  <1>10. CASE IssueFails
    <2>1. certs' \in Seq(Cert) /\ edits' \in Nat /\ faults' \in Nat
      BY <1>10, IssuedType DEF IssueFails, Fault, TypeOK
    <2> QED  BY <1>10, <2>1, ReturnType DEF IssueFails, TypeOK, PC
  <1>11. CASE UpdateStatusError
    <2>1. cr' \in CR /\ crMissed' \subseteq CR
      <3>1. PICK acme \in BOOLEAN :
               IF Fresh
               THEN StoreCR([cr EXCEPT !.st.issued = FALSE, !.st.phase = "Error",
                                       !.st.acmeError = @ \/ acme])
               ELSE UNCHANGED crObj
        BY <1>11 DEF UpdateStatusError
      <3>2. [cr EXCEPT !.st.issued = FALSE, !.st.phase = "Error",
                       !.st.acmeError = @ \/ acme] \in CR
        BY EditedCRType DEF TypeOK
      <3> QED  BY <3>1, <3>2, StoreCRType DEF TypeOK
    <2> QED  BY <1>11, <2>1, ReturnType DEF UpdateStatusError, TypeOK, PC
  <1>12. CASE CreateSecret
    <2>1. HoldsCert(mem.uid, NewestCert) \in Secret
      BY HoldsCertType, CertRefs DEF NewestCert, TypeOK, CR
    <2> QED  BY <1>12, <2>1, StoreSecretType DEF CreateSecret, TypeOK, PC
  <1>13. CASE UpdateSecret
    <2>1. HoldsCert(found.owner, NewestCert) \in Secret
      BY HoldsCertType, CertRefs DEF NewestCert, TypeOK, Secret
    <2> QED  BY <1>13, <2>1, StoreSecretType, ReturnType DEF UpdateSecret, TypeOK, PC
  <1>14. CASE UpdateStatus
    <2>1. [cr EXCEPT !.st.issued = TRUE, !.st.phase = "Success",
                     !.st.cert = secSeen.cert] \in CR
      BY EditedCRType DEF TypeOK, Secret
    <2>2. cr' \in CR /\ crMissed' \subseteq CR
      BY <1>14, <2>1, StoreCRType DEF UpdateStatus, TypeOK
    <2> QED  BY <1>14, <2>2, ReturnType DEF UpdateStatus, TypeOK, PC
  <1>15. CASE SecretExists
    BY <1>15 DEF SecretExists, TypeOK, PC
  <1>16. CASE RevokeCertificate
    <2>1. secSeen.cert \in CertRef
      BY DEF TypeOK, Secret
    <2>2. revoked' \subseteq Nat
      BY <1>16, <2>1 DEF RevokeCertificate, IsCertificateIssuerLE, CertRef, TypeOK
    <2> QED  BY <1>16, <2>2, ReturnType DEF RevokeCertificate, TypeOK, PC
  <1>17. CASE RemoveFinalizer
    <2>1. [cr EXCEPT !.fin = FALSE] \in CR /\ GoneCR(cr.uid, cr.rv) \in CR
      BY EditedCRType, ObjectTypes, CRFields DEF TypeOK
    <2>2. \/ UNCHANGED crObj
          \/ StoreCR(GoneCR(cr.uid, cr.rv))
          \/ StoreCR([cr EXCEPT !.fin = FALSE])
      BY <1>17 DEF RemoveFinalizer, TypeOK, CR
    <2>3. cr' \in CR /\ crMissed' \subseteq CR
      BY <2>1, <2>2, StoreCRType DEF TypeOK
    <2> QED  BY <1>17, <2>3, ReturnType DEF RemoveFinalizer, TypeOK, PC
  <1> QED
    BY <1>1, <1>2, <1>3, <1>4, <1>5, <1>6, <1>7, <1>8, <1>9, <1>10, <1>11,
       <1>12, <1>13, <1>14, <1>15, <1>16, <1>17 DEF Worker

LEMMA FaultType ==
    ASSUME TypeOK, ApiError \/ Crash
    PROVE  TypeOK'
  <1>1. faults' \in Nat /\ edits' \in Nat
    BY DEF ApiError, Crash, Fault, TypeOK
  <1>2. Return /\ queued' \in BOOLEAN
    BY DEF ApiError, Crash, TypeOK
  <1> QED  BY <1>1, <1>2, ReturnType DEF ApiError, Crash, TypeOK

LEMMA MachineryType ==
    ASSUME TypeOK, Machinery
    PROVE  TypeOK'
  <1>1. CASE SyncCR
    BY <1>1 DEF SyncCR, Later, TypeOK
  <1>2. CASE SyncSecret
    BY <1>2 DEF SyncSecret, Later, TypeOK
  <1>3. CASE Resync
    BY <1>3 DEF Resync, TypeOK
  <1>4. CASE CollectSecret
    <2>1. GoneSecret(sec.rv) \in Secret
      BY ObjectTypes DEF TypeOK, Secret
    <2> QED  BY <1>4, <2>1, StoreSecretType DEF CollectSecret, TypeOK
  <1> QED  BY <1>1, <1>2, <1>3, <1>4 DEF Machinery

LEMMA EnvironmentType ==
    ASSUME TypeOK, Environment
    PROVE  TypeOK'
  <1>a. edits' \in Nat /\ UNCHANGED <<seen, certs, revoked, worker, faults>>
    BY DEF Environment, DeleteCR, RecreateCR, EditSpec, DropOwner, DropSecret,
           EmptySecret, ReplaceCert, Relocate, LoseCD, Age, Edit, TypeOK
  <1>1. CASE DeleteCR
    <2>1. [cr EXCEPT !.del = TRUE] \in CR /\ GoneCR(cr.uid, cr.rv) \in CR
      BY EditedCRType, ObjectTypes, CRFields DEF TypeOK
    <2> QED  BY <1>a, <1>1, <2>1, StoreCRType DEF DeleteCR, TypeOK
  <1>2. CASE RecreateCR
    <2>1. PICK names \in SUBSET Domains : StoreCR(NewCR(cr.uid + 1, cr.rv, names))
      BY <1>2 DEF RecreateCR
    <2>2. NewCR(cr.uid + 1, cr.rv, names) \in CR
      BY ObjectTypes, CRFields DEF TypeOK
    <2> QED  BY <1>a, <1>2, <2>1, <2>2, StoreCRType DEF RecreateCR, TypeOK
  <1>3. CASE EditSpec
    <2>1. PICK names \in SUBSET Domains : StoreCR([cr EXCEPT !.names = names])
      BY <1>3 DEF EditSpec
    <2>2. [cr EXCEPT !.names = names] \in CR
      BY EditedCRType DEF TypeOK
    <2> QED  BY <1>a, <1>3, <2>1, <2>2, StoreCRType DEF EditSpec, TypeOK
  <1>4. CASE DropOwner
    <2>1. [cr EXCEPT !.own = FALSE] \in CR
      BY EditedCRType DEF TypeOK
    <2> QED  BY <1>a, <1>4, <2>1, StoreCRType DEF DropOwner, TypeOK
  <1>5. CASE DropSecret
    <2>1. GoneSecret(sec.rv) \in Secret
      BY ObjectTypes DEF TypeOK, Secret
    <2> QED  BY <1>a, <1>5, <2>1, StoreSecretType DEF DropSecret, TypeOK
  <1>6. CASE EmptySecret
    <2>1. HoldsCert(sec.owner, NoCert) \in Secret
      BY HoldsCertType, CertRefs DEF TypeOK, Secret
    <2> QED  BY <1>a, <1>6, <2>1, StoreSecretType DEF EmptySecret, TypeOK
  <1>10. CASE ReplaceCert
    <2>1. HoldsCert(sec.owner, ForeignCert) \in Secret
      BY HoldsCertType, CertRefs DEF TypeOK, Secret
    <2> QED  BY <1>a, <1>10, <2>1, StoreSecretType DEF ReplaceCert, TypeOK
  <1>7. CASE Relocate
    BY <1>a, <1>7 DEF Relocate, TypeOK
  <1>8. CASE LoseCD
    BY <1>a, <1>8 DEF LoseCD, TypeOK
  <1>9. CASE Age
    BY <1>a, <1>9 DEF Age, TypeOK
  <1> QED
    BY <1>1, <1>2, <1>3, <1>4, <1>5, <1>6, <1>7, <1>8, <1>9, <1>10
       DEF Environment

LEMMA NextType == TypeOK /\ [Next]_vars => TypeOK'
  <1> SUFFICES ASSUME TypeOK, [Next]_vars PROVE TypeOK'
    OBVIOUS
  <1>1. CASE Next
    BY <1>1, WorkerType, FaultType, MachineryType, EnvironmentType DEF Next
  <1>2. CASE UNCHANGED vars
    BY <1>2 DEF vars, TypeOK
  <1> QED  BY <1>1, <1>2

LEMMA InitType == Init => TypeOK
  <1> SUFFICES ASSUME Init PROVE TypeOK
    OBVIOUS
  <1>1. cr \in CR /\ crSeen \in CR /\ mem \in CR /\ crMissed \subseteq CR
    BY ObjectTypes DEF Init
  <1>2. sec \in Secret /\ secSeen \in Secret /\ found \in Secret
    BY ObjectTypes DEF Init
  <1>3. certs \in Seq(Cert) /\ revoked \subseteq Nat /\ due \subseteq Nat
    BY DEF Init
  <1>4. secMissed \subseteq Secret /\ cd \in [ex: BOOLEAN, relocating: BOOLEAN]
    BY DEF Init
  <1> QED  BY <1>1, <1>2, <1>3, <1>4 DEF Init, TypeOK, PC

(* Every variable of the controller's model keeps its type. *)
THEOREM TypeCorrect == Spec => []TypeOK
  BY InitType, NextType, PTL DEF Spec

-----------------------------------------------------------------------------
(* The finalizer guards every certificate.  A step is described by what it  *)
(* does to the fields of the CertificateRequest that matter (SameCR), to    *)
(* the versions the worker may still read, and to the worker.               *)

SameCR ==
    cr'.ex = cr.ex /\ cr'.uid = cr.uid /\ cr'.fin = cr.fin /\ cr'.del = cr.del

LEMMA StoredCR ==
    ASSUME TypeOK, NEW c \in CR, StoreCR(c)
    PROVE  /\ cr'.ex = c.ex /\ cr'.uid = c.uid
           /\ cr'.fin = c.fin /\ cr'.del = c.del
           /\ \/ cr' = cr /\ crMissed' = crMissed
              \/ cr'.rv = cr.rv + 1 /\ crMissed' = crMissed \cup {cr'}
  <1>1. CASE c = cr
    BY <1>1 DEF StoreCR
  <1>2. CASE c # cr
    <2>1. cr' = [c EXCEPT !.rv = cr.rv + 1] /\ crMissed' = crMissed \cup {cr'}
      BY <1>2 DEF StoreCR
    <2> QED  BY <2>1 DEF CR
  <1> QED  BY <1>1, <1>2

LEMMA EvolvesTrans ==
    ASSUME NEW x \in CR, NEW y \in CR, NEW z \in CR, Evolves(x, y), Evolves(y, z)
    PROVE  Evolves(x, z)
  BY CRFields DEF Evolves

LEMMA EvolvesRefl ==
    ASSUME NEW x \in CR, NEW y \in CR,
           y.ex = x.ex, y.uid = x.uid, y.fin = x.fin, y.del = x.del
    PROVE  Evolves(x, y)
  BY CRFields DEF Evolves

(* A store that evolves the object keeps the history in order. *)
LEMMA StoredHistory ==
    ASSUME TypeOK, TypeOK', History, NEW c \in CR, StoreCR(c), Evolves(cr, c),
           crSeen' = crSeen
    PROVE  History' /\ Views' \subseteq Views \cup {cr'}
  <1>1. CASE cr' = cr /\ crMissed' = crMissed
    BY <1>1 DEF History, Views, Evolves
  <1>2. CASE cr'.rv = cr.rv + 1 /\ crMissed' = crMissed \cup {cr'}
    <2> DEFINE new == cr'
    <2>0. cr \in CR /\ new \in CR /\ Views \subseteq CR /\ Views' = Views \cup {new}
      BY <1>2 DEF TypeOK, Views
    <2>1. \A v \in Views : v.rv < new.rv
      BY <1>2, <2>0, CRFields DEF History
    <2>2. \A v \in Views : Evolves(v, new)
      <3>1. Evolves(cr, new)
        BY <2>0, StoredCR DEF Evolves
      <3> QED  BY <2>0, <3>1, EvolvesTrans DEF History
    <2>3. new.rv <= new.rv /\ Evolves(new, new)
      BY <2>0, EvolvesRefl, CRFields
    <2>4. \A v \in Views' : v.rv <= new.rv /\ Evolves(v, new)
      BY <2>0, <2>1, <2>2, <2>3, CRFields
    <2>5. \A v \in crMissed' : crSeen'.rv <= v.rv
      BY <1>2, <2>0, <2>1, CRFields DEF History, Views
    <2>6. \A v, w \in Views' : v.rv <= w.rv => Evolves(v, w)
      <3> SUFFICES ASSUME NEW v \in Views', NEW w \in Views', v.rv <= w.rv
                   PROVE  Evolves(v, w)
        OBVIOUS
      <3>1. CASE w = new
        BY <3>1, <2>4
      <3>2. CASE w # new
        <4>1. w \in Views /\ v \in Views
          BY <3>2, <2>0, <2>1, CRFields
        <4> QED  BY <4>1 DEF History
      <3> QED  BY <3>1, <3>2
    <2>7. History'
      BY <2>4, <2>5, <2>6 DEF History, Evolves
    <2> QED  BY <2>0, <2>7
  <1> QED  BY <1>1, <1>2, StoredCR

(* A step that leaves the CertificateRequest's lifecycle, the cached copy   *)
(* and the CA alone, in the same half of Reconcile or out of it.            *)
LEMMA QuietStep ==
    ASSUME IInv, TypeOK', History', CertsKnown', SameCR,
           crSeen' = crSeen, Views' \subseteq Views \cup {cr'},
           certs' = certs, revoked' = revoked,
           Issuing' => Issuing /\ mem'.uid = mem.uid,
           pc' = "addFinalizer" => pc = "addFinalizer",
           Finalizing' => Finalizing /\ mem' = mem
    PROVE  IInv'
  <1>0. cr \in CR /\ cr' \in CR /\ mem \in CR /\ Views \subseteq CR /\ Views' \subseteq CR
    BY DEF IInv, TypeOK, Views
  <1>1. IssuedFor(cr.uid)' <=> IssuedFor(cr.uid)
    BY DEF SameCR, IssuedFor
  <1>2. \A v : Stale(v)' <=> Stale(v)
    BY DEF SameCR, Stale
  <1>3. ~Stale(cr')
    BY DEF SameCR, Stale
  <1>4. StaleViews'
    BY <1>1, <1>2, <1>3 DEF IInv, StaleViews, SameCR
  <1>5. LiveViews'
    BY DEF IInv, LiveViews, SameCR
  <1>6. WorkerKnows'
    BY <1>0, <1>1, <1>2, CRFields DEF IInv, WorkerKnows, SameCR, Evolves
  <1>7. FinalizerGuardsIssued' /\ LiveNotRevoked'
    BY <1>1 DEF IInv, FinalizerGuardsIssued, LiveNotRevoked, SameCR
  <1>8. ((cr.ex /\ cr.del) => cr.fin)' /\ (~cr.ex => ~cr.fin)'
    BY DEF IInv, SameCR
  <1> QED  BY <1>4, <1>5, <1>6, <1>7, <1>8 DEF IInv

(* Versions of the CertificateRequest that differ in nothing that matters. *)
LEMMA QuietStore ==
    ASSUME IInv, TypeOK', NEW c \in CR, StoreCR(c), crSeen' = crSeen,
           c.ex = cr.ex, c.uid = cr.uid, c.fin = cr.fin, c.del = cr.del
    PROVE  History' /\ SameCR /\ Views' \subseteq Views \cup {cr'}
  <1>1. Evolves(cr, c)
    BY EvolvesRefl DEF IInv, TypeOK
  <1> QED  BY <1>1, StoredCR, StoredHistory DEF IInv, SameCR

LEMMA NoStore ==
    ASSUME IInv, UNCHANGED crObj, crSeen' = crSeen
    PROVE  History' /\ SameCR /\ Views' \subseteq Views \cup {cr'}
  BY DEF IInv, History, SameCR, Views, Evolves

(* The certificates in the Secret stay certificates that were issued. *)
LEMMA SecretsKnown ==
    ASSUME IInv, SameCR, certs' = certs, revoked' = revoked,
           \A s \in (secMissed \cup {sec, secSeen})' :
               \/ s \in secMissed \cup {sec, secSeen}
               \/ s.cert \in Serials \cup {NoCert, ForeignCert}
    PROVE  CertsKnown'
  BY DEF IInv, CertsKnown, Serials, SameCR

LEMMA SecretStored ==
    ASSUME IInv, NEW s \in Secret, StoreSecret(s),
           s.cert \in Serials \cup {NoCert, ForeignCert}, secSeen' = secSeen
    PROVE  \A t \in (secMissed \cup {sec, secSeen})' :
               \/ t \in secMissed \cup {sec, secSeen}
               \/ t.cert \in Serials \cup {NoCert, ForeignCert}
  <1>1. sec'.cert = s.cert
    BY DEF StoreSecret, Secret
  <1> QED  BY <1>1 DEF StoreSecret

USE DEF Issuing, Finalizing

LEMMA QuietReads ==
    ASSUME IInv, TypeOK',
           FindOwner \/ BailOut \/ GetSecret \/ ShouldReissue \/ BailOutAgain
             \/ SecretExists \/ ApiError \/ Resync \/ SyncSecret
             \/ Relocate \/ LoseCD \/ Age
    PROVE  IInv'
  <1>1. /\ UNCHANGED <<cr, crMissed, crSeen, certs, revoked, sec>>
        /\ secMissed' \cup {secSeen'} \subseteq secMissed \cup {secSeen}
    BY DEF FindOwner, BailOut, GetSecret, ShouldReissue, BailOutAgain,
           ReportRelocation, SecretExists, ApiError, Resync, SyncSecret, Later,
           Relocate, LoseCD, Age, Edit
  <1>2. /\ Issuing' => Issuing /\ mem'.uid = mem.uid
        /\ pc' = "addFinalizer" => pc = "addFinalizer"
        /\ Finalizing' => Finalizing /\ mem' = mem
    BY DEF FindOwner, BailOut, GetSecret, ShouldReissue, BailOutAgain, Return,
           ReportRelocation, SecretExists, ApiError, Resync, SyncSecret,
           Relocate, LoseCD, Age, Edit
  <1>3. History' /\ SameCR /\ Views' \subseteq Views \cup {cr'}
    BY <1>1, NoStore
  <1>4. CertsKnown'
    BY <1>1, <1>3, SecretsKnown
  <1> QED  BY <1>1, <1>2, <1>3, <1>4, QuietStep

(* The writes that leave alone the fields of the object that matter. *)
Quiet(c) ==
    c.ex = cr.ex /\ c.uid = cr.uid /\ c.fin = cr.fin /\ c.del = cr.del

LEMMA QuietEdits ==
    ASSUME TypeOK,
           SetOwner \/ UpdateStatusError \/ UpdateStatus \/ EditSpec \/ DropOwner
    PROVE  UNCHANGED crObj \/ \E c \in CR : StoreCR(c) /\ Quiet(c)
  <1>0. cr \in CR /\ secSeen.cert \in CertRef
    BY DEF TypeOK, Secret
  <1>1. CASE SetOwner \/ DropOwner
    <2>1. \A b \in BOOLEAN : [cr EXCEPT !.own = b] \in CR /\ Quiet([cr EXCEPT !.own = b])
      BY <1>0, EditedCRType DEF Quiet, CR
    <2> QED  BY <1>1, <2>1 DEF SetOwner, DropOwner
  <1>2. CASE UpdateStatusError
    <2>1. PICK acme \in BOOLEAN :
             \/ StoreCR([cr EXCEPT !.st.issued = FALSE, !.st.phase = "Error",
                                   !.st.acmeError = @ \/ acme])
             \/ UNCHANGED crObj
      BY <1>2 DEF UpdateStatusError
    <2> DEFINE c == [cr EXCEPT !.st.issued = FALSE, !.st.phase = "Error",
                               !.st.acmeError = @ \/ acme]
    <2>2. c \in CR
      BY <1>0, EditedCRType
    <2>3. Quiet(c)
      BY <1>0 DEF Quiet, CR
    <2> HIDE DEF c
    <2>4. StoreCR(c) \/ UNCHANGED crObj
      BY <2>1 DEF c
    <2> QED  BY <2>2, <2>3, <2>4
  <1>3. CASE UpdateStatus
    <2> DEFINE c == [cr EXCEPT !.st.issued = TRUE, !.st.phase = "Success",
                               !.st.cert = secSeen.cert]
    <2>2. c \in CR
      BY <1>0, EditedCRType
    <2>3. Quiet(c)
      BY <1>0 DEF Quiet, CR
    <2>4. StoreCR(c) \/ UNCHANGED crObj
      BY <1>3 DEF UpdateStatus
    <2> HIDE DEF c
    <2> QED  BY <2>2, <2>3, <2>4
  <1>4. CASE EditSpec
    <2>1. PICK names \in SUBSET Domains : StoreCR([cr EXCEPT !.names = names])
      BY <1>4 DEF EditSpec
    <2>2. [cr EXCEPT !.names = names] \in CR /\ Quiet([cr EXCEPT !.names = names])
      BY <1>0, EditedCRType DEF Quiet, CR
    <2> QED  BY <2>1, <2>2
  <1> QED  BY <1>1, <1>2, <1>3, <1>4

LEMMA QuietWrites ==
    ASSUME IInv, TypeOK',
           SetOwner \/ UpdateStatusError \/ UpdateStatus \/ EditSpec \/ DropOwner
    PROVE  IInv'
  <1>1. UNCHANGED <<crSeen, certs, revoked, sec, secMissed, secSeen>>
    BY DEF SetOwner, UpdateStatusError, UpdateStatus, EditSpec, DropOwner, Edit
  <1>2. UNCHANGED crObj \/ \E c \in CR : StoreCR(c) /\ Quiet(c)
    BY QuietEdits DEF IInv
  <1>3. History' /\ SameCR /\ Views' \subseteq Views \cup {cr'}
    <2>1. CASE UNCHANGED crObj
      BY <1>1, <2>1, NoStore
    <2>2. CASE \E c \in CR : StoreCR(c) /\ Quiet(c)
      <3>1. PICK c \in CR : StoreCR(c) /\ Quiet(c)
        BY <2>2
      <3> QED  BY <1>1, <3>1, QuietStore DEF Quiet
    <2> QED  BY <1>2, <2>1, <2>2
  <1>4. /\ Issuing' => Issuing /\ mem'.uid = mem.uid
        /\ pc' = "addFinalizer" => pc = "addFinalizer"
        /\ Finalizing' => Finalizing /\ mem' = mem
    <2>1. CASE SetOwner
      BY <1>3, <2>1 DEF SetOwner, Return, SameCR, IInv, WorkerKnows
    <2>2. CASE UpdateStatusError \/ UpdateStatus
      BY <2>2 DEF UpdateStatusError, UpdateStatus, Return
    <2>3. CASE EditSpec \/ DropOwner
      BY <2>3 DEF EditSpec, DropOwner, Edit
    <2> QED  BY <2>1, <2>2, <2>3
  <1>5. CertsKnown'
    BY <1>1, <1>3, SecretsKnown
  <1> QED  BY <1>1, <1>3, <1>4, <1>5, QuietStep

LEMMA QuietSecrets ==
    ASSUME IInv, TypeOK',
           \/ CreateSecret \/ UpdateSecret \/ CollectSecret
           \/ DropSecret \/ EmptySecret \/ ReplaceCert
    PROVE  IInv'
  <1>1. UNCHANGED <<cr, crMissed, crSeen, certs, revoked, secSeen>>
    BY DEF CreateSecret, UpdateSecret, CollectSecret, DropSecret, EmptySecret,
           ReplaceCert, Edit
  <1>2. /\ Issuing' => Issuing /\ mem'.uid = mem.uid
        /\ pc' = "addFinalizer" => pc = "addFinalizer"
        /\ Finalizing' => Finalizing /\ mem' = mem
    BY DEF CreateSecret, UpdateSecret, CollectSecret, DropSecret, EmptySecret,
           ReplaceCert, Edit, Return
  <1>3. History' /\ SameCR /\ Views' \subseteq Views \cup {cr'}
    BY <1>1, NoStore
  <1>4. \/ UNCHANGED secObj
        \/ \E s \in Secret : StoreSecret(s) /\ s.cert \in Serials \cup {NoCert, ForeignCert}
    <2>a. TypeOK /\ Len(certs) \in Nat
      BY DEF IInv, TypeOK
    <2>b. mem.uid \in Nat
      BY CRFields DEF IInv, TypeOK
    <2>c. found.owner \in Nat /\ sec.owner \in Nat /\ sec.rv \in Nat
      BY DEF IInv, TypeOK, Secret
    <2>0. /\ TypeOK /\ Len(certs) \in Nat /\ mem.uid \in Nat
          /\ found.owner \in Nat /\ sec.owner \in Nat /\ sec.rv \in Nat
      BY <2>a, <2>b, <2>c
    <2>1. \A o \in Nat : /\ HoldsCert(o, Len(certs)) \in Secret
                         /\ HoldsCert(o, Len(certs)).cert \in Serials \cup {NoCert}
      BY <2>0, HoldsCertType, CertRefs DEF HoldsCert, Serials, NoCert
    <2>2. \A o \in Nat, c \in {NoCert, ForeignCert} :
             HoldsCert(o, c) \in Secret /\ HoldsCert(o, c).cert = c
      BY <2>0, HoldsCertType, CertRefs DEF HoldsCert
    <2>3. GoneSecret(sec.rv) \in Secret /\ GoneSecret(sec.rv).cert = NoCert
      BY <2>0, ObjectTypes DEF GoneSecret
    <2> QED
      BY <2>0, <2>1, <2>2, <2>3 DEF CreateSecret, UpdateSecret, CollectSecret,
         DropSecret, EmptySecret, ReplaceCert, NewestCert
  <1>5. CertsKnown'
    <2>1. CASE UNCHANGED secObj
      BY <1>1, <1>3, <2>1, SecretsKnown
    <2>2. CASE \E s \in Secret :
                  StoreSecret(s) /\ s.cert \in Serials \cup {NoCert, ForeignCert}
      BY <1>1, <1>3, <2>2, SecretStored, SecretsKnown
    <2> QED  BY <1>4, <2>1, <2>2
  <1> QED  BY <1>1, <1>2, <1>3, <1>5, QuietStep

(* The worker chooses a half of Reconcile by what it reads. *)
LEMMA StartStep ==
    ASSUME IInv, TypeOK', StartReconcile
    PROVE  IInv'
  <1>0. crSeen \in CR /\ crSeen \in Views /\ Views \subseteq CR
    BY DEF IInv, TypeOK, Views
  <1>1. UNCHANGED <<cr, crMissed, crSeen, certs, revoked, sec, secMissed, secSeen>>
    BY DEF StartReconcile
  <1>2. /\ pc' \in {"idle", "addFinalizer", "findOwner", "secretExists"}
        /\ pc' # "idle" => mem' = crSeen /\ crSeen.ex
        /\ pc' \in {"addFinalizer", "findOwner"} => ~crSeen.del
        /\ pc' = "findOwner" => crSeen.fin
        /\ pc' = "secretExists" => crSeen.del
    BY <1>0 DEF StartReconcile, FirstCall, CR
  <1>3. History' /\ SameCR /\ Views' \subseteq Views \cup {cr'} /\ CertsKnown'
    BY <1>1, NoStore, SecretsKnown
  <1>4. Views' = Views /\ (\A v : Stale(v)' <=> Stale(v))
        /\ (IssuedFor(cr.uid)' <=> IssuedFor(cr.uid))
    BY <1>1 DEF Views, Stale, IssuedFor
  <1>5. StaleViews'
    BY <1>1, <1>2, <1>4 DEF IInv, StaleViews
  <1>6. WorkerKnows'
    <2>1. CASE pc' \in {"idle", "addFinalizer"}
      BY <2>1 DEF WorkerKnows
    <2>2. CASE pc' = "findOwner"
      BY <2>2, <1>0, <1>1, <1>2 DEF WorkerKnows, IInv, LiveViews
    <2>3. CASE pc' = "secretExists"
      <3>1. Evolves(crSeen, cr) /\ \A v \in Views : Evolves(crSeen, v)
        BY <1>0, CRFields DEF IInv, History, Views
      <3>2. Stale(crSeen) => ~cr.fin /\ (cr.ex => ~IssuedFor(cr.uid))
        BY <1>0 DEF IInv, StaleViews
      <3>3. Evolves(mem, cr)' /\ (\A v \in Views : Evolves(mem, v))'
        BY <1>1, <1>2, <1>4, <2>3, <3>1 DEF Evolves
      <3>4. Stale(mem)' => ~cr'.fin /\ (cr'.ex => ~IssuedFor(cr.uid)')
        BY <1>1, <1>2, <1>4, <2>3, <3>2 DEF Stale
      <3> QED  BY <1>2, <2>3, <3>3, <3>4 DEF WorkerKnows
    <2> QED  BY <1>2, <2>1, <2>2, <2>3
  <1>7. LiveViews' /\ FinalizerGuardsIssued' /\ LiveNotRevoked'
    BY <1>1, <1>4 DEF IInv, LiveViews, FinalizerGuardsIssued, LiveNotRevoked
  <1> QED  BY <1>1, <1>3, <1>5, <1>6, <1>7 DEF IInv

(* The patch reaches the object that is there now, and its answer is what   *)
(* the worker serves from then on.                                          *)
LEMMA AddFinalizerStep ==
    ASSUME IInv, TypeOK', AddFinalizer
    PROVE  IInv'
  <1>1. CASE ~cr.ex
    <2>1. UNCHANGED <<cr, crMissed, crSeen, certs, revoked, sec, secMissed, secSeen>>
      BY <1>1 DEF AddFinalizer
    <2>2. pc' = "idle"
      BY <1>1 DEF AddFinalizer, Return
    <2>3. History' /\ SameCR /\ Views' \subseteq Views \cup {cr'} /\ CertsKnown'
      BY <2>1, NoStore, SecretsKnown
    <2> QED  BY <2>1, <2>2, <2>3, QuietStep
  <1>2. CASE cr.ex
    <2> DEFINE c == [cr EXCEPT !.fin = TRUE]
    <2>0. cr \in CR /\ c \in CR /\ TypeOK /\ Views \subseteq CR
      BY EditedCRType DEF IInv, TypeOK, Views
    <2>1. c.ex = cr.ex /\ c.uid = cr.uid /\ c.del = cr.del /\ c.fin
      BY <2>0 DEF CR
    <2>2. StoreCR(c) /\ mem' = cr' /\ pc' = "findOwner"
          /\ UNCHANGED <<crSeen, certs, revoked, sec, secMissed, secSeen>>
      BY <1>2 DEF AddFinalizer
    <2>3. Evolves(cr, c)
      BY <2>0, <2>1, CRFields DEF Evolves
    <2> HIDE DEF c
    <2>4. cr'.ex /\ cr'.uid = cr.uid /\ cr'.del = cr.del /\ cr'.fin
      BY <1>2, <2>0, <2>1, <2>2, StoredCR
    <2>5. History' /\ Views' \subseteq Views \cup {cr'}
      BY <2>0, <2>2, <2>3, StoredHistory DEF IInv
    <2>6. StaleViews'
      <3>1. \A v \in Views : ~Stale(v)
        BY DEF IInv, StaleViews, AddFinalizer
      <3> QED  BY <1>2, <2>4, <2>5, <3>1 DEF StaleViews, Stale
    <2>7. LiveViews'
      BY <2>4, <2>5 DEF LiveViews, IInv
    <2>8. WorkerKnows'
      BY <2>2, <2>4 DEF WorkerKnows
    <2>9. CertsKnown'
      BY <2>2, <2>4 DEF IInv, CertsKnown, Serials
    <2>10. FinalizerGuardsIssued' /\ LiveNotRevoked'
      BY <2>2, <2>4, <1>2 DEF IInv, FinalizerGuardsIssued, LiveNotRevoked
    <2> QED  BY <2>4, <2>5, <2>6, <2>7, <2>8, <2>9, <2>10 DEF IInv
  <1> QED  BY <1>1, <1>2

(* A certificate is issued for an object that is there and has the finalizer. *)
LEMMA IssueStep ==
    ASSUME IInv, TypeOK', IssueCertificate \/ IssueFails
    PROVE  IInv'
  <1>1. UNCHANGED <<cr, crMissed, crSeen, revoked, sec, secMissed, secSeen>>
    BY DEF IssueCertificate, IssueFails
  <1>2. /\ Issuing
        /\ Issuing' => mem'.uid = mem.uid
        /\ pc' # "addFinalizer" /\ ~Finalizing'
    BY DEF IssueCertificate, IssueFails, Return
  <1>3. History' /\ SameCR /\ Views' \subseteq Views \cup {cr'} /\ Views' = Views
    BY <1>1, NoStore DEF Views
  <1>4. CASE certs' = certs
    <2>1. CertsKnown'
      BY <1>1, <1>3, <1>4, SecretsKnown
    <2> QED  BY <1>1, <1>2, <1>3, <1>4, <2>1, QuietStep
  <1>5. CASE Issued
    <2>0. certs \in Seq(Cert) /\ cr.uid \in Nat /\ cr.ex /\ cr.fin /\ mem.uid = cr.uid
      BY <1>2, CRFields DEF IInv, TypeOK, WorkerKnows
    <2>1. /\ Len(certs') = Len(certs) + 1
          /\ \A i \in 1..Len(certs) : certs'[i] = certs[i]
          /\ certs'[Len(certs) + 1].for = mem.uid
          /\ Len(certs) \in Nat
      BY <1>5, <2>0 DEF Issued
    <2>2. CertsKnown'
      <3>1. \A i \in Serials' : certs'[i].for <= cr.uid
        BY <2>0, <2>1 DEF IInv, CertsKnown, Serials
      <3>2. Serials \subseteq Serials'
        BY <2>1 DEF Serials
      <3> QED  BY <1>1, <3>1, <3>2 DEF IInv, CertsKnown
    <2>3. FinalizerGuardsIssued'
      BY <1>1, <2>0 DEF FinalizerGuardsIssued
    <2>4. LiveNotRevoked'
      BY <1>1, <2>1 DEF IInv, LiveNotRevoked, CertsKnown, Serials
    <2>5. \A v \in Views : ~Stale(v) /\ ~Stale(v)'
      BY <1>1, <1>2 DEF IInv, StaleViews, Stale
    <2>6. StaleViews' /\ LiveViews'
      BY <1>1, <1>3, <2>5 DEF IInv, StaleViews, LiveViews
    <2>7. WorkerKnows'
      BY <1>1, <1>2, <2>0 DEF WorkerKnows
    <2> QED  BY <1>1, <1>3, <2>2, <2>3, <2>4, <2>6, <2>7 DEF IInv
  <1> QED  BY <1>4, <1>5 DEF IssueCertificate, IssueFails

(* What is revoked was issued for the object being finalized or for an      *)
(* earlier one: for a later one nothing has been issued yet.                *)
LEMMA RevokeStep ==
    ASSUME IInv, TypeOK', RevokeCertificate
    PROVE  IInv'
  <1>1. UNCHANGED <<cr, crMissed, crSeen, certs, sec, secMissed, secSeen>>
    BY DEF RevokeCertificate
  <1>2. /\ Finalizing
        /\ pc' # "addFinalizer" /\ ~Issuing'
        /\ Finalizing' => mem' = mem
    BY DEF RevokeCertificate, Return
  <1>3. History' /\ SameCR /\ Views' = Views
    BY <1>1, NoStore DEF Views
  <1>4. revoked' \subseteq revoked \cup ({secSeen.cert} \ {NoCert, ForeignCert})
    BY DEF RevokeCertificate, GetCertificate, IsCertificateIssuerLE
  <1>5. CertsKnown'
    BY <1>1, <1>4 DEF IInv, CertsKnown, Serials
  <1>6. LiveNotRevoked'
    <2> SUFFICES ASSUME cr.ex, ~cr.del, NEW sn \in revoked'
                 PROVE  certs[sn].for # cr.uid
      BY <1>1 DEF LiveNotRevoked
    <2>1. Stale(mem)
      BY <1>2 DEF IInv, WorkerKnows, Stale, Evolves
    <2>2. ~IssuedFor(cr.uid)
      BY <1>2, <2>1 DEF IInv, WorkerKnows
    <2>3. sn \in Serials
      BY <1>1, <1>5 DEF CertsKnown, Serials
    <2> QED  BY <2>2, <2>3 DEF IssuedFor, Serials
  <1>7. StaleViews' /\ LiveViews' /\ FinalizerGuardsIssued'
    BY <1>1, <1>2, <1>3 DEF IInv, StaleViews, LiveViews, Stale, IssuedFor,
       FinalizerGuardsIssued
  <1>8. WorkerKnows'
    BY <1>1, <1>2, <1>3 DEF IInv, WorkerKnows, Stale, IssuedFor, Evolves
  <1> QED  BY <1>1, <1>3, <1>5, <1>6, <1>7, <1>8 DEF IInv

(* The patch that removes the finalizer either ends the object the worker   *)
(* finalized or reaches a later one that has no finalizer yet.              *)
LEMMA RemoveFinalizerStep ==
    ASSUME IInv, TypeOK', RemoveFinalizer
    PROVE  IInv'
  <1>0. /\ TypeOK /\ cr \in CR /\ mem \in CR /\ Views \subseteq CR
        /\ cr.ex \in BOOLEAN /\ cr.del \in BOOLEAN /\ cr.fin \in BOOLEAN
        /\ Finalizing /\ mem.ex /\ mem.del
        /\ Evolves(mem, cr) /\ \A v \in Views : Evolves(mem, v)
    BY CRFields DEF IInv, TypeOK, Views, RemoveFinalizer, WorkerKnows
  <1>1. UNCHANGED <<crSeen, certs, revoked, sec, secMissed, secSeen>> /\ pc' = "idle"
    BY DEF RemoveFinalizer, Return
  <1>2. CASE cr.ex /\ cr.del
    <2> DEFINE c == GoneCR(cr.uid, cr.rv)
    <2>1. StoreCR(c)
      BY <1>0, <1>2 DEF RemoveFinalizer
    <2>2. c \in CR /\ ~c.ex /\ ~c.fin /\ ~c.del /\ c.uid = cr.uid
      BY <1>0, ObjectTypes, CRFields DEF GoneCR
    <2>3. Evolves(cr, c)
      BY <1>0, <2>2, CRFields DEF Evolves
    <2> HIDE DEF c
    <2>4. ~cr'.ex /\ ~cr'.fin /\ ~cr'.del /\ cr'.uid = cr.uid
      BY <1>0, <2>1, <2>2, StoredCR
    <2>5. History' /\ Views' \subseteq Views \cup {cr'}
      BY <1>0, <1>1, <2>1, <2>2, <2>3, StoredHistory DEF IInv
    <2>6. mem.uid = cr.uid
      <3>1. cr.fin
        BY <1>2 DEF IInv
      <3> QED  BY <1>0, <3>1 DEF IInv, WorkerKnows, Stale
    <2>7. \A v \in Views : v.ex /\ v.del => v.uid = cr.uid
      <3>1. cr.fin
        BY <1>2 DEF IInv
      <3> QED  BY <3>1 DEF IInv, StaleViews, Stale
    <2>8. \A v \in Views : v.ex /\ v.del =>
              crSeen.ex /\ crSeen.del /\ crSeen.uid = v.uid
      <3> SUFFICES ASSUME NEW v \in Views, v.ex, v.del
                   PROVE  crSeen.ex /\ crSeen.del /\ crSeen.uid = v.uid
        OBVIOUS
      <3>0. crSeen \in Views /\ crSeen \in CR /\ v \in CR
        BY <1>0 DEF Views
      <3>1. Evolves(mem, crSeen) /\ Evolves(crSeen, v)
        BY <1>0, <3>0, CRFields DEF IInv, History, Views
      <3>2. crSeen.uid = cr.uid /\ v.uid = cr.uid
        BY <1>0, <2>6, <2>7, <3>0, <3>1, CRFields DEF Evolves
      <3> QED  BY <1>0, <2>6, <3>1, <3>2 DEF Evolves
    <2>9. StaleViews'
      BY <1>1, <2>4, <2>5, <2>8 DEF StaleViews, Stale
    <2>10. LiveViews'
      <3>1. \A v \in Views : ~(v.ex /\ v.fin /\ ~v.del)
        BY <1>0, <2>6 DEF IInv, LiveViews, Evolves
      <3> QED  BY <2>4, <2>5, <3>1 DEF LiveViews
    <2>11. WorkerKnows'
      BY <1>1 DEF WorkerKnows
    <2>12. CertsKnown'
      BY <1>1, <2>4 DEF IInv, CertsKnown, Serials
    <2> QED
      BY <1>1, <2>4, <2>5, <2>9, <2>10, <2>11, <2>12
         DEF IInv, FinalizerGuardsIssued, LiveNotRevoked
  <1>3. CASE ~(cr.ex /\ cr.del)
    <2>1. UNCHANGED <<cr, crMissed>>
      <3>1. CASE ~cr.ex
        BY <1>0, <3>1 DEF RemoveFinalizer
      <3>2. CASE cr.ex /\ ~cr.del
        <4>1. Stale(mem)
          BY <1>0, <3>2 DEF Stale, Evolves
        <4>2. ~cr.fin
          BY <1>0, <4>1 DEF IInv, WorkerKnows
        <4>3. [cr EXCEPT !.fin = FALSE] = cr
          BY <1>0, <4>2 DEF CR
        <4>4. StoreCR([cr EXCEPT !.fin = FALSE])
          BY <1>0, <3>2 DEF RemoveFinalizer
        <4> QED  BY <4>3, <4>4 DEF StoreCR
      <3> QED  BY <1>0, <1>3, <3>1, <3>2
    <2>2. History' /\ SameCR /\ Views' \subseteq Views \cup {cr'} /\ CertsKnown'
      BY <1>1, <2>1, NoStore, SecretsKnown
    <2> QED  BY <1>1, <2>1, <2>2, QuietStep
  <1> QED  BY <1>2, <1>3

(* The informer moves to a later version: nothing older is read again. *)
LEMMA SyncStep ==
    ASSUME IInv, TypeOK', SyncCR
    PROVE  IInv'
  <1>0. Views \subseteq CR /\ cr \in CR /\ crSeen \in CR
    BY DEF IInv, TypeOK, Views
  <1>1. PICK v \in crMissed : crSeen' = v /\ crMissed' = Later(crMissed, v)
    BY DEF SyncCR
  <1>2. UNCHANGED <<cr, certs, revoked, sec, secMissed, secSeen, pc, mem>>
    BY DEF SyncCR
  <1>3. Views' \subseteq Views /\ v \in Views /\ \A w \in crMissed' : v.rv <= w.rv
    BY <1>0, <1>1, CRFields DEF Views, Later
  <1>4. History'
    BY <1>1, <1>2, <1>3 DEF IInv, History, Evolves
  <1>5. StaleViews'
    <2> SUFFICES ASSUME NEW w \in Views', Stale(w)
                 PROVE  v.ex /\ v.del /\ v.uid = w.uid
      BY <1>1, <1>2, <1>3 DEF IInv, StaleViews, Stale, IssuedFor
    <2>0. w \in Views /\ crSeen \in Views /\ w \in CR /\ v \in CR
      BY <1>0, <1>3 DEF Views
    <2>1. crSeen.ex /\ crSeen.del /\ crSeen.uid = w.uid
      BY <2>0 DEF IInv, StaleViews
    <2>2. Evolves(crSeen, v) /\ Evolves(v, w)
      <3>1. crSeen.rv <= v.rv /\ v.rv <= w.rv
        BY <1>1, <1>3, <2>0, CRFields DEF IInv, History, Views
      <3> QED  BY <1>3, <2>0, <3>1 DEF IInv, History
    <2>3. v.uid = w.uid
      BY <1>0, <2>0, <2>1, <2>2, CRFields DEF Evolves
    <2> QED  BY <2>1, <2>2, <2>3 DEF Evolves, Stale
  <1>6. LiveViews' /\ WorkerKnows'
    BY <1>2, <1>3 DEF IInv, LiveViews, WorkerKnows, Stale, IssuedFor, Evolves
  <1>7. CertsKnown' /\ FinalizerGuardsIssued' /\ LiveNotRevoked'
    BY <1>2 DEF IInv, CertsKnown, Serials, FinalizerGuardsIssued, IssuedFor,
       LiveNotRevoked
  <1> QED  BY <1>2, <1>4, <1>5, <1>6, <1>7 DEF IInv

LEMMA CrashStep ==
    ASSUME IInv, TypeOK', Crash
    PROVE  IInv'
  <1>0. cr \in CR
    BY DEF IInv, TypeOK
  <1>1. UNCHANGED <<cr, certs, revoked, sec>> /\ pc' = "idle"
        /\ crSeen' = cr /\ crMissed' = {} /\ secSeen' = sec /\ secMissed' = {}
    BY DEF Crash, Return
  <1>2. Views' = {cr}
    BY <1>1 DEF Views
  <1>3. History'
    BY <1>0, <1>1, <1>2, CRFields DEF History, Evolves
  <1>4. StaleViews' /\ LiveViews' /\ WorkerKnows'
    BY <1>0, <1>1, <1>2 DEF IInv, StaleViews, LiveViews, WorkerKnows, Stale
  <1>5. CertsKnown' /\ FinalizerGuardsIssued' /\ LiveNotRevoked'
    BY <1>1 DEF IInv, CertsKnown, Serials, FinalizerGuardsIssued, IssuedFor,
       LiveNotRevoked
  <1> QED  BY <1>1, <1>3, <1>4, <1>5 DEF IInv

(* A request to delete marks an object that has the finalizer, and ends one *)
(* that has none: nothing was issued for that.                              *)
LEMMA DeleteStep ==
    ASSUME IInv, TypeOK', DeleteCR
    PROVE  IInv'
  <1> DEFINE c == IF cr.fin THEN [cr EXCEPT !.del = TRUE] ELSE GoneCR(cr.uid, cr.rv)
  <1>0. TypeOK /\ cr \in CR /\ Views \subseteq CR /\ cr.ex /\ ~cr.del
    BY DEF IInv, TypeOK, Views, DeleteCR
  <1>1. /\ UNCHANGED <<crSeen, certs, revoked, sec, secMissed, secSeen, pc, mem>>
        /\ StoreCR(c)
    BY DEF DeleteCR, Edit
  <1>2. /\ c \in CR /\ c.uid = cr.uid /\ c.fin = cr.fin
        /\ cr.fin => c.ex /\ c.del
        /\ ~cr.fin => ~c.ex /\ ~c.del
    <2>1. [cr EXCEPT !.del = TRUE] \in CR /\ GoneCR(cr.uid, cr.rv) \in CR
      BY <1>0, EditedCRType, ObjectTypes, CRFields
    <2>2. cr.fin \in BOOLEAN
      BY <1>0, CRFields
    <2> QED  BY <1>0, <2>1, <2>2 DEF GoneCR, CR
  <1>3. Evolves(cr, c)
    BY <1>0, <1>2, CRFields DEF Evolves
  <1> HIDE DEF c
  <1>4. /\ cr'.uid = cr.uid /\ cr'.fin = cr.fin
        /\ cr.fin => cr'.ex /\ cr'.del
        /\ ~cr.fin => ~cr'.ex /\ ~cr'.del
    BY <1>0, <1>1, <1>2, StoredCR
  <1>5. History' /\ Views' \subseteq Views \cup {cr'} /\ Evolves(cr, cr')
    <2>1. Evolves(cr, cr')
      BY <1>0, <1>4, CRFields DEF Evolves
    <2> QED  BY <1>0, <1>1, <1>2, <1>3, <2>1, StoredHistory DEF IInv
  <1>6. IssuedFor(cr.uid)' <=> IssuedFor(cr.uid)
    BY <1>1, <1>4 DEF IssuedFor
  <1>7. StaleViews'
    <2>1. \A v \in Views : ~(v.ex /\ v.del /\ v.uid = cr.uid)
      BY <1>0 DEF IInv, History, Evolves
    <2>2. \A v \in Views' : Stale(v)' => v \in Views /\ Stale(v)
      BY <1>4, <1>5, <2>1 DEF Stale
    <2> QED
      BY <1>0, <1>1, <1>4, <1>6, <2>2 DEF IInv, StaleViews
  <1>8. LiveViews'
    BY <1>4, <1>5 DEF IInv, LiveViews
  <1>9. WorkerKnows'
    <2>1. Issuing' => cr'.ex /\ cr'.fin /\ mem'.uid = cr'.uid
      BY <1>1, <1>4 DEF IInv, WorkerKnows
    <2>2. ASSUME Finalizing'
          PROVE  /\ mem'.ex /\ mem'.del
                 /\ Evolves(mem, cr)' /\ (\A v \in Views : Evolves(mem, v))'
                 /\ Stale(mem)' => ~cr'.fin /\ (cr'.ex => ~IssuedFor(cr.uid)')
      <3>0. Finalizing /\ mem' = mem /\ mem \in CR /\ cr' \in CR
        BY <1>1, <2>2 DEF IInv, TypeOK
      <3>1. mem.ex /\ mem.del /\ Evolves(mem, cr) /\ \A v \in Views : Evolves(mem, v)
        BY <3>0 DEF IInv, WorkerKnows
      <3>2. Evolves(mem, cr')
        BY <1>0, <1>5, <3>0, <3>1, EvolvesTrans
      <3>3. mem.uid # cr.uid
        BY <1>0, <3>1 DEF Evolves
      <3>4. ~cr.fin
        BY <3>0, <3>1, <3>3 DEF IInv, WorkerKnows, Stale
      <3>5. ~cr'.ex /\ ~cr'.fin
        BY <1>4, <3>4
      <3> QED  BY <1>5, <3>0, <3>1, <3>2, <3>5 DEF Evolves
    <2> QED  BY <2>1, <2>2 DEF WorkerKnows
  <1>10. CertsKnown'
    BY <1>1, <1>4 DEF IInv, CertsKnown, Serials
  <1>11. FinalizerGuardsIssued' /\ LiveNotRevoked'
    BY <1>0, <1>1, <1>4 DEF IInv, FinalizerGuardsIssued, LiveNotRevoked
  <1> QED  BY <1>0, <1>4, <1>5, <1>7, <1>8, <1>9, <1>10, <1>11 DEF IInv

(* The next object of the name starts with no finalizer and no certificate. *)
LEMMA RecreateStep ==
    ASSUME IInv, TypeOK', RecreateCR
    PROVE  IInv'
  <1>0. TypeOK /\ cr \in CR /\ Views \subseteq CR /\ ~cr.ex /\ ~cr.fin
    BY DEF IInv, TypeOK, Views, RecreateCR
  <1>1. UNCHANGED <<crSeen, certs, revoked, sec, secMissed, secSeen, pc, mem>>
    BY DEF RecreateCR, Edit
  <1>2. PICK names \in SUBSET Domains : StoreCR(NewCR(cr.uid + 1, cr.rv, names))
    BY DEF RecreateCR
  <1> DEFINE c == NewCR(cr.uid + 1, cr.rv, names)
  <1>3. c \in CR /\ c.uid = cr.uid + 1 /\ c.ex /\ ~c.fin /\ ~c.del
    BY <1>0, ObjectTypes, CRFields DEF NewCR
  <1>4. StoreCR(c)
    BY <1>2
  <1> HIDE DEF c
  <1>5. cr'.uid = cr.uid + 1 /\ cr'.ex /\ ~cr'.fin /\ ~cr'.del
    BY <1>0, <1>3, <1>4, StoredCR
  <1>6. History' /\ Views' \subseteq Views \cup {cr'}
    <2>1. Evolves(cr, c)
      BY <1>0, <1>3, CRFields DEF Evolves
    <2> QED  BY <1>0, <1>1, <1>3, <1>4, <2>1, StoredHistory DEF IInv
  <1>7. CertsKnown' /\ ~IssuedFor(cr.uid)'
    <2>1. cr.uid \in Nat /\ certs \in Seq(Cert)
      BY <1>0, CRFields DEF TypeOK
    <2>2. \A i \in Serials : certs[i].for \in Nat /\ certs[i].for <= cr.uid
      <3>1. \A i \in Serials : certs[i] \in Cert
        BY <2>1 DEF Serials
      <3>2. \A t \in Cert : t.for \in Nat
        BY DEF Cert
      <3> QED  BY <3>1, <3>2 DEF IInv, CertsKnown
    <2>3. \A i \in Serials : certs[i].for < cr.uid + 1
      BY <2>1, <2>2
    <2>4. ~IssuedFor(cr.uid)'
      BY <1>1, <1>5, <2>1, <2>2, <2>3 DEF IssuedFor, Serials
    <2>5. \A i \in Serials : certs[i].for <= cr.uid + 1
      BY <2>1, <2>2
    <2> QED  BY <1>1, <1>5, <2>4, <2>5 DEF IInv, CertsKnown, Serials
  <1>8. StaleViews'
    <2>1. \A v \in Views' : Stale(v)' => v \in Views /\ Stale(v)
      BY <1>0, <1>5, <1>6 DEF Stale
    <2> QED  BY <1>1, <1>5, <1>7, <2>1 DEF IInv, StaleViews
  <1>9. LiveViews'
    BY <1>0, <1>5, <1>6 DEF IInv, LiveViews
  <1>10. WorkerKnows'
    <2>1. ~Issuing
      BY <1>0 DEF IInv, WorkerKnows
    <2>2. ASSUME Finalizing'
          PROVE  mem'.ex /\ mem'.del /\ Evolves(mem, cr)'
                 /\ (\A v \in Views : Evolves(mem, v))'
      <3>0. Finalizing /\ mem' = mem /\ mem \in CR
        BY <1>1, <2>2 DEF IInv, TypeOK
      <3>1. mem.ex /\ mem.del /\ Evolves(mem, cr) /\ \A v \in Views : Evolves(mem, v)
        BY <3>0 DEF IInv, WorkerKnows
      <3>2. Evolves(mem, cr')
        BY <1>0, <1>5, <3>0, <3>1, CRFields DEF Evolves
      <3> QED  BY <1>6, <3>0, <3>1, <3>2 DEF Evolves
    <2> QED  BY <1>1, <1>5, <1>7, <2>1, <2>2 DEF WorkerKnows
  <1>11. FinalizerGuardsIssued' /\ LiveNotRevoked'
    BY <1>1, <1>5, <1>7 DEF IInv, FinalizerGuardsIssued, LiveNotRevoked,
       CertsKnown, IssuedFor, Serials
  <1> QED  BY <1>5, <1>6, <1>7, <1>8, <1>9, <1>10, <1>11 DEF IInv

LEMMA IInvStep == IInv /\ [Next]_vars => IInv'
  <1> SUFFICES ASSUME IInv, [Next]_vars PROVE IInv'
    OBVIOUS
  <1>0. TypeOK'
    BY NextType DEF IInv
  <1>1. CASE Worker
    BY <1>0, <1>1, StartStep, AddFinalizerStep, QuietReads, QuietWrites,
       QuietSecrets, IssueStep, RevokeStep, RemoveFinalizerStep DEF Worker
  <1>2. CASE ApiError \/ Crash
    BY <1>0, <1>2, QuietReads, CrashStep
  <1>3. CASE Machinery
    BY <1>0, <1>3, SyncStep, QuietReads, QuietSecrets DEF Machinery
  <1>4. CASE Environment
    BY <1>0, <1>4, DeleteStep, RecreateStep, QuietReads, QuietWrites,
       QuietSecrets DEF Environment
  <1>5. CASE UNCHANGED vars
    BY <1>5 DEF vars, IInv, TypeOK, History, StaleViews, LiveViews, WorkerKnows,
       CertsKnown, Serials, FinalizerGuardsIssued, LiveNotRevoked, IssuedFor,
       Views, Stale, Evolves
  <1> QED  BY <1>1, <1>2, <1>3, <1>4, <1>5 DEF Next

LEMMA IInvInit == Init => IInv
  <1> SUFFICES ASSUME Init PROVE IInv
    OBVIOUS
  <1>1. TypeOK
    BY InitType
  <1>2. PICK names \in SUBSET Domains : cr = NewCR(1, 1, names)
    BY DEF Init
  <1>3. cr.ex /\ cr.uid = 1 /\ cr.rv = 1 /\ ~cr.del /\ ~cr.fin
    BY <1>2 DEF NewCR
  <1>4. /\ crSeen = GoneCR(0, 0) /\ Views = {cr, crSeen}
        /\ ~crSeen.ex /\ crSeen.uid = 0 /\ crSeen.rv = 0 /\ ~crSeen.fin
    BY DEF Init, Views, GoneCR
  <1>5. History /\ StaleViews /\ LiveViews
    BY <1>3, <1>4 DEF Init, History, StaleViews, LiveViews, Stale, Evolves
  <1>6. Serials = {} /\ revoked = {}
    BY DEF Init, Serials
  <1>7. WorkerKnows /\ CertsKnown /\ FinalizerGuardsIssued /\ LiveNotRevoked
    BY <1>3, <1>6 DEF Init, WorkerKnows, CertsKnown, Serials, GoneSecret,
       FinalizerGuardsIssued, IssuedFor, LiveNotRevoked
  <1> QED  BY <1>1, <1>3, <1>5, <1>7 DEF IInv

(* The invariant that carries the two theorems below. *)
THEOREM Inductive == Spec => []IInv
  BY IInvInit, IInvStep, PTL DEF Spec

(* A CertificateRequest for which a certificate was ever issued carries the *)
(* certman finalizer for as long as it exists.                              *)
THEOREM FinalizerGuards == Spec => []FinalizerGuardsIssued
  <1>1. IInv => FinalizerGuardsIssued
    BY DEF IInv
  <1> QED  BY <1>1, Inductive, PTL

(* No certificate of a CertificateRequest that is not being deleted is      *)
(* revoked by the operator.                                                 *)
THEOREM LiveCertificatesStand == Spec => []LiveNotRevoked
  <1>1. IInv => LiveNotRevoked
    BY DEF IInv
  <1> QED  BY <1>1, Inductive, PTL
=============================================================================
