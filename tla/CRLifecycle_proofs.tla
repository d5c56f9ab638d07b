------------------------- MODULE CRLifecycle_proofs -------------------------
(***************************************************************************)
(* The CertificateRequest controller implements the life cycle: through    *)
(* the mapping of CertificateRequest!Life, every step is a transition of   *)
(* CRLifecycle or leaves its variables alone.  The inductive invariant of  *)
(* CertificateRequest_proofs is what rules out the steps that would not be.*)
(***************************************************************************)
EXTENDS CertificateRequest_proofs

USE DEF Issuing, Finalizing, crObj, secObj, api, seen, ca, locals, worker, budget

(* A step that keeps the fields that matter, and the CA, is a stutter. *)
LEMMA LifeStutter ==
    ASSUME SameCR, certs' = certs, revoked' = revoked
    PROVE  UNCHANGED Life!vars
  BY DEF SameCR, LifeStage, Owners, Life!vars

LEMMA LifeReads ==
    ASSUME UNCHANGED cr, UNCHANGED certs, UNCHANGED revoked
    PROVE  UNCHANGED Life!vars
  BY LifeStutter DEF SameCR

(* Writes to the object that are not about its life. *)
LEMMA LifeWrites ==
    ASSUME TypeOK,
           SetOwner \/ UpdateStatusError \/ UpdateStatus \/ EditSpec \/ DropOwner
    PROVE  UNCHANGED Life!vars
  <1>1. UNCHANGED certs /\ UNCHANGED revoked
    BY DEF SetOwner, UpdateStatusError, UpdateStatus, EditSpec, DropOwner, Edit
  <1>2. SameCR
    <2>1. ASSUME NEW c \in CR, Quiet(c), StoreCR(c) PROVE SameCR
      BY <2>1, StoredCR DEF SameCR, Quiet
    <2>2. UNCHANGED crObj => SameCR
      BY DEF SameCR
    <2> QED  BY <2>1, <2>2, QuietEdits
  <1> QED  BY <1>1, <1>2, LifeStutter

(* The patch that adds the finalizer reaches a new object, or one that has  *)
(* it already.                                                              *)
LEMMA LifeGuard ==
    ASSUME IInv, AddFinalizer
    PROVE  Life!Guard \/ UNCHANGED Life!vars
  <1>0. /\ TypeOK /\ cr \in CR /\ UNCHANGED <<certs, revoked>>
        /\ cr.ex \in BOOLEAN /\ cr.del \in BOOLEAN /\ cr.fin \in BOOLEAN
        /\ (cr.ex /\ cr.del) => cr.fin
    BY CRFields DEF IInv, TypeOK, AddFinalizer, ca
  <1>1. CASE cr.ex
    <2> DEFINE c == [cr EXCEPT !.fin = TRUE]
    <2>1. c \in CR /\ c.ex /\ c.uid = cr.uid /\ c.fin /\ c.del = cr.del
      BY <1>0, <1>1 DEF CR
    <2>2. StoreCR(c)
      BY <1>1 DEF AddFinalizer
    <2> HIDE DEF c
    <2>3. cr'.ex /\ cr'.uid = cr.uid /\ cr'.fin /\ cr'.del = cr.del
      BY <1>0, <2>1, <2>2, StoredCR
    <2> QED
      BY <1>0, <1>1, <2>3 DEF LifeStage, Owners, Life!Guard, Life!Move, Life!vars
  <1>2. CASE ~cr.ex
    BY <1>0, <1>2, LifeReads DEF AddFinalizer, crObj
  <1> QED  BY <1>0, <1>1, <1>2

(* A certificate is issued for the object that is there, under its guard. *)
LEMMA LifeIssue ==
    ASSUME IInv, IssueCertificate \/ IssueFails
    PROVE  Life!Issue \/ UNCHANGED Life!vars
  <1>0. /\ cr.ex /\ cr.fin /\ mem.uid = cr.uid /\ UNCHANGED <<cr, revoked>>
        /\ certs \in Seq(Cert)
    BY DEF IInv, TypeOK, WorkerKnows, IssueCertificate, IssueFails, api, crObj, ca
  <1>1. CASE certs' = certs
    BY <1>0, <1>1, LifeReads
  <1>2. CASE Issued
    <2> DEFINE new == [names |-> mem.names, for |-> mem.uid]
    <2>1. certs' = Append(certs, new) /\ new.for = cr.uid
      BY <1>0, <1>2 DEF Issued
    <2>2. new \in Cert
      BY DEF IInv, TypeOK, CR, Cert
    <2> HIDE DEF new
    <2>3. /\ Len(certs') = Len(certs) + 1 /\ Len(certs) \in Nat
          /\ \A i \in 1..Len(certs') :
                certs'[i] = IF i <= Len(certs) THEN certs[i] ELSE new
      BY <1>0, <2>1, <2>2
    <2>4. Owners \in Seq(Nat)
      <3>1. \A i \in 1..Len(certs) : certs[i] \in Cert
        BY <1>0
      <3>2. \A i \in 1..Len(certs) : certs[i].for \in Nat
        BY <3>1 DEF Cert
      <3>3. Owners \in [1..Len(certs) -> Nat]
        BY <3>2 DEF Owners
      <3>4. Len(certs) \in Nat
        BY <1>0
      <3> QED  BY <3>3, <3>4
    <2>5. Owners' = Append(Owners, cr.uid)
      <3>1. Owners' = [i \in 1..(Len(certs) + 1) |->
                          IF i <= Len(certs) THEN certs[i].for ELSE cr.uid]
        BY <2>1, <2>3 DEF Owners
      <3>2. Len(Owners) = Len(certs) /\ \A i \in 1..Len(certs) : Owners[i] = certs[i].for
        BY <1>0 DEF Owners
      <3> QED  BY <2>3, <3>1, <3>2, <2>4
    <2>6. LifeStage \in {"guarded", "deleting"} /\ LifeStage' = LifeStage
      BY <1>0 DEF LifeStage
    <2> QED  BY <1>0, <2>5, <2>6 DEF Life!Issue
  <1> QED  BY <1>1, <1>2 DEF IssueCertificate, IssueFails

(* What is revoked is not wanted: the invariant holds after the step too. *)
LEMMA LifeRevoke ==
    ASSUME IInv, IInv', RevokeCertificate
    PROVE  Life!Revoke \/ UNCHANGED Life!vars
  <1>0. UNCHANGED <<cr, certs>> /\ certs \in Seq(Cert)
    BY DEF IInv, TypeOK, RevokeCertificate, api, crObj
  <1>1. CASE revoked' = revoked
    BY <1>0, <1>1, LifeReads
  <1>2. CASE /\ GetCertificate(secSeen) /\ IsCertificateIssuerLE(secSeen.cert)
             /\ revoked' = revoked \cup {secSeen.cert}
    <2> DEFINE i == secSeen.cert
    <2>1. i \in 1..Len(certs)
      BY <1>2 DEF IInv, CertsKnown, Serials, GetCertificate, IsCertificateIssuerLE
    <2>2. i \in DOMAIN Owners /\ Owners[i] = certs[i].for
      BY <2>1 DEF Owners
    <2>3. (cr.ex /\ ~cr.del) => certs[i].for # cr.uid
      BY <1>0, <1>2 DEF IInv, LiveNotRevoked
    <2>4. LifeStage \in {"new", "guarded"} => cr.ex /\ ~cr.del
      BY DEF LifeStage
    <2>5. ~Life!Wanted(i)
      BY <2>2, <2>3, <2>4 DEF Life!Wanted
    <2>6. UNCHANGED <<cr.uid, LifeStage, Owners>>
      BY <1>0 DEF LifeStage, Owners
    <2> QED  BY <1>2, <2>2, <2>5, <2>6 DEF Life!Revoke
  <1> QED  BY <1>1, <1>2 DEF RevokeCertificate

(* The patch that removes the finalizer finds the deleted object, or a      *)
(* later one that has no finalizer yet.                                     *)
LEMMA LifeFinalize ==
    ASSUME IInv, RemoveFinalizer
    PROVE  Life!Finalize \/ UNCHANGED Life!vars
  <1>0. /\ TypeOK /\ cr \in CR /\ UNCHANGED <<certs, revoked>>
        /\ cr.ex \in BOOLEAN /\ cr.del \in BOOLEAN /\ cr.fin \in BOOLEAN
        /\ mem.ex /\ mem.del /\ mem.del \in BOOLEAN
        /\ Evolves(mem, cr) /\ (Stale(mem) => ~cr.fin)
    BY CRFields DEF IInv, TypeOK, RemoveFinalizer, WorkerKnows, ca
  <1>1. CASE ~cr.ex
    BY <1>0, <1>1, LifeReads DEF RemoveFinalizer, crObj
  <1>2. CASE cr.ex /\ cr.del
    <2> DEFINE c == GoneCR(cr.uid, cr.rv)
    <2>1. c \in CR /\ ~c.ex /\ c.uid = cr.uid
      BY <1>0, ObjectTypes, CRFields DEF GoneCR
    <2>2. StoreCR(c)
      BY <1>0, <1>2 DEF RemoveFinalizer
    <2> HIDE DEF c
    <2>3. ~cr'.ex /\ cr'.uid = cr.uid
      BY <1>0, <2>1, <2>2, StoredCR
    <2> QED
      BY <1>0, <1>2, <2>3 DEF LifeStage, Owners, Life!Finalize, Life!Move
  <1>3. CASE cr.ex /\ ~cr.del
    <2>1. ~cr.fin
      BY <1>0, <1>3 DEF Stale, Evolves
    <2>2. [cr EXCEPT !.fin = FALSE] = cr
      BY <1>0, <2>1 DEF CR
    <2>3. UNCHANGED crObj
      BY <1>0, <1>3, <2>2 DEF RemoveFinalizer, StoreCR
    <2> QED  BY <1>0, <2>3, LifeReads DEF crObj
  <1> QED  BY <1>0, <1>1, <1>2, <1>3

LEMMA LifeDelete ==
    ASSUME IInv, DeleteCR
    PROVE  Life!Delete
  <1>0. /\ TypeOK /\ cr \in CR /\ UNCHANGED <<certs, revoked>>
        /\ cr.ex /\ ~cr.del /\ cr.fin \in BOOLEAN
    BY CRFields DEF IInv, TypeOK, DeleteCR, Edit
  <1>1. CASE cr.fin
    <2> DEFINE c == [cr EXCEPT !.del = TRUE]
    <2>1. c \in CR /\ c.ex /\ c.del /\ c.uid = cr.uid
      BY <1>0 DEF CR
    <2>2. StoreCR(c)
      BY <1>1 DEF DeleteCR
    <2> HIDE DEF c
    <2>3. cr'.ex /\ cr'.del /\ cr'.uid = cr.uid
      BY <1>0, <2>1, <2>2, StoredCR
    <2> QED
      BY <1>0, <1>1, <2>3 DEF LifeStage, Owners, Life!Delete, Life!Move
  <1>2. CASE ~cr.fin
    <2> DEFINE c == GoneCR(cr.uid, cr.rv)
    <2>1. c \in CR /\ ~c.ex /\ c.uid = cr.uid
      BY <1>0, ObjectTypes, CRFields DEF GoneCR
    <2>2. StoreCR(c)
      BY <1>2 DEF DeleteCR
    <2> HIDE DEF c
    <2>3. ~cr'.ex /\ cr'.uid = cr.uid
      BY <1>0, <2>1, <2>2, StoredCR
    <2> QED
      BY <1>0, <1>2, <2>3 DEF LifeStage, Owners, Life!Delete, Life!Move
  <1> QED  BY <1>0, <1>1, <1>2

LEMMA LifeCreate ==
    ASSUME IInv, RecreateCR
    PROVE  Life!Create
  <1>0. TypeOK /\ cr \in CR /\ UNCHANGED <<certs, revoked>> /\ ~cr.ex
    BY DEF IInv, TypeOK, RecreateCR, Edit
  <1>1. PICK names \in SUBSET Domains : StoreCR(NewCR(cr.uid + 1, cr.rv, names))
    BY DEF RecreateCR
  <1> DEFINE c == NewCR(cr.uid + 1, cr.rv, names)
  <1>2. c \in CR /\ c.ex /\ ~c.del /\ ~c.fin /\ c.uid = cr.uid + 1
    BY <1>0, ObjectTypes, CRFields DEF NewCR
  <1> HIDE DEF c
  <1>3. cr'.ex /\ ~cr'.del /\ ~cr'.fin /\ cr'.uid = cr.uid + 1
    BY <1>0, <1>1, <1>2, StoredCR DEF c
  <1> QED
    BY <1>0, <1>3 DEF LifeStage, Owners, Life!Create, Life!Move

LEMMA LifeStep == IInv /\ IInv' /\ [Next]_vars => [Life!Next]_(Life!vars)
  <1> SUFFICES ASSUME IInv, IInv', [Next]_vars
               PROVE  Life!Next \/ UNCHANGED Life!vars
    OBVIOUS
  <1>0. TypeOK
    BY DEF IInv
  <1>1. CASE StartReconcile \/ FindOwner \/ BailOut \/ GetSecret \/ ShouldReissue
               \/ BailOutAgain \/ CreateSecret \/ UpdateSecret \/ SecretExists
    <2>1. UNCHANGED <<cr, certs, revoked>>
      BY <1>1 DEF StartReconcile, FindOwner, BailOut, GetSecret, ShouldReissue,
         BailOutAgain, CreateSecret, UpdateSecret, SecretExists,
         ReportRelocation, api, crObj, ca
    <2> QED  BY <2>1, LifeReads
  <1>2. CASE ApiError \/ Crash \/ Machinery
    <2>1. UNCHANGED <<cr, certs, revoked>>
      BY <1>2 DEF ApiError, Crash, Machinery, SyncCR, SyncSecret, Resync,
         CollectSecret, api, crObj, ca
    <2> QED  BY <2>1, LifeReads
  <1>3. CASE DropSecret \/ EmptySecret \/ ReplaceCert \/ Relocate \/ LoseCD \/ Age
    <2>1. UNCHANGED <<cr, certs, revoked>>
      BY <1>3 DEF DropSecret, EmptySecret, ReplaceCert, Relocate, LoseCD, Age, Edit,
                  api, crObj
    <2> QED  BY <2>1, LifeReads
  <1>4. CASE AddFinalizer
    BY <1>4, LifeGuard DEF Life!Next
  <1>5. CASE IssueCertificate \/ IssueFails
    BY <1>5, LifeIssue DEF Life!Next
  <1>6. CASE RevokeCertificate
    BY <1>6, LifeRevoke DEF Life!Next
  <1>7. CASE RemoveFinalizer
    BY <1>7, LifeFinalize DEF Life!Next
  <1>8. CASE DeleteCR
    BY <1>8, LifeDelete DEF Life!Next
  <1>9. CASE RecreateCR
    BY <1>9, LifeCreate DEF Life!Next
  <1>10. CASE SetOwner \/ UpdateStatusError \/ UpdateStatus \/ EditSpec \/ DropOwner
    BY <1>0, <1>10, LifeWrites
  <1>11. CASE UNCHANGED vars
    BY <1>11, LifeReads DEF vars, api, crObj, ca
  <1> QED
    BY <1>1, <1>2, <1>3, <1>4, <1>5, <1>6, <1>7, <1>8, <1>9, <1>10, <1>11
       DEF Next, Worker, Environment

LEMMA LifeInit == Init => Life!Init
  <1> SUFFICES ASSUME Init PROVE Life!Init
    OBVIOUS
  <1>1. cr.ex /\ cr.uid = 1 /\ ~cr.del /\ ~cr.fin
    BY DEF Init, NewCR
  <1>2. certs = <<>> /\ revoked = {}
    BY DEF Init
  <1>3. Owners = <<>>
    BY <1>2 DEF Owners
  <1> QED  BY <1>1, <1>2, <1>3 DEF LifeStage, Life!Init

(* The CertificateRequest controller, with its stale caches, unconditional  *)
(* patches, crashes and everybody who edits the objects, implements the     *)
(* life cycle of CRLifecycle.                                               *)
THEOREM Refinement == Spec => Implements
  <1>1. Spec => []IInv
    BY Inductive
  <1> QED  BY <1>1, LifeInit, LifeStep, PTL DEF Spec, Implements, Life!Spec
=============================================================================
