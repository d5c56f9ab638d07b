------------------ MODULE CertificateRequest_current_proofs ------------------
(***************************************************************************)
(* What CertificateRequest promises about the Secret when the cache is     *)
(* current whenever the worker reads it (~CacheLags), for every set of     *)
(* names, every bound and everything the environment may do meanwhile.     *)
(***************************************************************************)
EXTENDS CertificateRequest_proofs

USE DEF api, crObj, secObj, seen, ca, locals, worker, budget,
        Step, Goto, Finish, Fail, GotoOrFail, FinishOrFail

-----------------------------------------------------------------------------
(* The versions of the Secret. *)

LEMMA SecretFields ==
    ASSUME NEW s \in Secret
    PROVE  s.rv \in Nat /\ s.cert \in CertRef /\ s.ex \in BOOLEAN
  BY DEF Secret

LEMMA StoredSecret ==
    ASSUME TypeOK, NEW s \in Secret, StoreSecret(s)
    PROVE  /\ sec'.ex = s.ex /\ sec'.cert = s.cert /\ sec'.rv = sec.rv + 1
           /\ secMissed' = secMissed \cup {sec'}
  BY DEF StoreSecret, Secret

LEMMA StoredSecretHistory ==
    ASSUME TypeOK, SecretHistory, NEW s \in Secret, StoreSecret(s)
    PROVE  SecretHistory'
  <1>1. sec.rv \in Nat /\ \A t \in secMissed : t.rv \in Nat
    BY SecretFields DEF TypeOK
  <1>2. sec'.rv = sec.rv + 1 /\ secMissed' = secMissed \cup {sec'}
    BY StoredSecret
  <1>3. \A t \in secMissed : t.rv <= sec.rv
    BY <1>1 DEF SecretHistory
  <1>4. \A t \in secMissed' : t.rv < sec'.rv \/ t = sec'
    BY <1>1, <1>2, <1>3
  <1> QED  BY <1>2, <1>4 DEF SecretHistory

LEMMA SyncedSecretHistory ==
    ASSUME TypeOK, SecretHistory, SyncSecret
    PROVE  SecretHistory'
  <1>1. PICK v \in secMissed : secSeen' = v /\ secMissed' = Later(secMissed, v)
    BY DEF SyncSecret
  <1>2. sec' = sec /\ \A t \in secMissed : t.rv \in Nat
    BY SecretFields DEF TypeOK, SyncSecret
  <1>3. sec \in secMissed /\ \A t \in secMissed : t.rv < sec.rv \/ t = sec
    BY DEF SecretHistory
  <1>4. CASE v = sec
    <2>1. secMissed' = {}
      BY <1>1, <1>2, <1>3, <1>4 DEF Later
    <2> QED  BY <1>1, <1>2, <1>4, <2>1 DEF SecretHistory
  <1>5. CASE v # sec
    <2>1. sec \in secMissed'
      BY <1>1, <1>2, <1>3, <1>5 DEF Later
    <2>2. \A t \in secMissed' : t.rv < sec.rv \/ t = sec
      BY <1>1, <1>3 DEF Later
    <2> QED  BY <1>2, <2>1, <2>2 DEF SecretHistory
  <1> QED  BY <1>4, <1>5

(* What a current cache shows is what is stored. *)
LEMMA CurrentRead ==
    ASSUME SecretHistory, ~CacheLags, CacheRead
    PROVE  secSeen = sec
  BY DEF SecretHistory, CacheRead

-----------------------------------------------------------------------------
(* What the worker knows. *)

LEMMA NothingToKnow ==
    ASSUME pc' \notin {"issue", "renew", "bailOutAgain", "removeFinalizer"}
    PROVE  SecretKnown'
  BY DEF SecretKnown

(* Others can make the Secret worse, never better. *)
LEMMA StillKnown ==
    ASSUME SecretKnown, UNCHANGED <<certs, pc, locals>>,
           due \subseteq due', revoked \subseteq revoked',
           sec' = sec \/ (sec.ex /\ ~HoldsOurs')
    PROVE  SecretKnown'
  <1>1. CASE sec' = sec
    BY <1>1 DEF SecretKnown, GoodInSecret, HoldsOurs
  <1>2. CASE sec.ex /\ ~HoldsOurs'
    BY <1>2 DEF SecretKnown, GoodInSecret
  <1> QED  BY <1>1, <1>2

LEMMA WorkerKnowsSecret ==
    ASSUME TypeOK, SecretHistory, ~CacheLags, SecretKnown, Worker
    PROVE  SecretKnown'
  <1>1. CASE StartReconcile
    BY <1>1, NothingToKnow DEF StartReconcile, FirstCall, TypeOK, CR
  <1>2. CASE AddFinalizer \/ FindOwner \/ SetOwner \/ BailOut
    BY <1>2, NothingToKnow
       DEF AddFinalizer, FindOwner, SetOwner, BailOut, ReportRelocation, Return
  <1>3. CASE GetSecret
    <2>1. secSeen = sec
      BY <1>3, CurrentRead DEF GetSecret
    <2> QED  BY <1>3, <2>1 DEF GetSecret, SecretKnown
  <1>4. CASE ShouldReissue
    <2>1. secSeen = sec
      BY <1>4, CurrentRead DEF ShouldReissue
    <2>2. CASE ~sec.ex
      BY <1>4, <2>1, <2>2, NothingToKnow DEF ShouldReissue, Return
    <2>3. CASE sec.ex
      <3>1. /\ pc' = "bailOutAgain" /\ reissue' = NeedsReissue(sec.cert)
            /\ UNCHANGED <<mem, sec, certs, due>>
        BY <1>4, <2>1, <2>3 DEF ShouldReissue
      <3>2. NeedsReissue(sec.cert) => ~GoodInSecret'
        BY <3>1 DEF NeedsReissue, NamesOn, GoodInSecret, HoldsOurs
      <3> QED  BY <3>1, <3>2 DEF SecretKnown
    <2> QED  BY <2>2, <2>3
  <1>5. CASE BailOutAgain
    <2>1. CASE pc' = "renew"
      <3>1. pc = "bailOutAgain" /\ reissue /\ UNCHANGED <<mem, sec, certs, due>>
        BY <1>5, <2>1 DEF BailOutAgain, ReportRelocation, Return
      <3> QED  BY <2>1, <3>1 DEF SecretKnown, GoodInSecret, HoldsOurs
    <2>2. CASE pc' # "renew"
      BY <1>5, <2>2, NothingToKnow DEF BailOutAgain, ReportRelocation, Return
    <2> QED  BY <2>1, <2>2
  <1>6. CASE IssueCertificate \/ IssueFails \/ UpdateStatusError
    BY <1>6, NothingToKnow DEF IssueCertificate, IssueFails, UpdateStatusError, Return
  <1>7. CASE CreateSecret \/ UpdateSecret \/ UpdateStatus
    BY <1>7, NothingToKnow DEF CreateSecret, UpdateSecret, UpdateStatus, Return
  <1>8. CASE SecretExists
    <2>1. secSeen = sec
      BY <1>8, CurrentRead DEF SecretExists
    <2> QED  BY <1>8, <2>1 DEF SecretExists, SecretKnown, HoldsOurs
  <1>9. CASE RevokeCertificate
    <2>1. secSeen = sec
      BY <1>9, CurrentRead DEF RevokeCertificate
    <2>2. CASE pc' = "removeFinalizer"
      <3>1. revoked' = revoked \cup {sec.cert} /\ sec' = sec
        BY <1>9, <2>1, <2>2 DEF RevokeCertificate, Return
      <3> QED  BY <2>2, <3>1 DEF SecretKnown
    <2>3. CASE pc' # "removeFinalizer"
      BY <1>9, <2>3, NothingToKnow DEF RevokeCertificate, Return
    <2> QED  BY <2>2, <2>3
  <1>10. CASE RemoveFinalizer
    BY <1>10, NothingToKnow DEF RemoveFinalizer, Return
  <1> QED
    BY <1>1, <1>2, <1>3, <1>4, <1>5, <1>6, <1>7, <1>8, <1>9, <1>10 DEF Worker

LEMMA OthersKnowSecret ==
    ASSUME TypeOK, SecretKnown, ApiError \/ Crash \/ Machinery \/ Environment
    PROVE  SecretKnown'
  <1>1. CASE ApiError \/ Crash
    BY <1>1, NothingToKnow DEF ApiError, Crash, Return
  <1>2. CASE SyncCR \/ SyncSecret \/ Resync
    BY <1>2, StillKnown DEF SyncCR, SyncSecret, Resync
  <1>3. ASSUME StoreSecret(GoneSecret(sec.rv)), sec.ex,
               UNCHANGED <<certs, pc, locals, due, revoked>>
        PROVE  SecretKnown'
    <2>1. ~HoldsOurs'
      BY <1>3 DEF StoreSecret, GoneSecret, HoldsOurs
    <2> QED  BY <1>3, <2>1, StillKnown
  <1>4. CASE CollectSecret
    BY <1>3, <1>4 DEF CollectSecret
  <1>5. CASE DropSecret
    BY <1>3, <1>5 DEF DropSecret, Edit
  <1>6. CASE EmptySecret \/ ReplaceCert
    <2>1. ~HoldsOurs'
      BY <1>6 DEF EmptySecret, ReplaceCert, StoreSecret, HoldsCert, HoldsOurs
    <2> QED  BY <1>6, <2>1, StillKnown DEF EmptySecret, ReplaceCert, Edit
  <1>7. CASE DeleteCR \/ RecreateCR \/ EditSpec \/ DropOwner \/ Relocate \/ LoseCD \/ Age
    BY <1>7, StillKnown
       DEF DeleteCR, RecreateCR, EditSpec, DropOwner, Relocate, LoseCD, Age, Edit
  <1> QED
    BY <1>1, <1>2, <1>4, <1>5, <1>6, <1>7 DEF Machinery, Environment

-----------------------------------------------------------------------------

LEMMA SecretHistoryStep ==
    ASSUME TypeOK, SecretHistory, Next
    PROVE  SecretHistory'
  <1>0. ASSUME UNCHANGED <<sec, secSeen, secMissed>> PROVE SecretHistory'
    BY <1>0 DEF SecretHistory
  <1>1. CASE CreateSecret
    <2>1. HoldsCert(mem.uid, NewestCert) \in Secret
      BY HoldsCertType, CertRefs DEF NewestCert, TypeOK, CR
    <2> QED  BY <1>1, <2>1, StoredSecretHistory DEF CreateSecret
  <1>2. CASE UpdateSecret
    <2>1. HoldsCert(found.owner, NewestCert) \in Secret
      BY HoldsCertType, CertRefs DEF NewestCert, TypeOK, Secret
    <2> QED  BY <1>0, <1>2, <2>1, StoredSecretHistory DEF UpdateSecret
  <1>3. CASE CollectSecret \/ DropSecret
    <2>1. GoneSecret(sec.rv) \in Secret
      BY ObjectTypes DEF TypeOK, Secret
    <2> QED  BY <1>3, <2>1, StoredSecretHistory DEF CollectSecret, DropSecret
  <1>4. CASE EmptySecret \/ ReplaceCert
    <2>1. \A c \in {NoCert, ForeignCert} : HoldsCert(sec.owner, c) \in Secret
      BY HoldsCertType, CertRefs DEF TypeOK, Secret
    <2> QED  BY <1>4, <2>1, StoredSecretHistory DEF EmptySecret, ReplaceCert
  <1>5. CASE SyncSecret
    BY <1>5, SyncedSecretHistory
  <1>6. CASE Crash
    BY <1>6 DEF Crash, SecretHistory
  <1>7. CASE StartReconcile \/ AddFinalizer \/ FindOwner \/ SetOwner \/ BailOut
               \/ GetSecret \/ ShouldReissue \/ BailOutAgain
    BY <1>0, <1>7 DEF StartReconcile, AddFinalizer, FindOwner, SetOwner, BailOut,
                      GetSecret, ShouldReissue, BailOutAgain
  <1>8. CASE IssueCertificate \/ IssueFails \/ UpdateStatusError \/ UpdateStatus
               \/ SecretExists \/ RevokeCertificate \/ RemoveFinalizer \/ ApiError
    BY <1>0, <1>8 DEF IssueCertificate, IssueFails, UpdateStatusError, UpdateStatus,
                      SecretExists, RevokeCertificate, RemoveFinalizer, ApiError
  <1>9. CASE SyncCR \/ Resync \/ DeleteCR \/ RecreateCR \/ EditSpec \/ DropOwner
               \/ Relocate \/ LoseCD \/ Age
    BY <1>0, <1>9 DEF SyncCR, Resync, DeleteCR, RecreateCR, EditSpec, DropOwner,
                      Relocate, LoseCD, Age, Edit
  <1> QED
    BY <1>1, <1>2, <1>3, <1>4, <1>5, <1>6, <1>7, <1>8, <1>9
       DEF Next, Worker, Machinery, Environment

LEMMA SecretStep == TypeOK /\ SecretInv /\ [Next]_vars => SecretInv'
  <1> SUFFICES ASSUME TypeOK, SecretInv, [Next]_vars PROVE SecretInv'
    OBVIOUS
  <1>1. CASE Next
    <2>1. SecretHistory'
      BY <1>1, SecretHistoryStep DEF SecretInv
    <2>2. ASSUME ~CacheLags PROVE SecretKnown'
      BY <1>1, <2>2, WorkerKnowsSecret, OthersKnowSecret DEF SecretInv, Next
    <2> QED  BY <2>1, <2>2 DEF SecretInv
  <1>2. CASE UNCHANGED vars
    BY <1>2 DEF vars, SecretInv, SecretHistory, SecretKnown, GoodInSecret, HoldsOurs
  <1> QED  BY <1>1, <1>2

(* The informer's versions of the Secret end with the stored one, and with  *)
(* a current cache a pass acts only on what is still so of the Secret.      *)
THEOREM SecretInductive == Spec => []SecretInv
  <1>1. Init => SecretInv
    BY DEF Init, SecretInv, SecretHistory, SecretKnown
  <1> QED  BY <1>1, SecretStep, TypeCorrect, PTL DEF Spec

-----------------------------------------------------------------------------
(* How an object disappears, and when the CA issues. *)

LEMMA Disappears ==
    ASSUME TypeOK, Next, cr.ex, cr.fin, ~cr'.ex
    PROVE  RemoveFinalizer
  <1>1. cr' # cr
    OBVIOUS
  <1>2. ASSUME NEW c \in CR, c.ex, StoreCR(c) PROVE FALSE
    BY <1>2, StoredCR
  <1>3. CASE SetOwner \/ UpdateStatusError \/ UpdateStatus \/ EditSpec \/ DropOwner
    BY <1>1, <1>2, <1>3, QuietEdits DEF Quiet
  <1>4. CASE AddFinalizer
    <2>1. [cr EXCEPT !.fin = TRUE] \in CR /\ [cr EXCEPT !.fin = TRUE].ex
      BY EditedCRType DEF TypeOK, CR
    <2> QED  BY <1>2, <1>4, <2>1 DEF AddFinalizer
  <1>5. CASE DeleteCR
    <2>1. [cr EXCEPT !.del = TRUE] \in CR /\ [cr EXCEPT !.del = TRUE].ex
      BY EditedCRType DEF TypeOK, CR
    <2> QED  BY <1>2, <1>5, <2>1 DEF DeleteCR
  <1>6. CASE StartReconcile \/ FindOwner \/ BailOut \/ GetSecret \/ ShouldReissue
               \/ BailOutAgain \/ IssueCertificate \/ IssueFails
    BY <1>1, <1>6 DEF StartReconcile, FindOwner, BailOut, ReportRelocation, GetSecret,
                      ShouldReissue, BailOutAgain, IssueCertificate, IssueFails
  <1>7. CASE CreateSecret \/ UpdateSecret \/ SecretExists \/ RevokeCertificate
               \/ ApiError \/ Crash
    BY <1>1, <1>7 DEF CreateSecret, UpdateSecret, SecretExists, RevokeCertificate,
                      ApiError, Crash
  <1>8. CASE Machinery
    BY <1>1, <1>8 DEF Machinery, SyncCR, SyncSecret, Resync, CollectSecret
  <1>9. CASE RecreateCR \/ DropSecret \/ EmptySecret \/ ReplaceCert
               \/ Relocate \/ LoseCD \/ Age
    BY <1>1, <1>9 DEF RecreateCR, DropSecret, EmptySecret, ReplaceCert, Relocate,
                      LoseCD, Age
  <1> QED
    BY <1>3, <1>4, <1>5, <1>6, <1>7, <1>8, <1>9 DEF Next, Worker, Environment

LEMMA Issues ==
    ASSUME Next, certs' # certs
    PROVE  pc \in {"issue", "renew"}
  <1>1. CASE IssueCertificate \/ IssueFails
    BY <1>1 DEF IssueCertificate, IssueFails
  <1>2. CASE StartReconcile \/ AddFinalizer \/ FindOwner \/ SetOwner \/ BailOut
               \/ GetSecret \/ ShouldReissue \/ BailOutAgain \/ UpdateStatusError
    BY <1>2 DEF StartReconcile, AddFinalizer, FindOwner, SetOwner, BailOut,
                GetSecret, ShouldReissue, BailOutAgain, UpdateStatusError
  <1>3. CASE CreateSecret \/ UpdateSecret \/ UpdateStatus \/ SecretExists
               \/ RevokeCertificate \/ RemoveFinalizer \/ ApiError \/ Crash
    BY <1>3 DEF CreateSecret, UpdateSecret, UpdateStatus, SecretExists,
                RevokeCertificate, RemoveFinalizer, ApiError, Crash
  <1>4. CASE Machinery
    BY <1>4 DEF Machinery, SyncCR, SyncSecret, Resync, CollectSecret
  <1>5. CASE Environment
    BY <1>5 DEF Environment, DeleteCR, RecreateCR, EditSpec, DropOwner, DropSecret,
                EmptySecret, ReplaceCert, Relocate, LoseCD, Age, Edit
  <1> QED  BY <1>1, <1>2, <1>3, <1>4, <1>5 DEF Next, Worker

(* With a current cache a CertificateRequest leaves past its finalizer only *)
(* when the certificate in its Secret has been revoked: nobody puts another *)
(* one into the Secret between RevokeCertificate and the removal of the     *)
(* finalizer, and a revocation that failed never leads to that removal.     *)
THEOREM RevokedFirst == ~CacheLags => (Spec => RevokedBeforeGone)
  <1> SUFFICES ASSUME ~CacheLags PROVE Spec => RevokedBeforeGone
    OBVIOUS
  <1>1. TypeOK /\ SecretInv /\ [Next]_vars =>
            [(cr.ex /\ cr.fin /\ ~cr'.ex /\ HoldsOurs) => sec.cert \in revoked]_vars
    <2> SUFFICES ASSUME TypeOK, SecretInv, Next, cr.ex, cr.fin, ~cr'.ex, HoldsOurs
                 PROVE  sec.cert \in revoked
      OBVIOUS
    <2>1. pc = "removeFinalizer"
      BY Disappears DEF RemoveFinalizer
    <2> QED  BY <2>1 DEF SecretInv, SecretKnown
  <1> QED  BY <1>1, SecretInductive, TypeCorrect, PTL DEF RevokedBeforeGone, Spec

(* With a current cache the CA is never asked for a certificate while the   *)
(* Secret holds a good one for the names the worker asks for, although the  *)
(* Secret was looked at several calls earlier.                              *)
THEOREM NoDuplicates == ~CacheLags => (Spec => NoDuplicateIssuance)
  <1> SUFFICES ASSUME ~CacheLags PROVE Spec => NoDuplicateIssuance
    OBVIOUS
  <1>1. SecretInv /\ [Next]_vars => [certs' # certs => ~GoodInSecret]_vars
    <2> SUFFICES ASSUME SecretInv, Next, certs' # certs PROVE ~GoodInSecret
      OBVIOUS
    <2>1. pc \in {"issue", "renew"}
      BY Issues
    <2>2. CASE pc = "issue"
      BY <2>2 DEF SecretInv, SecretKnown, GoodInSecret, HoldsOurs
    <2>3. CASE pc = "renew"
      BY <2>3 DEF SecretInv, SecretKnown
    <2> QED  BY <2>1, <2>2, <2>3
  <1> QED  BY <1>1, SecretInductive, PTL DEF NoDuplicateIssuance, Spec
=============================================================================
