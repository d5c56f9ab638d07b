--------------------------- MODULE AcmeOrder_proofs ---------------------------
(***************************************************************************)
(* Proofs about AcmeOrder for any number of CertificateRequests with any   *)
(* names in one zone, on each cloud, and any faults.                       *)
(***************************************************************************)
EXTENDS AcmeOrder, TLAPS

USE DEF site

-----------------------------------------------------------------------------
(* Names and types. *)

LEMMA Names ==
    /\ \A c \in CRs : DnsNames[c] \subseteq AllNames
    /\ \A n \in AllNames : BaseName[n] \in RecordNames /\ BaseName[n] # AccessTest
    /\ AccessTest \in RecordNames
  BY ConstantsAssumption DEF AllNames, RecordNames

LEMMA ValueTypes ==
    /\ NoRecord \in Values /\ TestEntry \in Values
    /\ \A c \in CRs, n \in AllNames : Token(c, n) \in Values
  BY DEF Values

LEMMA EmptyType == Empty \in [RecordNames -> Values]
  BY ValueTypes DEF Empty

LEMMA TargetsAreRecords == \A c : Targets(c) \subseteq RecordNames
  BY DEF Targets

(* What a step of one worker may change. *)
Moved ==
    /\ zone \in [RecordNames -> Values] /\ saw \in [CRs -> [RecordNames -> Values]]
    /\ pc \in [CRs -> PC]
    /\ todo \in [CRs -> SUBSET AllNames] /\ cur \in [CRs -> SUBSET AllNames]

LEMMA GotoType ==
    ASSUME TypeOK, NEW c \in CRs, NEW p \in PC, Goto(c, p)
    PROVE  pc' \in [CRs -> PC]
  BY DEF TypeOK, Goto

LEMMA ReturnType ==
    ASSUME TypeOK, NEW c \in CRs, NEW p \in PC, Return(c, p),
           zone' \in [RecordNames -> Values]
    PROVE  Moved'
  BY GotoType, EmptyType DEF TypeOK, Return, Moved

LEMMA FailType ==
    ASSUME TypeOK, NEW c \in CRs, Fail(c)
    PROVE  Moved'
  <1>1. "idle" \in PC
    BY DEF PC
  <1>2. zone' \in [RecordNames -> Values]
    BY DEF Fail, TypeOK
  <1> QED  BY <1>1, <1>2, ReturnType DEF Fail

LEMMA ListType ==
    ASSUME TypeOK, NEW c \in CRs, NEW p \in PC, NEW records, List(c, records, p)
    PROVE  Moved'
  <1>1. [r \in RecordNames |-> IF r \in records THEN zone[r] ELSE NoRecord]
            \in [RecordNames -> Values]
    BY ValueTypes DEF TypeOK
  <1> QED  BY <1>1, GotoType DEF TypeOK, List, Moved

LEMMA ListPageType ==
    ASSUME TypeOK, NEW c \in CRs, NEW p \in PC, ListPage(c, p)
    PROVE  Moved'
  BY ListType, FailType DEF ListPage

(* The cleaning sees the zone as it is. *)
LEMMA ZoneListed ==
    ASSUME TypeOK, NEW c \in CRs, NEW p, ListZone(c, p)
    PROVE  saw'[c] = zone
  <1>1. zone = [r \in RecordNames |-> zone[r]]
    BY DEF TypeOK
  <1>2. [r \in RecordNames |-> IF r \in RecordNames THEN zone[r] ELSE NoRecord]
            = [r \in RecordNames |-> zone[r]]
    OBVIOUS
  <1> QED  BY <1>1, <1>2 DEF ListZone, List, TypeOK

LEMMA UpsertType ==
    ASSUME TypeOK, NEW c \in CRs, NEW r \in RecordNames, NEW v \in Values,
           NEW p \in PC, Upsert(c, r, v, p)
    PROVE  Moved'
  <1>1. CASE Accepts(c, r)
    BY <1>1, GotoType DEF Upsert, TypeOK, Moved
  <1>2. CASE ~Accepts(c, r)
    BY <1>2, FailType DEF Upsert
  <1> QED  BY <1>1, <1>2

LEMMA StayType ==
    ASSUME TypeOK, NEW c \in CRs, NEW p \in PC, Goto(c, p), UNCHANGED <<zone, saw>>,
           todo' \in [CRs -> SUBSET AllNames], cur' \in [CRs -> SUBSET AllNames]
    PROVE  Moved'
  BY GotoType DEF TypeOK, Moved

LEMMA DeleteType ==
    ASSUME TypeOK, NEW c \in CRs, Delete(c)
    PROVE  zone' \in [RecordNames -> Values]
  BY ValueTypes DEF TypeOK, Delete

LEMMA WorkerType ==
    ASSUME TypeOK, NEW c \in CRs, Worker(c)
    PROVE  Moved'
  <1> USE DEF PC
  <1>1. CASE Start(c)
    BY <1>1, StayType DEF Start, TypeOK
  <1>2. CASE TestList(c)
    BY <1>2, ListPageType DEF TestList
  <1>3. CASE TestWrite(c)
    BY <1>3, UpsertType, Names, ValueTypes DEF TestWrite
  <1>4. CASE TestDelete(c)
    <2>1. CASE zone[AccessTest] # NoRecord \/ platform = "Azure"
      BY <1>4, <2>1, GotoType, ValueTypes DEF TestDelete, TypeOK, Moved
    <2>2. CASE ~(zone[AccessTest] # NoRecord \/ platform = "Azure")
      BY <1>4, <2>2, FailType DEF TestDelete
    <2> QED  BY <2>1, <2>2
  <1>5. CASE NewOrder(c)
    BY <1>5, StayType, Names DEF NewOrder, TypeOK
  <1>6. CASE Authorize(c)
    <2>1. CASE todo[c] = {} /\ Goto(c, "finalize") /\ UNCHANGED <<zone, todo, cur, saw>>
      BY <2>1, StayType DEF TypeOK
    <2>2. ASSUME NEW n \in todo[c], ZoneFound,
                 cur' = [cur EXCEPT ![c] = {n}],
                 Goto(c, IF ByList THEN "answerList" ELSE "answer"),
                 UNCHANGED <<zone, todo, saw>>
          PROVE  Moved'
      BY <2>2, StayType DEF TypeOK
    <2>3. CASE Fail(c)
      BY <2>3, FailType
    <2> QED  BY <1>6, <2>1, <2>2, <2>3 DEF Authorize
  <1>7. CASE AnswerList(c)
    BY <1>7, ListPageType DEF AnswerList
  <1>8. CASE Answer(c)
    <2>1. PICK n \in cur[c] : Upsert(c, BaseName[n], Token(c, n), "verify")
      BY <1>8 DEF Answer
    <2>2. n \in AllNames
      BY DEF TypeOK
    <2> QED  BY <2>1, <2>2, UpsertType, Names, ValueTypes
  <1>9. CASE Verify(c)
    BY <1>9, FailType, StayType DEF Verify, TypeOK
  <1>10. CASE UpdateChallenge(c)
    BY <1>10, FailType, StayType DEF UpdateChallenge, TypeOK
  <1>11. CASE FinalizeOrder(c)
    BY <1>11, StayType, Names DEF FinalizeOrder, TypeOK
  <1>12. CASE CleanList(c)
    <2>1. CASE ByList /\ ListZone(c, "cleanDelete")
      BY <2>1, ListType DEF ListZone
    <2>2. ASSUME NEW n \in todo[c],
                 cur' = [cur EXCEPT ![c] = {n}], todo' = [todo EXCEPT ![c] = @ \ {n}],
                 saw' = [saw EXCEPT ![c] = zone], Goto(c, "cleanDelete"), UNCHANGED zone
          PROVE  Moved'
      BY <2>2, GotoType DEF TypeOK, Moved
    <2>3. CASE Return(c, "done") /\ UNCHANGED zone
      BY <2>3, ReturnType DEF TypeOK
    <2> QED  BY <1>12, <2>1, <2>2, <2>3 DEF CleanList
  <1>13. CASE CleanGCP(c)
    BY <1>13, ReturnType, DeleteType DEF CleanGCP, TypeOK
  <1>14. CASE CleanAWS(c)
    <2>1. CASE Unchanged(c)
      BY <1>14, <2>1, DeleteType, GotoType, EmptyType DEF CleanAWS, TypeOK, Moved
    <2>2. CASE ~Unchanged(c)
      BY <1>14, <2>2, ReturnType DEF CleanAWS, TypeOK
    <2> QED  BY <2>1, <2>2
  <1> QED
    BY <1>1, <1>2, <1>3, <1>4, <1>5, <1>6, <1>7, <1>8, <1>9, <1>10, <1>11, <1>12,
       <1>13, <1>14 DEF Worker

LEMMA TypeStep == TypeOK /\ [Next]_vars => TypeOK'
  <1> SUFFICES ASSUME TypeOK, [Next]_vars PROVE TypeOK'
    OBVIOUS
  <1>1. ASSUME NEW c \in CRs, Worker(c) PROVE TypeOK'
    <2>1. Moved'
      BY <1>1, WorkerType
    <2> QED  BY <1>1, <2>1 DEF Worker, Moved, TypeOK
  <1>2. ASSUME NEW c \in CRs, RevokeCertificate(c) PROVE TypeOK'
    <2>1. Moved'
      BY <1>2, StayType, Names DEF RevokeCertificate, TypeOK, PC
    <2> QED  BY <1>2, <2>1 DEF RevokeCertificate, Moved, TypeOK
  <1>3. ASSUME NEW c \in CRs, CallFails(c) PROVE TypeOK'
    <2>1. PICK p \in PC : Return(c, p)
      BY <1>3 DEF CallFails, PC
    <2>2. Moved'
      BY <1>3, <2>1, ReturnType DEF CallFails, TypeOK
    <2> QED  BY <1>3, <2>2 DEF CallFails, Fault, Moved, TypeOK
  <1>4. CASE Restart
    <2>1. pc' \in [CRs -> PC]
      BY <1>4 DEF Restart, TypeOK, PC, Returned
    <2> QED  BY <1>4, <2>1, EmptyType DEF Restart, Fault, TypeOK
  <1>5. CASE UNCHANGED vars
    BY <1>5 DEF vars, TypeOK
  <1> QED  BY <1>1, <1>2, <1>3, <1>4, <1>5 DEF Next

(* Every variable keeps its type, on each cloud and whatever fails. *)
THEOREM TypeCorrect == Spec => []TypeOK
  <1>1. Init => TypeOK
    <2> SUFFICES ASSUME Init PROVE TypeOK
      OBVIOUS
    <2>1. onFirstPage \in BOOLEAN /\ firstPage \subseteq RecordNames
      <3>1. onFirstPage \in BOOLEAN
        BY Zenon DEF Init
      <3>2. firstPage \in FirstPages \cup {RecordNames}
        BY DEF Init
      <3> QED  BY <3>1, <3>2, ConstantsAssumption DEF RecordNames
    <2>2. /\ platform \in Platforms /\ zone = Empty /\ retired = {} /\ faults = 0
          /\ pc = [c \in CRs |-> "idle"] /\ saw = [c \in CRs |-> Empty]
          /\ todo = [c \in CRs |-> {}] /\ cur = [c \in CRs |-> {}]
      BY Zenon DEF Init
    <2> QED  BY <2>1, <2>2, EmptyType DEF TypeOK, PC
  <1> QED  BY <1>1, TypeStep, PTL DEF Spec

-----------------------------------------------------------------------------
(* What other workers leave of the records of c. *)

Spared(c) ==
    \A n \in DnsNames[c] : \/ zone'[BaseName[n]] = zone[BaseName[n]]
                           \/ ByList /\ zone'[BaseName[n]] = NoRecord

LEMMA SparedIfUnchanged ==
    ASSUME NEW c, UNCHANGED zone
    PROVE  Spared(c)
  BY DEF Spared

(* A test record is nobody's challenge record. *)
LEMMA SparedByTest ==
    ASSUME TypeOK, NEW c \in CRs, NEW v, zone' = [zone EXCEPT ![AccessTest] = v]
    PROVE  Spared(c)
  BY Names DEF Spared, TypeOK

LEMMA SparedByAnswer ==
    ASSUME TypeOK, NamesDisjoint, NEW c \in CRs, NEW d \in CRs, c # d,
           NEW n \in DnsNames[d], NEW v, zone' = [zone EXCEPT ![BaseName[n]] = v]
    PROVE  Spared(c)
  <1> SUFFICES ASSUME NEW m \in DnsNames[c]
               PROVE  zone'[BaseName[m]] = zone[BaseName[m]]
    BY DEF Spared
  <1>1. BaseName[m] # BaseName[n]
    BY DEF NamesDisjoint
  <1> QED  BY <1>1 DEF TypeOK

LEMMA SparedByDelete ==
    ASSUME TypeOK, NamesDisjoint, NEW c \in CRs, NEW d \in CRs, c # d, HandOK(d), Delete(d)
    PROVE  Spared(c)
  <1> SUFFICES ASSUME NEW m \in DnsNames[c],
                      ~(ByList /\ zone'[BaseName[m]] = NoRecord)
               PROVE  zone'[BaseName[m]] = zone[BaseName[m]]
    BY DEF Spared
  <1>1. BaseName[m] \in RecordNames
    BY Names
  <1>2. BaseName[m] \notin Targets(d)
    <2> SUFFICES ASSUME BaseName[m] \in Targets(d) PROVE FALSE
      OBVIOUS
    <2>1. zone'[BaseName[m]] = NoRecord
      BY <1>1 DEF Delete
    <2>2. PICK n \in cur[d] : BaseName[m] = BaseName[n]
      BY <2>1 DEF Targets
    <2> QED  BY <2>2 DEF HandOK, NamesDisjoint
  <1> QED  BY <1>1, <1>2 DEF Delete

LEMMA SparedByUpsert ==
    ASSUME TypeOK, NEW c \in CRs, NEW d, NEW r, NEW v, NEW p, Upsert(d, r, v, p),
           zone' = [zone EXCEPT ![r] = v] => Spared(c)
    PROVE  Spared(c)
  BY SparedIfUnchanged DEF Upsert, Fail

LEMMA SparedByOthers ==
    ASSUME TypeOK, NamesDisjoint, NEW c \in CRs, NEW d \in CRs, c # d, HandOK(d),
           Worker(d)
    PROVE  Spared(c)
  <1>1. CASE TestWrite(d)
    BY <1>1, SparedByUpsert, SparedByTest DEF TestWrite
  <1>2. CASE TestDelete(d)
    BY <1>2, SparedByTest, SparedIfUnchanged DEF TestDelete, Fail
  <1>3. CASE Answer(d)
    <2>1. PICK n \in cur[d] : Upsert(d, BaseName[n], Token(d, n), "verify")
      BY <1>3 DEF Answer
    <2>2. n \in DnsNames[d]
      BY DEF HandOK
    <2> QED  BY <2>1, <2>2, SparedByUpsert, SparedByAnswer
  <1>4. CASE CleanGCP(d)
    BY <1>4, SparedByDelete, SparedIfUnchanged DEF CleanGCP
  <1>5. CASE CleanAWS(d)
    BY <1>5, SparedByDelete, SparedIfUnchanged DEF CleanAWS
  <1>6. CASE Start(d) \/ TestList(d) \/ NewOrder(d) \/ Authorize(d) \/ AnswerList(d)
    BY <1>6, SparedIfUnchanged
       DEF Start, TestList, NewOrder, Authorize, AnswerList, ListPage, List, Fail
  <1>7. CASE Verify(d) \/ UpdateChallenge(d) \/ FinalizeOrder(d) \/ CleanList(d)
    BY <1>7, SparedIfUnchanged
       DEF Verify, UpdateChallenge, FinalizeOrder, CleanList, ListZone, List, Fail
  <1> QED  BY <1>1, <1>2, <1>3, <1>4, <1>5, <1>6, <1>7 DEF Worker

(* A worker moves only itself. *)
OnlyMoves(d) ==
    \A c \in CRs \ {d} : /\ pc'[c] = pc[c] /\ todo'[c] = todo[c]
                         /\ cur'[c] = cur[c] /\ saw'[c] = saw[c]

LEMMA ReturnMoves ==
    ASSUME TypeOK, NEW d \in CRs, NEW p, Return(d, p)
    PROVE  OnlyMoves(d)
  BY DEF TypeOK, OnlyMoves, Return, Goto

LEMMA WorkerMoves ==
    ASSUME TypeOK, NEW d \in CRs, Worker(d)
    PROVE  OnlyMoves(d)
  <1> USE DEF Goto, ListZone, List, OnlyMoves, TypeOK
  <1>1. ASSUME NEW r, NEW v, NEW p, Upsert(d, r, v, p) PROVE OnlyMoves(d)
    BY <1>1, ReturnMoves DEF Upsert, Fail
  <1>2. CASE TestWrite(d) \/ Answer(d)
    BY <1>1, <1>2 DEF TestWrite, Answer
  <1>3. CASE TestDelete(d)
    BY <1>3, ReturnMoves DEF TestDelete, Fail
  <1>4. CASE Start(d) \/ NewOrder(d)
    BY <1>4 DEF Start, NewOrder
  <1>5. CASE Authorize(d)
    BY <1>5, ReturnMoves DEF Authorize, Fail
  <1>6. CASE Verify(d) \/ UpdateChallenge(d)
    BY <1>6, ReturnMoves DEF Verify, UpdateChallenge, Fail
  <1>7. CASE FinalizeOrder(d)
    BY <1>7 DEF FinalizeOrder
  <1>8. CASE CleanList(d)
    BY <1>8, ReturnMoves DEF CleanList
  <1>9. CASE CleanGCP(d)
    BY <1>9, ReturnMoves DEF CleanGCP
  <1>10. CASE CleanAWS(d)
    BY <1>10, ReturnMoves DEF CleanAWS
  <1>11. CASE TestList(d) \/ AnswerList(d)
    <2>1. PICK p : ListPage(d, p)
      BY <1>11 DEF TestList, AnswerList
    <2> QED  BY <2>1, ReturnMoves DEF ListPage, Fail
  <1> QED
    BY <1>2, <1>3, <1>4, <1>5, <1>6, <1>7, <1>8, <1>9, <1>10, <1>11 DEF Worker

(* What is so for c stays so when others move. *)
LEMMA OtherStep ==
    ASSUME TypeOK, NEW c \in CRs, NEW d \in CRs, c # d, OrderOK(c), OnlyMoves(d),
           Spared(c), UNCHANGED site, faults' = 0 => faults = 0
    PROVE  OrderOK(c)'
  <1>1. /\ pc'[c] = pc[c] /\ todo'[c] = todo[c]
        /\ cur'[c] = cur[c] /\ saw'[c] = saw[c]
    BY DEF OnlyMoves
  <1>2. HandOK(c)'
    BY <1>1 DEF OrderOK, HandOK
  <1>3. platform = "AWS" =>
            \A n \in DnsNames[c] : zone'[BaseName[n]] = zone[BaseName[n]]
    BY DEF Spared, ByList
  <1>4. StandsOK(c)'
    BY <1>1, <1>3 DEF OrderOK, HandOK, StandsOK, Published
  <1>5. ListedOK(c)'
    BY <1>1 DEF OrderOK, ListedOK, Spared, ByList
  <1>6. LeftOK(c)'
    BY <1>1, <1>3 DEF OrderOK, LeftOK
  <1>7. DoneOK(c)'
    BY <1>1 DEF OrderOK, DoneOK, MustBeClean, Unpublished, Spared
  <1> QED  BY <1>2, <1>4, <1>5, <1>6, <1>7 DEF OrderOK

-----------------------------------------------------------------------------
(* The steps of the worker of c itself. *)

(* Where nothing but HandOK is asked. *)
LEMMA QuietStep ==
    ASSUME NEW c, HandOK(c)',
           pc'[c] \notin {"verify", "challenge", "cleanList", "cleanDelete", "done"}
    PROVE  OrderOK(c)'
  BY DEF OrderOK, StandsOK, ListedOK, LeftOK, DoneOK

LEMMA ReturnStep ==
    ASSUME TypeOK, NEW c \in CRs, NEW p, Return(c, p),
           p = "done" => Unpublished(c)' \/ ~MustBeClean',
           p \in {"idle", "done", "doneUnclean"}
    PROVE  OrderOK(c)'
  <1>1. pc'[c] = p /\ todo'[c] = {} /\ cur'[c] = {}
    BY DEF Return, Goto, TypeOK
  <1>2. HandOK(c)'
    BY <1>1 DEF HandOK
  <1> QED
    BY <1>1, <1>2 DEF OrderOK, StandsOK, ListedOK, LeftOK, DoneOK

LEMMA FailStep ==
    ASSUME TypeOK, NEW c \in CRs, Fail(c)
    PROVE  OrderOK(c)'
  BY ReturnStep DEF Fail

(* Nothing is in hand before and after the authorizations. *)
LEMMA EmptyHand ==
    ASSUME NEW c, HandOK(c), pc[c] \notin InHand
    PROVE  cur[c] = {}
  BY DEF HandOK

LEMMA ForwardStep ==
    ASSUME TypeOK, NEW c \in CRs, OrderOK(c), pc[c] \notin InHand,
           NEW p, Goto(c, p), UNCHANGED <<todo, cur>>,
           p \notin {"verify", "challenge", "cleanList", "cleanDelete", "done"}
    PROVE  OrderOK(c)'
  <1>1. pc'[c] = p
    BY DEF Goto, TypeOK
  <1>2. HandOK(c)'
    BY EmptyHand DEF OrderOK, HandOK
  <1> QED  BY <1>1, <1>2, QuietStep

LEMMA BeginsCleaning ==
    ASSUME TypeOK, NEW c \in CRs, OrderOK(c), pc[c] \notin InHand,
           Goto(c, "cleanList"), UNCHANGED <<site, cur>>,
           todo' = [todo EXCEPT ![c] = IF onFirstPage THEN DnsNames[c] ELSE {}]
    PROVE  OrderOK(c)'
  <1>1. pc'[c] = "cleanList" /\ cur'[c] = {}
    BY EmptyHand DEF Goto, TypeOK, OrderOK
  <1>2. /\ onFirstPage => todo'[c] = DnsNames[c]
        /\ ~onFirstPage => todo'[c] = {}
    BY DEF TypeOK
  <1>3. HandOK(c)'
    BY <1>1, <1>2 DEF HandOK
  <1>4. LeftOK(c)'
    BY <1>1, <1>2 DEF LeftOK
  <1> QED  BY <1>1, <1>3, <1>4 DEF OrderOK, StandsOK, ListedOK, DoneOK

LEMMA AnswerStep ==
    ASSUME TypeOK, NEW c \in CRs, OrderOK(c), Answer(c), UNCHANGED site
    PROVE  OrderOK(c)'
  <1>1. PICK n \in cur[c] : Upsert(c, BaseName[n], Token(c, n), "verify")
    BY DEF Answer
  <1>2. CASE Accepts(c, BaseName[n])
    <2>1. /\ zone' = [zone EXCEPT ![BaseName[n]] = Token(c, n)]
          /\ pc' = [pc EXCEPT ![c] = "verify"] /\ UNCHANGED <<todo, cur, saw>>
      BY <1>1, <1>2 DEF Upsert, Goto
    <2>2. pc'[c] = "verify"
      BY <2>1 DEF TypeOK
    <2>3. HandOK(c)'
      BY <2>1, <2>2 DEF OrderOK, HandOK, InHand
    <2>4. Published(c)'
      <3>1. \A m \in cur[c] : m = n
        BY DEF OrderOK, HandOK
      <3>2. zone'[BaseName[n]] = Token(c, n)
        <4>1. n \in AllNames
          BY DEF TypeOK
        <4> QED  BY <2>1, <4>1, Names DEF TypeOK
      <3> QED  BY <2>1, <3>1, <3>2 DEF Published
    <2> QED  BY <2>2, <2>3, <2>4 DEF OrderOK, StandsOK, ListedOK, LeftOK, DoneOK
  <1>3. CASE ~Accepts(c, BaseName[n])
    BY <1>1, <1>3, FailStep DEF Upsert
  <1> QED  BY <1>2, <1>3

LEMMA CleanListStep ==
    ASSUME TypeOK, NEW c \in CRs, OrderOK(c), CleanList(c), UNCHANGED <<site, faults>>
    PROVE  OrderOK(c)'
  <1>1. cur[c] = {}
    BY EmptyHand DEF CleanList, OrderOK, InHand
  <1>2. CASE ByList /\ ListZone(c, "cleanDelete")
    <2>1. /\ pc'[c] = "cleanDelete" /\ saw'[c] = zone /\ UNCHANGED <<zone, todo, cur>>
      BY <1>2, ZoneListed DEF ListZone, List, Goto, TypeOK
    <2>2. HandOK(c)'
      BY <1>1, <2>1 DEF OrderOK, HandOK
    <2>3. platform' # "AWS"
      BY <1>2 DEF ByList
    <2> QED
      BY <2>1, <2>2, <2>3 DEF OrderOK, StandsOK, ListedOK, LeftOK, DoneOK
  <1>3. ASSUME NEW n \in todo[c],
               cur' = [cur EXCEPT ![c] = {n}], todo' = [todo EXCEPT ![c] = @ \ {n}],
               saw' = [saw EXCEPT ![c] = zone], Goto(c, "cleanDelete"), UNCHANGED zone
        PROVE  OrderOK(c)'
    <2>1. /\ pc'[c] = "cleanDelete" /\ saw'[c] = zone /\ zone' = zone
          /\ cur'[c] = {n} /\ todo'[c] = todo[c] \ {n}
      BY <1>3 DEF Goto, TypeOK
    <2>2. HandOK(c)'
      BY <1>3, <2>1 DEF OrderOK, HandOK, InHand
    <2>3. todo'[c] \cup cur'[c] = todo[c] \cup cur[c]
      BY <1>1, <1>3, <2>1
    <2>4. LeftOK(c)'
      BY <2>1, <2>3 DEF OrderOK, LeftOK, CleanList
    <2> QED
      BY <2>1, <2>2, <2>4 DEF OrderOK, StandsOK, ListedOK, DoneOK
  <1>4. CASE ~ByList /\ todo[c] = {} /\ Return(c, "done") /\ UNCHANGED zone
    <2>1. MustBeClean => Unpublished(c)
      BY <1>1, <1>4 DEF MustBeClean, ByList, OrderOK, LeftOK, CleanList, Unpublished
    <2>2. MustBeClean' => Unpublished(c)'
      BY <1>4, <2>1 DEF MustBeClean, Unpublished
    <2> QED  BY <1>4, <2>2, ReturnStep
  <1> QED  BY <1>2, <1>3, <1>4 DEF CleanList

(* What is deleted is what was listed, and what is left was not there. *)
LEMMA CleanGCPStep ==
    ASSUME TypeOK, NEW c \in CRs, OrderOK(c), CleanGCP(c), UNCHANGED <<site, faults>>
    PROVE  OrderOK(c)'
  <1>1. CASE Delete(c) /\ Return(c, "done")
    <2>1. Unpublished(c)'
      <3> SUFFICES ASSUME NEW n \in DnsNames[c] PROVE zone'[BaseName[n]] = NoRecord
        BY DEF Unpublished
      <3>1. BaseName[n] \in RecordNames
        BY Names
      <3>2. zone[BaseName[n]] = saw[c][BaseName[n]] \/ zone[BaseName[n]] = NoRecord
        BY DEF OrderOK, ListedOK, CleanGCP
      <3> QED  BY <1>1, <3>1, <3>2 DEF Delete, Targets, CleanGCP
    <2> QED  BY <1>1, <2>1, ReturnStep
  <1>2. CASE Return(c, "doneUnclean")
    BY <1>2, ReturnStep
  <1> QED  BY <1>1, <1>2 DEF CleanGCP

LEMMA CleanAWSStep ==
    ASSUME TypeOK, NEW c \in CRs, OrderOK(c), CleanAWS(c), UNCHANGED <<site, faults>>
    PROVE  OrderOK(c)'
  <1>1. \A n \in DnsNames[c] : zone[BaseName[n]] = saw[c][BaseName[n]]
    BY DEF OrderOK, ListedOK, CleanAWS
  <1>2. Unchanged(c)
    BY <1>1 DEF Unchanged, Targets, CleanAWS, OrderOK, HandOK
  <1>3. /\ Delete(c) /\ Goto(c, "cleanList") /\ UNCHANGED todo
        /\ cur' = [cur EXCEPT ![c] = {}] /\ saw' = [saw EXCEPT ![c] = Empty]
    BY <1>2 DEF CleanAWS
  <1>4. pc'[c] = "cleanList" /\ cur'[c] = {} /\ todo'[c] = todo[c]
    BY <1>3 DEF Goto, TypeOK
  <1>5. HandOK(c)'
    BY <1>4 DEF OrderOK, HandOK
  <1>6. LeftOK(c)'
    <2> SUFFICES ASSUME platform = "AWS", onFirstPage, NEW n \in DnsNames[c],
                        zone'[BaseName[n]] # NoRecord
                 PROVE  \E m \in todo[c] : BaseName[m] = BaseName[n]
      BY <1>4 DEF LeftOK
    <2>1. BaseName[n] \in RecordNames
      BY Names
    <2>2. zone[BaseName[n]] # NoRecord /\ BaseName[n] \notin Targets(c)
      BY <1>3, <2>1 DEF Delete
    <2>3. PICK m \in todo[c] \cup cur[c] : BaseName[m] = BaseName[n]
      BY <2>2 DEF OrderOK, LeftOK, CleanAWS
    <2>4. m \notin cur[c]
      BY <1>1, <2>1, <2>2, <2>3 DEF Targets
    <2> QED  BY <2>3, <2>4
  <1> QED  BY <1>4, <1>5, <1>6 DEF OrderOK, StandsOK, ListedOK, DoneOK

LEMMA OwnStep ==
    ASSUME TypeOK, NEW c \in CRs, OrderOK(c), Worker(c)
    PROVE  OrderOK(c)'
  <1>0. UNCHANGED <<site, faults>>
    BY DEF Worker
  <1>1. CASE Start(c)
    BY <1>1, ForwardStep DEF Start, InHand
  <1>2. CASE TestList(c)
    BY <1>2, ForwardStep, FailStep DEF TestList, ListPage, List, InHand
  <1>3. CASE TestWrite(c)
    BY <1>3, ForwardStep, FailStep DEF TestWrite, Upsert, InHand
  <1>4. CASE TestDelete(c)
    BY <1>4, ForwardStep, FailStep DEF TestDelete, InHand
  <1>5. CASE NewOrder(c)
    <2>1. pc'[c] = "authorize" /\ todo'[c] = DnsNames[c] /\ cur'[c] = {}
      BY <1>5, EmptyHand DEF NewOrder, OrderOK, InHand, Goto, TypeOK
    <2>2. HandOK(c)'
      BY <2>1 DEF HandOK
    <2> QED  BY <2>1, <2>2, QuietStep
  <1>6. CASE Authorize(c)
    <2>1. CASE todo[c] = {} /\ Goto(c, "finalize") /\ UNCHANGED <<zone, todo, cur, saw>>
      BY <1>6, <2>1, ForwardStep DEF Authorize, InHand
    <2>2. ASSUME NEW n \in todo[c], cur' = [cur EXCEPT ![c] = {n}],
                 Goto(c, IF ByList THEN "answerList" ELSE "answer"),
                 UNCHANGED <<zone, todo, saw>>
          PROVE  OrderOK(c)'
      <3>1. pc'[c] \in {"answerList", "answer"} /\ cur'[c] = {n} /\ todo'[c] = todo[c]
        BY <2>2 DEF Goto, TypeOK
      <3>2. HandOK(c)'
        BY <2>2, <3>1 DEF OrderOK, HandOK, InHand
      <3> QED  BY <3>1, <3>2, QuietStep
    <2>3. CASE Fail(c)
      BY <2>3, FailStep
    <2> QED  BY <1>6, <2>1, <2>2, <2>3 DEF Authorize
  <1>7. CASE AnswerList(c)
    <2>1. CASE onFirstPage
      <3>1. pc'[c] = "answer" /\ UNCHANGED <<todo, cur>>
        BY <1>7, <2>1 DEF AnswerList, ListPage, List, Goto, TypeOK
      <3>2. HandOK(c)'
        BY <3>1 DEF OrderOK, HandOK, InHand
      <3> QED  BY <3>1, <3>2, QuietStep
    <2>2. CASE ~onFirstPage
      BY <1>7, <2>2, FailStep DEF AnswerList, ListPage
    <2> QED  BY <2>1, <2>2
  <1>8. CASE Answer(c)
    BY <1>0, <1>8, AnswerStep
  <1>9. CASE Verify(c)
    <2>1. CASE Published(c)
      <3>1. pc'[c] = "challenge" /\ UNCHANGED <<zone, todo, cur>>
        BY <1>9, <2>1 DEF Verify, Goto, TypeOK
      <3>2. HandOK(c)' /\ Published(c)'
        BY <2>1, <3>1 DEF OrderOK, HandOK, InHand, Published
      <3> QED  BY <3>1, <3>2 DEF OrderOK, StandsOK, ListedOK, LeftOK, DoneOK
    <2>2. CASE ~Published(c)
      BY <1>9, <2>2, FailStep DEF Verify
    <2> QED  BY <2>1, <2>2
  <1>10. CASE UpdateChallenge(c)
    <2>1. CASE Published(c)
      <3>1. pc'[c] = "authorize" /\ cur'[c] = {} /\ todo'[c] \subseteq todo[c]
        BY <1>10, <2>1 DEF UpdateChallenge, Goto, TypeOK
      <3>2. HandOK(c)'
        BY <3>1 DEF OrderOK, HandOK
      <3> QED  BY <3>1, <3>2, QuietStep
    <2>2. CASE ~Published(c)
      BY <1>10, <2>2, FailStep DEF UpdateChallenge
    <2> QED  BY <2>1, <2>2
  <1>11. CASE FinalizeOrder(c)
    BY <1>0, <1>11, BeginsCleaning DEF FinalizeOrder, InHand
  <1>12. CASE CleanList(c)
    BY <1>0, <1>12, CleanListStep
  <1>13. CASE CleanGCP(c)
    BY <1>0, <1>13, CleanGCPStep
  <1>14. CASE CleanAWS(c)
    BY <1>0, <1>14, CleanAWSStep
  <1> QED
    BY <1>1, <1>2, <1>3, <1>4, <1>5, <1>6, <1>7, <1>8, <1>9, <1>10, <1>11, <1>12,
       <1>13, <1>14 DEF Worker

-----------------------------------------------------------------------------
(* The invariant holds. *)

LEMMA RestartStep ==
    ASSUME TypeOK, NEW c \in CRs, OrderOK(c), Restart
    PROVE  OrderOK(c)'
  <1>1. /\ todo'[c] = {} /\ cur'[c] = {}
        /\ pc'[c] = "done" => pc[c] = "done"
        /\ pc'[c] \in {"idle", "done", "doneUnclean"}
    BY DEF Restart, Returned
  <1>2. HandOK(c)'
    BY <1>1 DEF HandOK
  <1>3. MustBeClean' => MustBeClean
    BY DEF Restart, Fault, MustBeClean, TypeOK
  <1>4. DoneOK(c)'
    BY <1>1, <1>3 DEF Restart, OrderOK, DoneOK, Unpublished
  <1> QED  BY <1>1, <1>2, <1>4 DEF OrderOK, StandsOK, ListedOK, LeftOK

LEMMA OrdersStep == TypeOK /\ OrdersOK /\ [Next]_vars => OrdersOK'
  <1> SUFFICES ASSUME TypeOK, OrdersOK, [Next]_vars, NamesDisjoint, NEW c \in CRs
               PROVE  OrderOK(c)'
    BY DEF OrdersOK, NamesDisjoint
  <1>0. \A d \in CRs : OrderOK(d)
    BY DEF OrdersOK
  <1>1. ASSUME NEW d \in CRs, Worker(d) PROVE OrderOK(c)'
    <2>1. CASE c = d
      BY <1>0, <1>1, <2>1, OwnStep
    <2>2. CASE c # d
      <3>1. HandOK(d)
        BY <1>0 DEF OrderOK
      <3>2. Spared(c) /\ OnlyMoves(d)
        BY <1>1, <2>2, <3>1, SparedByOthers, WorkerMoves
      <3>3. UNCHANGED <<site, faults>>
        BY <1>1 DEF Worker
      <3> QED  BY <1>0, <2>2, <3>2, <3>3, OtherStep
    <2> QED  BY <2>1, <2>2
  <1>2. ASSUME NEW d \in CRs, RevokeCertificate(d) PROVE OrderOK(c)'
    <2>1. CASE c = d
      BY <1>0, <1>2, <2>1, BeginsCleaning DEF RevokeCertificate, Returned, InHand
    <2>2. CASE c # d
      <3>1. OnlyMoves(d)
        BY <1>2 DEF RevokeCertificate, OnlyMoves, Goto, TypeOK
      <3>2. Spared(c) /\ UNCHANGED <<site, faults>>
        BY <1>2, SparedIfUnchanged DEF RevokeCertificate
      <3> QED  BY <1>0, <2>2, <3>1, <3>2, OtherStep
    <2> QED  BY <2>1, <2>2
  <1>3. ASSUME NEW d \in CRs, CallFails(d) PROVE OrderOK(c)'
    <2>1. PICK p : /\ Return(d, p) /\ p \in {"idle", "done", "doneUnclean"}
                   /\ p = "done" => ~ByList
      BY <1>3 DEF CallFails
    <2>2. faults' # 0 /\ UNCHANGED <<site, zone>>
      BY <1>3 DEF CallFails, Fault, TypeOK
    <2>3. p = "done" => ~MustBeClean'
      BY <2>1, <2>2 DEF MustBeClean, ByList
    <2>4. CASE c = d
      BY <2>1, <2>3, <2>4, ReturnStep
    <2>5. CASE c # d
      BY <1>0, <2>1, <2>2, <2>5, ReturnMoves, SparedIfUnchanged, OtherStep
    <2> QED  BY <2>4, <2>5
  <1>4. CASE Restart
    BY <1>0, <1>4, RestartStep
  <1>5. CASE UNCHANGED vars
    BY <1>0, <1>5 DEF vars, OrderOK, HandOK, StandsOK, ListedOK, LeftOK, DoneOK,
                      Published, Unpublished, MustBeClean, ByList
  <1> QED  BY <1>1, <1>2, <1>3, <1>4, <1>5 DEF Next

(* The workers of one zone, seen record by record: when no two requests     *)
(* share a challenge record, each worker finds its own as it left them, or  *)
(* on Cloud DNS gone.                                                       *)
THEOREM OrdersInductive == Spec => []OrdersOK
  <1>1. Init => OrdersOK
    <2> SUFFICES ASSUME Init, NEW c \in CRs PROVE OrderOK(c)
      BY DEF OrdersOK
    <2>1. pc[c] = "idle" /\ todo[c] = {} /\ cur[c] = {}
      BY DEF Init
    <2> QED
      BY <2>1 DEF OrderOK, HandOK, StandsOK, ListedOK, LeftOK, DoneOK
  <1> QED  BY <1>1, OrdersStep, TypeCorrect, PTL DEF Spec

(* On Route 53 a published answer stands until Let's Encrypt has looked it  *)
(* up, if no two requests of the cluster share a challenge record.          *)
THEOREM AnswersStand == NamesDisjoint => (Spec => []RecordStandsOnRoute53)
  <1> SUFFICES ASSUME NamesDisjoint PROVE Spec => []RecordStandsOnRoute53
    OBVIOUS
  <1>1. OrdersOK => RecordStandsOnRoute53
    BY DEF OrdersOK, OrderOK, StandsOK, RecordStandsOnRoute53, RecordStands
  <1> QED  BY <1>1, OrdersInductive, PTL

(* A cleaning that reports success has left no challenge record of its      *)
(* request: on Cloud DNS whatever fails and whoever cleans at the same      *)
(* time, on Route 53 as far as CleanedUp says.                              *)
THEOREM CleaningCleans == NamesDisjoint => (Spec => []CleanedUp)
  <1> SUFFICES ASSUME NamesDisjoint PROVE Spec => []CleanedUp
    OBVIOUS
  <1>1. OrdersOK => CleanedUp
    BY DEF OrdersOK, OrderOK, DoneOK, CleanedUp
  <1> QED  BY <1>1, OrdersInductive, PTL
=============================================================================
