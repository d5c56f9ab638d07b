--------------------------- MODULE VerifyDns_proofs ---------------------------
(***************************************************************************)
(* Proofs about the propagation loop for every number of attempts, every   *)
(* choice of waiting times and timeouts and every set of TTLs.             *)
(***************************************************************************)
EXTENDS VerifyDns, TLAPS

USE DEF Round

LEMMA RoundType == Round \in Nat /\ 2 * RequestTimeout \in Nat
  BY ConstantsAssumption

(* One more attempt allows for one more round. *)
LEMMA OneMoreAttempt ==
    ASSUME NEW a \in Nat, NEW r \in Nat
    PROVE  /\ (a - 2) * r \in Int /\ (a - 1) * r \in Int
           /\ (a - 1) * r = (a - 2) * r + r
           /\ ((a + 1) - 2) * r = (a - 1) * r
  OBVIOUS

(* Fewer attempts than the loop allows take no longer than all of them. *)
LEMMA FewerAttempts ==
    ASSUME NEW a \in Nat, NEW m \in Nat, NEW r \in Nat, a < m
    PROVE  (a - 1) * r <= (m - 2) * r
  <1>1. (m - 2) - (a - 1) \in Nat
    OBVIOUS
  <1>2. ((m - 2) - (a - 1)) * r >= 0
    BY <1>1
  <1>3. ((m - 2) - (a - 1)) * r = (m - 2) * r - (a - 1) * r
    OBVIOUS
  <1>4. (m - 2) * r \in Int /\ (a - 1) * r \in Int
    OBVIOUS
  <1> QED  BY <1>2, <1>3, <1>4

(* A sleep outlasts a negative answer, and lasts at most MaxNegativeTTL.    *)
LEMMA SleepLongEnough ==
    ASSUME LoopInvariant, ~TooLong
    PROVE  /\ SleepDuration \in Nat
           /\ attempt > 1 => SleepDuration >= negTTL
           /\ attempt > 1 => SleepDuration <= MaxNegativeTTL
           /\ attempt = 1 => SleepDuration = WaitTime
  BY ConstantsAssumption DEF LoopInvariant, TypeOK, TooLong, SleepDuration

LEMMA LoopInit == Init => LoopInvariant
  <1> SUFFICES ASSUME Init PROVE LoopInvariant
    OBVIOUS
  <1>1. TypeOK /\ HonoursNegativeCache
    <2>1. /\ 1 \in 1..MaxAttempts /\ 0 \in Nat /\ 0 >= 0
          /\ 0 \in 0..(MaxAttempts - 1)
      BY ConstantsAssumption
    <2> QED  BY <2>1, Zenon DEF Init, TypeOK, HonoursNegativeCache
  <1>2. BlockedInBounds
    <2>1. (1 - 1) * Round <= (MaxAttempts - 2) * Round
      BY FewerAttempts, RoundType, ConstantsAssumption
    <2>2. (1 - 1) * Round = 0 /\ (MaxAttempts - 2) * Round \in Int
      BY RoundType, ConstantsAssumption
    <2> HIDE DEF Round
    <2> QED  BY <2>1, <2>2, RoundType, ConstantsAssumption DEF Init, BlockedInBounds
  <1> QED
    BY <1>1, <1>2 DEF Init, LoopInvariant

LEMMA SleepStep ==
    ASSUME LoopInvariant, Sleep
    PROVE  LoopInvariant'
  <1>0. attempt \in Nat /\ now \in Nat /\ SleepDuration \in Nat /\ attempt < MaxAttempts
    BY SleepLongEnough DEF LoopInvariant, TypeOK, Sleep
  <1>1. TypeOK'
    BY SleepLongEnough DEF LoopInvariant, TypeOK, Sleep
  <1>2. HonoursNegativeCache'
    BY SleepLongEnough DEF LoopInvariant, TypeOK, Sleep, HonoursNegativeCache
  <1>3. now' <= WaitTime + (attempt - 1) * Round
    <2>1. CASE attempt = 1
      <3>1. now' = WaitTime
        BY <2>1, SleepLongEnough, ConstantsAssumption DEF LoopInvariant, TypeOK, Sleep
      <3>2. (attempt - 1) * Round = 0
        BY <2>1, RoundType
      <3> QED  BY <3>1, <3>2, ConstantsAssumption
    <2>2. CASE attempt > 1
      <3>1. now <= WaitTime + 2 * RequestTimeout + (attempt - 2) * Round
        BY <2>2 DEF LoopInvariant, Sleep
      <3>2. now' <= now + MaxNegativeTTL
        BY <1>0, <2>2, SleepLongEnough, ConstantsAssumption DEF Sleep
      <3>3. /\ (attempt - 2) * Round \in Int
            /\ (attempt - 1) * Round = (attempt - 2) * Round + Round
        BY <1>0, RoundType, OneMoreAttempt
      <3> DEFINE spent == (attempt - 2) * Round
      <3> HIDE DEF spent
      <3>4. now' <= WaitTime + (spent + Round)
        BY <1>0, <3>1, <3>2, <3>3, ConstantsAssumption DEF spent, Sleep
      <3> QED  BY <3>3, <3>4 DEF spent
    <2> QED  BY <1>0, <2>1, <2>2 DEF LoopInvariant, TypeOK
  <1>4. BlockedInBounds'
    <2>1. (attempt - 1) * Round <= (MaxAttempts - 2) * Round
      BY <1>0, FewerAttempts, RoundType, ConstantsAssumption
    <2>2. (attempt - 1) * Round \in Int /\ (MaxAttempts - 2) * Round \in Int
      BY <1>0, RoundType, ConstantsAssumption
    <2> HIDE DEF Round
    <2>3. now' \in Nat
      BY <1>0 DEF Sleep
    <2> QED
      BY <1>3, <2>1, <2>2, <2>3, RoundType, ConstantsAssumption DEF BlockedInBounds
  <1> QED
    BY <1>0, <1>1, <1>2, <1>3, <1>4 DEF LoopInvariant, Sleep, TypeOK

(* A query takes its time. *)
LEMMA AskedInTime ==
    ASSUME LoopInvariant, NEW time \in QueryTimes, Asked(time)
    PROVE  /\ now' \in Nat /\ now <= now' /\ attempt \in Nat
           /\ now' <= WaitTime + 2 * RequestTimeout + (attempt - 1) * Round
           /\ attempt + 1 \in 1..MaxAttempts
           /\ queries' = attempt /\ queries' \in 0..(MaxAttempts - 1)
           /\ BlockedInBounds'
  <1>1. /\ pc = "fetch" /\ now' = now + time /\ queries' = queries + 1
        /\ time \in Nat /\ time <= 2 * RequestTimeout
    BY ConstantsAssumption DEF Asked
  <1>2. /\ attempt \in 1..MaxAttempts /\ attempt < MaxAttempts /\ now \in Nat
        /\ queries = attempt - 1 /\ now <= WaitTime + (attempt - 1) * Round
    BY <1>1 DEF LoopInvariant, TypeOK
  <1>3. /\ (attempt - 1) * Round <= (MaxAttempts - 2) * Round
        /\ (attempt - 1) * Round \in Int /\ (MaxAttempts - 2) * Round \in Int
    BY <1>2, FewerAttempts, RoundType, ConstantsAssumption
  <1> HIDE DEF Round
  <1>4. now' <= WaitTime + 2 * RequestTimeout + (attempt - 1) * Round
    BY <1>1, <1>2, <1>3, ConstantsAssumption
  <1>5. BlockedInBounds'
    BY <1>1, <1>2, <1>3, <1>4, ConstantsAssumption DEF BlockedInBounds
  <1> QED  BY <1>1, <1>2, <1>4, <1>5, ConstantsAssumption

(* An answer that is not the right one: the loop goes round. *)
LEMMA AgainStep ==
    ASSUME LoopInvariant, NEW time \in QueryTimes, Asked(time),
           NEW ttl \in Nat, Again(ttl), staleUntil' \in Nat,
           staleUntil' <= now' + ttl
    PROVE  LoopInvariant'
  <1>1. /\ pc' = "sleep" /\ attempt' = attempt + 1 /\ negTTL' = ttl
        /\ attempt \in Nat /\ attempt + 1 \in 1..MaxAttempts /\ attempt + 1 > 1
    BY AskedInTime DEF LoopInvariant, TypeOK, Again
  <1>2. TypeOK'
    BY <1>1, AskedInTime DEF LoopInvariant, TypeOK, Again
  <1>3. now' <= WaitTime + 2 * RequestTimeout + (attempt' - 2) * Round
    <2>1. (attempt' - 2) * Round = (attempt - 1) * Round
      BY <1>1, OneMoreAttempt, RoundType
    <2> QED  BY <2>1, AskedInTime
  <1> HIDE DEF Round
  <1>4. BlockedInBounds' /\ queries' = attempt' - 1
    <2>1. BlockedInBounds' /\ queries' = attempt
      BY AskedInTime
    <2> QED  BY <1>1, <2>1
  <1>5. HonoursNegativeCache'
    BY <1>1 DEF HonoursNegativeCache
  <1>6. pc' # "fetch" /\ attempt' # 1 /\ staleUntil' <= now' + negTTL'
    BY <1>1
  <1> QED
    BY <1>2, <1>3, <1>4, <1>5, <1>6 DEF LoopInvariant

LEMMA LoopStep == LoopInvariant /\ [Next]_vars => LoopInvariant'
  <1> SUFFICES ASSUME LoopInvariant, [Next]_vars PROVE LoopInvariant'
    OBVIOUS
  <1>1. CASE Sleep
    BY <1>1, SleepStep
  <1>2. CASE GiveUp
    BY <1>2 DEF GiveUp, Return, LoopInvariant, TypeOK, HonoursNegativeCache,
                BlockedInBounds
  <1>3. CASE NoUsableAnswer
    <2>1. PICK time \in QueryTimes : Asked(time) /\ Again(0) /\ staleUntil' = staleUntil
      BY <1>3 DEF NoUsableAnswer
    <2>2. staleUntil \in Nat /\ staleUntil <= now /\ now \in Nat
      BY <2>1 DEF Asked, LoopInvariant, TypeOK, HonoursNegativeCache
    <2>3. staleUntil' <= now' + 0
      BY <2>1, <2>2, AskedInTime
    <2> QED  BY <2>1, <2>2, <2>3, AgainStep
  <1>4. CASE NegativeAnswer
    <2>1. PICK time \in QueryTimes, ttl \in TTLs :
             Asked(time) /\ Again(ttl + 5) /\ staleUntil' = now' + ttl
      BY <1>4 DEF NegativeAnswer
    <2>2. ttl + 5 \in Nat /\ staleUntil' \in Nat /\ staleUntil' <= now' + (ttl + 5)
      BY <2>1, AskedInTime, ConstantsAssumption
    <2> QED  BY <2>1, <2>2, AgainStep
  <1>5. CASE RightAnswer
    <2>1. PICK time \in QueryTimes : Asked(time)
      BY <1>5 DEF RightAnswer
    <2>2. /\ now' \in Nat /\ queries' \in 0..(MaxAttempts - 1) /\ BlockedInBounds'
      BY <2>1, AskedInTime
    <2>3. TypeOK'
      BY <1>5, <2>2 DEF RightAnswer, LoopInvariant, TypeOK
    <2> QED  BY <1>5, <2>2, <2>3 DEF RightAnswer, LoopInvariant, HonoursNegativeCache
  <1>6. CASE Propagate
    BY <1>6 DEF Propagate, LoopInvariant, TypeOK, HonoursNegativeCache,
                BlockedInBounds
  <1>7. CASE UNCHANGED vars
    BY <1>7 DEF vars, LoopInvariant, TypeOK, HonoursNegativeCache, BlockedInBounds
  <1> QED
    BY <1>1, <1>2, <1>3, <1>4, <1>5, <1>6, <1>7 DEF Next, Loop

-----------------------------------------------------------------------------

(* The loop invariant of VerifyDnsResourceRecordUpdate holds in every       *)
(* state, whatever the resolver answers and whenever the record propagates. *)
THEOREM LoopInductive == Spec => []LoopInvariant
  BY LoopInit, LoopStep, PTL DEF Spec

(* Every variable keeps its type: the loop counter of cloudflare.go never   *)
(* passes maxAttemptsForDnsPropagationCheck.                                *)
THEOREM TypeCorrect == Spec => []TypeOK
  <1>1. LoopInvariant => TypeOK
    BY DEF LoopInvariant
  <1> QED  BY <1>1, LoopInductive, PTL

(* Whatever TTL a negative answer carries, the loop does not query again    *)
(* before the resolver has forgotten it.                                    *)
THEOREM NegativeCacheHonoured == Spec => []HonoursNegativeCache
  <1>1. LoopInvariant => HonoursNegativeCache
    BY DEF LoopInvariant
  <1> QED  BY <1>1, LoopInductive, PTL

(* The loop holds its worker no longer than the default wait, one query     *)
(* with both its timeouts and, for each further attempt, the longest sleep  *)
(* and another such query.                                                  *)
THEOREM WorkerHeldInBounds == Spec => []BlockedInBounds
  <1>1. LoopInvariant => BlockedInBounds
    BY DEF LoopInvariant
  <1> QED  BY <1>1, LoopInductive, PTL
=============================================================================
