------------------------------ MODULE VerifyDns ------------------------------
(***************************************************************************)
(* VerifyDnsResourceRecordUpdate (controllers/certificaterequest/          *)
(* cloudflare.go): the loop that asks a public resolver whether the TXT    *)
(* record of a DNS-01 challenge has propagated, before Let's Encrypt is    *)
(* told to look.  Time is in seconds and passes in the sleeps and in the   *)
(* HTTP requests.                                                          *)
(***************************************************************************)
EXTENDS Integers

CONSTANTS
    MaxAttempts,     \* maxAttemptsForDnsPropagationCheck
    WaitTime,        \* waitTimePeriodDnsPropagationCheck
    MaxNegativeTTL,  \* maxNegativeCacheTTL
    RequestTimeout,  \* dnsServerRequestTimeout, of each of the two endpoints
    QueryTimes,      \* how long an attempt may wait for its answer
    TTLs             \* TTLs a negative answer may carry

ASSUME ConstantsAssumption ==
    /\ MaxAttempts \in Nat \ {0, 1}
    /\ WaitTime \in Nat /\ MaxNegativeTTL \in Nat /\ WaitTime <= MaxNegativeTTL
    /\ RequestTimeout \in Nat /\ QueryTimes \subseteq 0..(2 * RequestTimeout)
    /\ TTLs \subseteq Nat

VARIABLES
    pc,          \* "sleep", "fetch" or "done"
    attempt,     \* the loop counter
    negTTL,      \* negativeCacheTTL
    result,      \* what the function returns
    queries,     \* how often a resolver was asked
    now,         \* seconds since the call
    propagated,  \* is the record visible at the authoritative servers?
    staleUntil   \* until when the resolver serves its last negative answer

vars == <<pc, attempt, negTTL, result, queries, now, propagated, staleUntil>>

Init ==
    /\ pc = "sleep" /\ attempt = 1 /\ negTTL = 0 /\ result = FALSE
    /\ queries = 0 /\ now = 0 /\ propagated \in BOOLEAN /\ staleUntil = 0

-----------------------------------------------------------------------------

(* Mutant: the time to wait is the default whatever the TTL. *)
SleepDurationFixed == WaitTime

SleepDuration ==
    IF attempt > 1 /\ negTTL > WaitTime THEN negTTL ELSE WaitTime

TooLong == attempt > 1 /\ negTTL > MaxNegativeTTL

Return(value) ==
    /\ pc' = "done" /\ result' = value
    /\ UNCHANGED <<attempt, negTTL, queries, now, propagated, staleUntil>>

(* Mutant: a long negative TTL is slept through. *)
SleepWithoutLimit ==
    /\ pc = "sleep" /\ attempt < MaxAttempts
    /\ now' = now + SleepDuration /\ negTTL' = 0 /\ pc' = "fetch"
    /\ UNCHANGED <<attempt, result, queries, propagated, staleUntil>>

(* Mutant: the bound of the loop is off by one. *)
SleepOnceMore ==
    /\ pc = "sleep" /\ attempt <= MaxAttempts /\ ~TooLong
    /\ now' = now + SleepDuration /\ negTTL' = 0 /\ pc' = "fetch"
    /\ UNCHANGED <<attempt, result, queries, propagated, staleUntil>>

Sleep ==
    /\ pc = "sleep" /\ attempt < MaxAttempts /\ ~TooLong
    /\ now' = now + SleepDuration /\ negTTL' = 0 /\ pc' = "fetch"
    /\ UNCHANGED <<attempt, result, queries, propagated, staleUntil>>

GiveUp ==
    /\ pc = "sleep"
    /\ attempt >= MaxAttempts \/ TooLong
    /\ Return(FALSE)

(* The Cloudflare endpoint, and when that fails Google's: each request ends *)
(* after RequestTimeout at the latest.                                      *)
Asked(time) ==
    /\ pc = "fetch" /\ time \in QueryTimes
    /\ queries' = queries + 1 /\ now' = now + time

(* Mutant: the TTL of the negative answer is not kept for the next sleep. *)
AgainForgetsTTL(ttl) ==
    /\ pc' = "sleep" /\ attempt' = attempt + 1 /\ negTTL' = 0
    /\ UNCHANGED <<result, propagated>>

Again(ttl) ==
    /\ pc' = "sleep" /\ attempt' = attempt + 1 /\ negTTL' = ttl
    /\ UNCHANGED <<result, propagated>>

(* Both endpoints fail, there is no answer section, or the first answer is  *)
(* another record's.  (That resolvers keep an answer without records too is *)
(* left out: to the code only NXDOMAIN is a negative cache result.)         *)
NoUsableAnswer ==
    \E time \in QueryTimes : Asked(time) /\ Again(0) /\ UNCHANGED staleUntil

(* NXDOMAIN with a SOA; five seconds are added so that the resolver has     *)
(* forgotten it by the next attempt.  A resolver that still holds one       *)
(* serves it again with what is left of its TTL.                            *)
NegativeAnswer ==
    \E time \in QueryTimes, ttl \in TTLs :
        /\ Asked(time)
        /\ ~propagated \/ now' + ttl = staleUntil
        /\ Again(ttl + 5)
        /\ staleUntil' = now' + ttl

RightAnswer ==
    /\ propagated
    /\ \E time \in QueryTimes : Asked(time) /\ now' >= staleUntil
    /\ pc' = "done" /\ result' = TRUE
    /\ UNCHANGED <<attempt, negTTL, propagated, staleUntil>>

(* The world: the record becomes visible. *)
Propagate ==
    /\ pc # "done" /\ ~propagated /\ propagated' = TRUE
    /\ UNCHANGED <<pc, attempt, negTTL, result, queries, now, staleUntil>>

Loop == Sleep \/ GiveUp \/ NoUsableAnswer \/ NegativeAnswer \/ RightAnswer

Next == Loop \/ Propagate

Spec == Init /\ [][Next]_vars

-----------------------------------------------------------------------------
(* Properties. *)

(* The shape of every variable; in particular, the resolver is asked once   *)
(* less than the constant of the code says.                                 *)
TypeOK ==
    /\ pc \in {"sleep", "fetch", "done"} /\ attempt \in 1..MaxAttempts
    /\ result \in BOOLEAN /\ propagated \in BOOLEAN
    /\ negTTL \in Nat /\ queries \in 0..(MaxAttempts - 1) /\ now \in Nat /\ staleUntil \in Nat

(* "honor its TTL": no attempt is wasted on a resolver that still serves    *)
(* the negative answer it gave before.                                      *)
HonoursNegativeCache == pc = "fetch" => now >= staleUntil

(* A further attempt: the longest sleep, and both requests time out. *)
Round == MaxNegativeTTL + 2 * RequestTimeout

(* How long the loop may hold one of the ten workers: the default wait, a   *)
(* first query, and as many further attempts as the loop counter allows.    *)
(* With the constants of the code that is 30 + 120 + 8 * 720 seconds, where *)
(* the comment on the number of attempts says 5 minutes.                    *)
BlockedInBounds ==
    now <= WaitTime + 2 * RequestTimeout + (MaxAttempts - 2) * Round

(* The loop invariant behind both.  Before a sleep: nothing has happened    *)
(* yet, or the resolver forgets its answer within the TTL it gave, and the  *)
(* time passed is that of the attempts made.                                *)
LoopInvariant ==
    /\ TypeOK /\ HonoursNegativeCache /\ BlockedInBounds
    /\ pc # "done" => queries = attempt - 1
    /\ pc = "fetch" =>
           attempt < MaxAttempts /\ now <= WaitTime + (attempt - 1) * Round
    /\ pc = "sleep" =>
           /\ staleUntil <= now + negTTL
           /\ attempt = 1 => now = 0 /\ staleUntil = 0
           /\ attempt > 1 =>
                  now <= WaitTime + 2 * RequestTimeout + (attempt - 2) * Round
=============================================================================
