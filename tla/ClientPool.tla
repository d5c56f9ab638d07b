----------------------------- MODULE ClientPool -----------------------------
(***************************************************************************)
(* The workers of the CertificateRequest controller and the clients each   *)
(* pass of Reconcile builds before it can issue: the ACME client           *)
(* (leclient.NewClient) and the DNS client of the cluster's platform       *)
(* (clients.NewClient, {aws,gcp,azure}.NewClient).                         *)
(*                                                                         *)
(* A few workers serve every cluster.  For a cluster in STS mode two roles *)
(* are assumed one after the other, each in a loop of up to a hundred      *)
(* tries with a pause before each, and the worker is held meanwhile; so a  *)
(* cluster whose role does not trust the operator could keep the others    *)
(* waiting.  The queue and its back-off are those of controller-runtime.   *)
(***************************************************************************)
EXTENDS Integers, Sequences, FiniteSets, SequencesExt

CONSTANTS
    Clusters,   \* one CertificateRequest each
    Sites,      \* where the operator may run: FEDRAMP set or not, what the clusters
                \* are, and whose role is refused to begin with
    Workers,    \* MaxConcurrentReconciles of them
    Retries,    \* assumeRolePollingRetries
    MaxEdits,   \* bound on what the environment does
    MaxFaults   \* bound on passing failures and restarts

(* On AWS: STS mode, keys in a Secret, or neither (the role of the masters).*)
Kinds == {"sts", "keys", "masters", "gcp", "azure"}

ASSUME ConstantsAssumption ==
    /\ IsFiniteSet(Clusters)
    /\ Sites \subseteq [fedramp: BOOLEAN, kind: [Clusters -> Kinds],
                      refused: SUBSET Clusters]
    /\ Retries \in Nat \ {0}
    /\ MaxEdits \in Nat /\ MaxFaults \in Nat

VARIABLES
    fedramp,    \* the process runs in FedRAMP
    kind,       \* cluster -> its platform and how its account is entered
    usable,     \* what the clients need and is in order
    account,    \* the ACME account in the operator's Secret
    queue,      \* keys ready to be worked on
    delayed,    \* keys waiting for their back-off to pass
    issued,     \* clusters that have their certificate
    key,        \* worker -> the key it works on, as a set
    at,         \* worker -> how many calls of the pass have succeeded
    tries,      \* worker -> `i`, the tries of the current loop
    url,        \* worker -> the account whose URL it read
    signer,     \* worker -> the account whose private key it read
    creds,      \* worker -> the credentials its next AWS session uses
    edits, faults

env   == <<fedramp, kind, usable, account>>
keys  == <<queue, delayed, issued>>
pass  == <<key, at, tries, url, signer, creds>>
vars  == <<env, keys, pass, edits, faults>>

-----------------------------------------------------------------------------
(* The calls of a pass, in order, and what each of them needs.              *)

(* leclient.NewClient *)
AccountCalls == <<"accountURL", "accountKey">>

(* gcp.NewClient, azure.NewClient: the platform Secret of the request. *)
GCPCalls   == <<"secret">>
AzureCalls == <<"secret">>

(* aws.NewClient: in FedRAMP the operator's own account; for a cluster in   *)
(* STS mode two roles, assumed one after the other; else keys in a Secret   *)
(* if the request names one.                                                *)
FedRAMPCalls == <<"operatorCreds">>
STSCalls == <<"clusterDeployment", "jumpRole", "operatorCreds", "assumeJumpRole",
              "accountClaim", "assumeRole">>
KeysCalls    == <<"clusterDeployment", "secret">>
MastersCalls == <<"clusterDeployment">>

AWSCalls(k, inFedRAMP) ==
    CASE inFedRAMP -> FedRAMPCalls
      [] ~inFedRAMP /\ k = "sts"     -> STSCalls
      [] ~inFedRAMP /\ k = "keys"    -> KeysCalls
      [] ~inFedRAMP /\ k = "masters" -> MastersCalls

(* clients.NewClient *)
DNSCalls(k, inFedRAMP) ==
    CASE k = "gcp"   -> GCPCalls
      [] k = "azure" -> AzureCalls
      [] OTHER       -> AWSCalls(k, inFedRAMP)

CallsOf ==
    [k \in Kinds |-> [inFedRAMP \in BOOLEAN |->
        AccountCalls \o DNSCalls(k, inFedRAMP) \o <<"issue">>]]

Calls(c) == CallsOf[kind[c]][fedramp]

Loops == {"assumeJumpRole", "assumeRole"}

(* An object, or a role's trust: the operator's or the cluster's own.  An   *)
(* AccountClaim in manual STS mode without a role is not in order; without  *)
(* the mode an empty role is assumed, and never granted.                    *)
Needs(call, c) ==
    CASE call \in {"accountURL", "accountKey"} -> <<"account">>
      [] call \in {"jumpRole", "operatorCreds", "assumeJumpRole"} -> <<call>>
      [] OTHER -> <<call, c>>

(* What the next AWS (or other cloud) session is opened with after a call;  *)
(* with nothing set, the IAM role of the masters.                           *)
Masters == <<"masters">>

(* Mutant: the session of the jump role is used in place of the customer's. *)
AfterKeepingJumpRole(call, c, before) ==
    CASE call = "operatorCreds"  -> <<"operator">>
      [] call = "assumeJumpRole" -> <<"jump">>
      [] call = "secret"         -> <<"account", c>>
      [] OTHER -> before

After(call, c, before) ==
    CASE call = "operatorCreds"           -> <<"operator">>
      [] call = "assumeJumpRole"          -> <<"jump">>
      [] call \in {"assumeRole", "secret"} -> <<"account", c>>
      [] OTHER -> before

NeededBy ==
    [c \in Clusters |-> [k \in Kinds |-> [f \in BOOLEAN |->
        {Needs(CallsOf[k][f][i], c) : i \in 1..(Len(CallsOf[k][f]) - 1)}]]]

Needed(c) == NeededBy[c][kind[c]][fedramp]

Things ==
    {<<"account">>, <<"jumpRole">>, <<"operatorCreds">>, <<"assumeJumpRole">>}
        \cup ({"clusterDeployment", "accountClaim", "assumeRole", "secret"} \X Clusters)

Relevant == UNION {Needed(c) : c \in Clusters}

Idle(w) == key[w] = {}

Call(w, c) == Calls(c)[at[w] + 1]

Init ==
    /\ \E site \in Sites :
           /\ fedramp = site.fedramp /\ kind = site.kind
           /\ usable = Relevant \ ({"assumeRole"} \X site.refused)
    /\ account = 1
    /\ queue \in SetToSeqs(Clusters)
    /\ delayed = {} /\ issued = {}
    /\ key = [w \in Workers |-> {}] /\ at = [w \in Workers |-> 0]
    /\ tries = [w \in Workers |-> 0]
    /\ url = [w \in Workers |-> 0] /\ signer = [w \in Workers |-> 0]
    /\ creds = [w \in Workers |-> Masters]
    /\ edits = 0 /\ faults = 0

-----------------------------------------------------------------------------
(* How a pass begins, moves on and ends. *)

Take(w) ==
    /\ Idle(w) /\ queue # <<>>
    /\ key' = [key EXCEPT ![w] = {Head(queue)}]
    /\ queue' = Tail(queue)
    /\ UNCHANGED <<env, delayed, issued, at, tries, url, signer, creds>>

Advance(w, c) ==
    /\ at' = [at EXCEPT ![w] = @ + 1]
    /\ tries' = [tries EXCEPT ![w] = 0]
    /\ creds' = [creds EXCEPT ![w] = After(Call(w, c), c, @)]
    /\ UNCHANGED <<keys, key>>

Return(w) ==
    /\ key' = [key EXCEPT ![w] = {}] /\ at' = [at EXCEPT ![w] = 0]
    /\ tries' = [tries EXCEPT ![w] = 0] /\ creds' = [creds EXCEPT ![w] = Masters]
    /\ url' = [url EXCEPT ![w] = 0] /\ signer' = [signer EXCEPT ![w] = 0]
    /\ UNCHANGED queue

(* The error is returned and the key waits for its back-off. *)
Fail(w, c) ==
    /\ Return(w)
    /\ delayed' = delayed \cup {c}
    /\ UNCHANGED issued

(* The URL and the private key of the account come from two reads. *)
Read(w) ==
    \E c \in key[w] :
        LET call == Call(w, c)
        IN  /\ call \notin Loops \cup {"issue"}
            /\ IF Needs(call, c) \in usable
               THEN /\ Advance(w, c)
                    /\ url' = IF call = "accountURL"
                              THEN [url EXCEPT ![w] = account] ELSE url
                    /\ signer' = IF call = "accountKey"
                                 THEN [signer EXCEPT ![w] = account] ELSE signer
               ELSE Fail(w, c)
            /\ UNCHANGED env

(* Mutant: the loop only ends when the role is granted. *)
RetryForEver(w, c) ==
    /\ tries' = [tries EXCEPT ![w] = 1]
    /\ UNCHANGED <<keys, key, at, url, signer, creds>>

(* Mutant: the test for the last try is off by one. *)
RetryPastLimit(w, c) ==
    IF tries[w] >= Retries
    THEN Fail(w, c)
    ELSE /\ tries' = [tries EXCEPT ![w] = @ + 1]
         /\ UNCHANGED <<keys, key, at, url, signer, creds>>

(* getSTSCredentials after a refusal: pause and try again, or give up. *)
Retry(w, c) ==
    IF tries[w] >= Retries - 1
    THEN Fail(w, c)
    ELSE /\ tries' = [tries EXCEPT ![w] = @ + 1]
         /\ UNCHANGED <<keys, key, at, url, signer, creds>>

AssumeRole(w) ==
    \E c \in key[w] :
        /\ Call(w, c) \in Loops
        /\ IF Needs(Call(w, c), c) \in usable
           THEN Advance(w, c) /\ UNCHANGED <<url, signer>>
           ELSE Retry(w, c)
        /\ UNCHANGED env

(* FindZoneIDForChallenge: FedRAMP is for AWS only, and the status of the   *)
(* DNSZone is looked at for AWS and for GCP only.                           *)
ZoneFound(c) == kind[c] # "azure" /\ ~(kind[c] = "gcp" /\ fedramp)

(* The rest of IssueCertificate.  UpdateAccount is refused when the request *)
(* for one account is signed with the key of another.                       *)
Issue(w) ==
    \E c \in key[w] :
        /\ Call(w, c) = "issue"
        /\ IF url[w] = signer[w] /\ ZoneFound(c)
           THEN Return(w) /\ issued' = issued \cup {c} /\ UNCHANGED delayed
           ELSE Fail(w, c)
        /\ UNCHANGED env

Requeue(c) ==
    /\ c \in delayed
    /\ delayed' = delayed \ {c} /\ queue' = Append(queue, c)
    /\ UNCHANGED <<env, issued, pass>>

-----------------------------------------------------------------------------
(* Faults: a call fails although nothing is wrong (in the loops: an error   *)
(* that is tried again, or an expired token, which is not), or the operator *)
(* restarts and lists every request afresh.                                 *)

Fault == faults < MaxFaults /\ faults' = faults + 1 /\ UNCHANGED edits

CallFails(w) ==
    /\ Fault
    /\ \E c \in key[w] : \/ Fail(w, c)
                         \/ Call(w, c) \in Loops /\ Retry(w, c)
    /\ UNCHANGED env

Restart ==
    /\ Fault
    /\ queue' \in SetToSeqs(Clusters \ issued) /\ delayed' = {}
    /\ key' = [w \in Workers |-> {}] /\ at' = [w \in Workers |-> 0]
    /\ tries' = [w \in Workers |-> 0]
    /\ url' = [w \in Workers |-> 0] /\ signer' = [w \in Workers |-> 0]
    /\ creds' = [w \in Workers |-> Masters]
    /\ UNCHANGED <<env, issued>>

-----------------------------------------------------------------------------
(* The environment: objects and role policies break and are repaired, the   *)
(* ACME account is replaced, certificates become due for renewal.           *)

Edit == edits < MaxEdits /\ edits' = edits + 1 /\ UNCHANGED <<fedramp, kind, pass, faults>>

Change(thing) ==
    /\ Edit
    /\ usable' = IF thing \in usable THEN usable \ {thing} ELSE usable \cup {thing}
    /\ UNCHANGED <<account, keys>>

ReplaceAccount ==
    /\ Edit
    /\ account' = account + 1
    /\ UNCHANGED <<usable, keys>>

Renew(c) ==
    /\ Edit /\ c \in issued
    /\ issued' = issued \ {c} /\ queue' = Append(queue, c)
    /\ UNCHANGED <<usable, account, delayed>>

-----------------------------------------------------------------------------

Worker(w) ==
    /\ Take(w) \/ Read(w) \/ AssumeRole(w) \/ Issue(w)
    /\ UNCHANGED <<edits, faults>>

BackOff(c) == Requeue(c) /\ UNCHANGED <<edits, faults>>

Next ==
    \/ \E w \in Workers : Worker(w) \/ CallFails(w)
    \/ \E c \in Clusters : BackOff(c) \/ Renew(c)
    \/ \E thing \in Relevant : Change(thing)
    \/ ReplaceAccount \/ Restart

(* Every worker goroutine runs on, and every back-off passes. *)
Fairness ==
    /\ \A w \in Workers : WF_vars(Worker(w))
    /\ \A c \in Clusters : WF_vars(BackOff(c))

Spec == Init /\ [][Next]_vars
FairSpec == Spec /\ Fairness

-----------------------------------------------------------------------------
(* Properties. *)

(* The shape of every variable; tries stay below assumeRolePollingRetries.  *)
TypeOK ==
    /\ fedramp \in BOOLEAN /\ kind \in [Clusters -> Kinds] /\ usable \subseteq Things /\ account \in Nat
    /\ queue \in Seq(Clusters) /\ delayed \subseteq Clusters /\ issued \subseteq Clusters
    /\ key \in [Workers -> SUBSET Clusters]
    /\ at \in [Workers -> 0..9] /\ tries \in [Workers -> 0..(Retries - 1)]
    /\ url \in [Workers -> 0..account] /\ signer \in [Workers -> 0..account]
    /\ creds \in [Workers -> {Masters, <<"operator">>, <<"jump">>}
                                 \cup ({"account"} \X Clusters)]

Rightful(c) ==
    CASE kind[c] \in {"gcp", "azure"} -> <<"account", c>>
      [] kind[c] \notin {"gcp", "azure"} /\ fedramp -> <<"operator">>
      [] kind[c] \in {"sts", "keys"} /\ ~fedramp -> <<"account", c>>
      [] kind[c] = "masters" /\ ~fedramp -> Masters

(* A worker comes to writing in a cluster's zone only with the credentials  *)
(* of that cluster's own account, never with those an earlier step of       *)
(* NewClient went by: the operator's own, or those of the jump role, which  *)
(* opens every account.                                                     *)
OwnCredentials ==
    \A w \in Workers : \A c \in key[w] :
        Call(w, c) = "issue" => creds[w] = Rightful(c)

(* Every cluster for which all is in order in the end, and whose zone can   *)
(* be found, gets its certificate in the end, although the roles of others  *)
(* are refused for ever, and each refusal holds one of the few workers for  *)
(* two hundred tries, or others fail each time at the very end.             *)
Served ==
    \A c \in Clusters :
        ZoneFound(c) /\ <>[](Needed(c) \subseteq usable) => <>[](c \in issued)
=============================================================================
