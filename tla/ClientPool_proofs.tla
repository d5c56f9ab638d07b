-------------------------- MODULE ClientPool_proofs --------------------------
(***************************************************************************)
(* Proofs about ClientPool for any clusters on any platforms, any number   *)
(* of workers and of tries, and any faults and edits.                      *)
(***************************************************************************)
EXTENDS ClientPool, FiniteSetTheorems, TLAPS

-----------------------------------------------------------------------------
(* The calls of a pass: what CallsOf holds for each platform. *)

CallNames ==
    {"accountURL", "accountKey", "clusterDeployment", "jumpRole", "operatorCreds",
     "assumeJumpRole", "accountClaim", "assumeRole", "secret", "issue"}

LEMMA Concat ==
    ASSUME NEW a \in Seq(CallNames), NEW b \in Seq(CallNames)
    PROVE  /\ a \o b \in Seq(CallNames)
           /\ Len(a) \in Nat /\ Len(b) \in Nat /\ Len(a \o b) = Len(a) + Len(b)
           /\ \A i \in 1..Len(a) : (a \o b)[i] = a[i]
           /\ \A i \in 1..Len(b) : (a \o b)[Len(a) + i] = b[i]
  OBVIOUS

(* q is x with the reads of the account before it and "issue" after it. *)
Surrounds(q, x) ==
    /\ q \in Seq(CallNames) /\ Len(q) = Len(x) + 3
    /\ q[1] = "accountURL" /\ q[2] = "accountKey"
    /\ \A i \in 1..Len(x) : q[i + 2] = x[i]
    /\ q[Len(x) + 3] = "issue"

LEMMA Around ==
    ASSUME NEW x \in Seq(CallNames)
    PROVE  Surrounds(AccountCalls \o x \o <<"issue">>, x)
  <1> DEFINE a == AccountCalls
             z == <<"issue">>
             h == a \o x
             q == h \o z
  <1>1. a \in Seq(CallNames) /\ Len(a) = 2 /\ a[1] = "accountURL" /\ a[2] = "accountKey"
    BY DEF AccountCalls, CallNames
  <1>2. z \in Seq(CallNames) /\ Len(z) = 1 /\ z[1] = "issue"
    BY DEF CallNames
  <1> HIDE DEF a, z
  <1>3. /\ h \in Seq(CallNames) /\ Len(h) = Len(a) + Len(x) /\ Len(x) \in Nat
        /\ \A i \in 1..Len(a) : h[i] = a[i]
        /\ \A i \in 1..Len(x) : h[Len(a) + i] = x[i]
    BY <1>1, Concat
  <1> HIDE DEF h
  <1>4. /\ q \in Seq(CallNames) /\ Len(q) = Len(h) + Len(z)
        /\ \A i \in 1..Len(h) : q[i] = h[i]
        /\ \A i \in 1..Len(z) : q[Len(h) + i] = z[i]
    BY <1>2, <1>3, Concat
  <1> HIDE DEF q
  <1>5. /\ q \in Seq(CallNames) /\ Len(q) = Len(x) + 3
        /\ q[1] = "accountURL" /\ q[2] = "accountKey"
        /\ q[Len(x) + 3] = "issue"
    BY <1>1, <1>2, <1>3, <1>4
  <1>6. \A i \in 1..Len(x) : q[i + 2] = x[i]
    BY <1>1, <1>3, <1>4
  <1> QED  BY <1>5, <1>6 DEF q, h, a, z, Surrounds

(* The sequences that CallsOf holds, by their middle part. *)
LEMMA CallsOfKind ==
    ASSUME NEW k \in Kinds, NEW f \in BOOLEAN
    PROVE  LET around(x) == AccountCalls \o x \o <<"issue">>
           IN  \/ k \in {"gcp", "azure"} /\ CallsOf[k][f] = around(<<"secret">>)
               \/ k \notin {"gcp", "azure"} /\ f /\ CallsOf[k][f] = around(FedRAMPCalls)
               \/ k = "sts" /\ ~f /\ CallsOf[k][f] = around(STSCalls)
               \/ k = "keys" /\ ~f /\ CallsOf[k][f] = around(KeysCalls)
               \/ k = "masters" /\ ~f /\ CallsOf[k][f] = around(MastersCalls)
  <1>1. CallsOf[k][f] = AccountCalls \o DNSCalls(k, f) \o <<"issue">>
    BY DEF CallsOf
  <1>2. CASE k \in {"gcp", "azure"}
    BY <1>1, <1>2 DEF DNSCalls, GCPCalls, AzureCalls
  <1>3. CASE k \notin {"gcp", "azure"} /\ f
    <2>1. DNSCalls(k, f) = FedRAMPCalls
      BY <1>3 DEF DNSCalls, AWSCalls
    <2> QED  BY <1>1, <1>3, <2>1
  <1>4. CASE k = "sts" /\ ~f
    <2>1. DNSCalls(k, f) = STSCalls
      BY <1>4 DEF DNSCalls, AWSCalls
    <2> QED  BY <1>1, <1>4, <2>1
  <1>5. CASE k = "keys" /\ ~f
    <2>1. DNSCalls(k, f) = KeysCalls
      BY <1>5 DEF DNSCalls, AWSCalls
    <2> QED  BY <1>1, <1>5, <2>1
  <1>6. CASE k = "masters" /\ ~f
    <2>1. DNSCalls(k, f) = MastersCalls
      BY <1>6 DEF DNSCalls, AWSCalls
    <2> QED  BY <1>1, <1>6, <2>1
  <1> QED  BY <1>2, <1>3, <1>4, <1>5, <1>6 DEF Kinds

(* "issue" comes last and only last; a call that yields credentials does    *)
(* not come after one that yields more specific ones.                       *)
InOrder(q) ==
    /\ q \in Seq(CallNames) /\ Len(q) \in 4..9
    /\ \A i \in 1..Len(q) : q[i] = "issue" <=> i = Len(q)
    /\ \A i \in 1..Len(q) : \A j \in 1..(i - 1) :
           /\ q[i] = "operatorCreds" =>
                  q[j] \notin {"assumeJumpRole", "assumeRole", "secret"}
           /\ q[i] = "assumeJumpRole" => q[j] \notin {"assumeRole", "secret"}

Has(q, call) == \E i \in 1..(Len(q) - 1) : q[i] = call

LEMMA OneCallOrder ==
    ASSUME NEW q, q \in Seq(CallNames), Len(q) = 4, NEW call,
           q[1] = "accountURL", q[2] = "accountKey", q[3] = call, q[4] = "issue",
           call \in {"secret", "operatorCreds", "clusterDeployment"}
    PROVE  /\ InOrder(q) 
           /\ \A x \in {"secret", "operatorCreds", "assumeJumpRole", "assumeRole"} :
                  Has(q, x) <=> x = call
  <1>1. Len(q) \in 4..9 /\ 1..Len(q) = 1..4 /\ 1..(Len(q) - 1) = 1..3
    OBVIOUS
  <1>2. \A i \in 1..4 : i = 1 \/ i = 2 \/ i = 3 \/ i = 4
    OBVIOUS
  <1>3. \A x : Has(q, x) <=> x \in {q[1], q[2], q[3]}
    BY <1>1, <1>2 DEF Has
  <1>4. \A i \in 1..4 : q[i] = "issue" <=> i = 4
    BY <1>2
  <1>5. \A i \in 1..4 : /\ q[i] = "operatorCreds" => i = 3
                        /\ q[i] # "assumeJumpRole"
                        /\ q[i] \in {"secret", "assumeRole"} => i = 3
    BY <1>2
  <1>6. \A i \in 1..4 : \A j \in 1..(i - 1) : j \in 1..4 /\ j < i
    OBVIOUS
  <1>7. InOrder(q)
    BY <1>1, <1>4, <1>5, <1>6 DEF InOrder
  <1> QED  BY <1>3, <1>7

LEMMA KeysOrder ==
    ASSUME NEW q, q \in Seq(CallNames), Len(q) = 5,
           q[1] = "accountURL", q[2] = "accountKey", q[3] = "clusterDeployment",
           q[4] = "secret", q[5] = "issue"
    PROVE  InOrder(q) /\ Has(q, "secret")
  <1>1. Len(q) \in 4..9 /\ 1..Len(q) = 1..5 /\ 4 \in 1..(Len(q) - 1)
    OBVIOUS
  <1>2. \A i \in 1..5 : i = 1 \/ i = 2 \/ i = 3 \/ i = 4 \/ i = 5
    OBVIOUS
  <1>3. \A i \in 1..5 : /\ q[i] = "issue" <=> i = 5
                        /\ q[i] \notin {"operatorCreds", "assumeJumpRole"}
    BY <1>2
  <1> QED  BY <1>1, <1>3 DEF InOrder, Has

LEMMA STSOrder ==
    ASSUME NEW q, q \in Seq(CallNames), Len(q) = 9,
           q[1] = "accountURL", q[2] = "accountKey", q[3] = "clusterDeployment",
           q[4] = "jumpRole", q[5] = "operatorCreds", q[6] = "assumeJumpRole",
           q[7] = "accountClaim", q[8] = "assumeRole", q[9] = "issue"
    PROVE  InOrder(q) /\ Has(q, "assumeRole")
  <1>1. Len(q) \in 4..9 /\ 1..Len(q) = 1..9 /\ 8 \in 1..(Len(q) - 1)
    OBVIOUS
  <1>2. \A i \in 1..9 : \/ i = 1 \/ i = 2 \/ i = 3 \/ i = 4 \/ i = 5 \/ i = 6
                        \/ i = 7 \/ i = 8 \/ i = 9
    OBVIOUS
  <1>3. \A i \in 1..9 : /\ q[i] = "issue" <=> i = 9
                        /\ q[i] = "operatorCreds" => i = 5
                        /\ q[i] = "assumeJumpRole" => i = 6
                        /\ q[i] = "assumeRole" => i = 8
                        /\ q[i] # "secret"
    BY <1>2
  <1>4. \A i \in 1..9 : \A j \in 1..(i - 1) : j \in 1..9 /\ j < i
    OBVIOUS
  <1>5. InOrder(q)
    BY <1>1, <1>3, <1>4 DEF InOrder
  <1> QED  BY <1>1, <1>5 DEF Has

LEMMA OneCallPass ==
    ASSUME NEW call \in {"secret", "operatorCreds", "clusterDeployment"}
    PROVE  LET q == AccountCalls \o <<call>> \o <<"issue">>
           IN  /\ InOrder(q)
               /\ \A x \in {"secret", "operatorCreds", "assumeJumpRole", "assumeRole"} :
                      Has(q, x) <=> x = call
  <1> DEFINE x == <<call>>
             q == AccountCalls \o x \o <<"issue">>
  <1>1. x \in Seq(CallNames) /\ Len(x) = 1 /\ x[1] = call
    BY DEF CallNames
  <1> HIDE DEF x
  <1>2. Surrounds(q, x)
    BY <1>1, Around
  <1> HIDE DEF q
  <1>3. /\ q \in Seq(CallNames) /\ Len(q) = 4 /\ q[1] = "accountURL"
        /\ q[2] = "accountKey" /\ q[1 + 2] = call /\ q[1 + 3] = "issue"
    BY <1>1, <1>2 DEF Surrounds
  <1>4. /\ InOrder(q)
        /\ \A y \in {"secret", "operatorCreds", "assumeJumpRole", "assumeRole"} :
               Has(q, y) <=> y = call
    BY <1>3, OneCallOrder
  <1> QED  BY <1>4, Zenon DEF q, x

LEMMA KeysPass ==
    LET q == AccountCalls \o KeysCalls \o <<"issue">>
    IN  InOrder(q) /\ Has(q, "secret")
  <1> DEFINE q == AccountCalls \o KeysCalls \o <<"issue">>
  <1>1. /\ KeysCalls \in Seq(CallNames) /\ Len(KeysCalls) = 2
        /\ KeysCalls[1] = "clusterDeployment" /\ KeysCalls[2] = "secret"
    BY DEF CallNames, KeysCalls
  <1>2. Surrounds(q, KeysCalls)
    BY <1>1, Around
  <1> HIDE DEF q
  <1>3. /\ q \in Seq(CallNames) /\ Len(q) = 5 /\ q[1] = "accountURL"
        /\ q[2] = "accountKey" /\ q[1 + 2] = "clusterDeployment"
        /\ q[2 + 2] = "secret" /\ q[2 + 3] = "issue"
    BY <1>1, <1>2 DEF Surrounds
  <1>4. InOrder(q) /\ Has(q, "secret")
    BY <1>3, KeysOrder
  <1> QED  BY <1>4, Zenon DEF q

LEMMA STSPass ==
    LET q == AccountCalls \o STSCalls \o <<"issue">>
    IN  InOrder(q) /\ Has(q, "assumeRole")
  <1> DEFINE q == AccountCalls \o STSCalls \o <<"issue">>
             x == STSCalls
  <1>1. x \in Seq(CallNames) /\ Len(x) = 6
    BY DEF CallNames, STSCalls
  <1>2. /\ x[1] = "clusterDeployment" /\ x[2] = "jumpRole" /\ x[3] = "operatorCreds"
        /\ x[4] = "assumeJumpRole" /\ x[5] = "accountClaim" /\ x[6] = "assumeRole"
    BY DEF STSCalls
  <1>3. Surrounds(q, x)
    BY <1>1, Around
  <1> HIDE DEF q, x
  <1>4. \A i \in 1..6 : q[i + 2] = x[i]
    BY <1>1, <1>3 DEF Surrounds
  <1>5. /\ q \in Seq(CallNames) /\ Len(q) = 9 /\ q[1] = "accountURL"
        /\ q[2] = "accountKey" /\ q[6 + 3] = "issue"
    BY <1>1, <1>3 DEF Surrounds
  <1>6. /\ q[1 + 2] = x[1] /\ q[2 + 2] = x[2] /\ q[3 + 2] = x[3]
        /\ q[4 + 2] = x[4] /\ q[5 + 2] = x[5] /\ q[6 + 2] = x[6]
    BY <1>4
  <1>7. InOrder(q) /\ Has(q, "assumeRole")
    BY <1>2, <1>5, <1>6, STSOrder
  <1> QED  BY <1>7, Zenon DEF q

(* Every pass calls in order, and by its end has had the credentials of the *)
(* cluster's platform.                                                      *)
LEMMA CallsInOrder ==
    ASSUME NEW k \in Kinds, NEW f \in BOOLEAN
    PROVE  LET q == CallsOf[k][f]
               cloud == k \in {"gcp", "azure"}
           IN  /\ InOrder(q)
               /\ cloud \/ (k = "keys" /\ ~f) => Has(q, "secret")
               /\ k = "sts" /\ ~f => Has(q, "assumeRole")
               /\ ~cloud /\ f =>
                      /\ Has(q, "operatorCreds") /\ ~Has(q, "assumeJumpRole")
                      /\ ~Has(q, "assumeRole") /\ ~Has(q, "secret")
               /\ k = "masters" /\ ~f =>
                      /\ ~Has(q, "operatorCreds") /\ ~Has(q, "assumeJumpRole")
                      /\ ~Has(q, "assumeRole") /\ ~Has(q, "secret")
  <1> DEFINE around(x) == AccountCalls \o x \o <<"issue">>
  <1>1. /\ FedRAMPCalls = <<"operatorCreds">> /\ MastersCalls = <<"clusterDeployment">>
    BY DEF FedRAMPCalls, MastersCalls
  <1>2. /\ InOrder(around(<<"secret">>)) /\ Has(around(<<"secret">>), "secret")
    BY OneCallPass
  <1>3. LET q == around(FedRAMPCalls)
        IN  /\ InOrder(q) /\ Has(q, "operatorCreds") /\ ~Has(q, "assumeJumpRole")
            /\ ~Has(q, "assumeRole") /\ ~Has(q, "secret")
    BY <1>1, OneCallPass
  <1>4. LET q == around(MastersCalls)
        IN  /\ InOrder(q) /\ ~Has(q, "operatorCreds") /\ ~Has(q, "assumeJumpRole")
            /\ ~Has(q, "assumeRole") /\ ~Has(q, "secret")
    BY <1>1, OneCallPass
  <1>5. /\ InOrder(around(KeysCalls)) /\ Has(around(KeysCalls), "secret")
    BY KeysPass
  <1>6. /\ InOrder(around(STSCalls)) /\ Has(around(STSCalls), "assumeRole")
    BY STSPass
  <1>7. \/ k \in {"gcp", "azure"} /\ CallsOf[k][f] = around(<<"secret">>)
        \/ k \notin {"gcp", "azure"} /\ f /\ CallsOf[k][f] = around(FedRAMPCalls)
        \/ k = "sts" /\ ~f /\ CallsOf[k][f] = around(STSCalls)
        \/ k = "keys" /\ ~f /\ CallsOf[k][f] = around(KeysCalls)
        \/ k = "masters" /\ ~f /\ CallsOf[k][f] = around(MastersCalls)
    BY CallsOfKind
  <1> HIDE DEF around
  <1> QED  BY <1>2, <1>3, <1>4, <1>5, <1>6, <1>7

-----------------------------------------------------------------------------
(* Credentials along a pass. *)

LEMMA CallsTyped ==
    ASSUME TypeOK, NEW c \in Clusters
    PROVE  InOrder(Calls(c))
  <1>1. kind[c] \in Kinds /\ fedramp \in BOOLEAN
    BY DEF TypeOK
  <1> QED  BY <1>1, CallsInOrder DEF Calls

(* What the calls made so far leave as the credentials in force: the last   *)
(* of them that changed any.                                                *)
CredentialsAfter(c, calls) ==
    LET made(call) == \E i \in 1..calls : Calls(c)[i] = call
    IN  IF made("assumeRole") \/ made("secret") THEN <<"account", c>>
        ELSE IF made("assumeJumpRole") THEN <<"jump">>
        ELSE IF made("operatorCreds") THEN <<"operator">> ELSE Masters

LEMMA NoneYet ==
    ASSUME NEW c
    PROVE  CredentialsAfter(c, 0) = Masters
  BY DEF CredentialsAfter

LEMMA OneMoreCall ==
    ASSUME TypeOK, NEW c \in Clusters, NEW n \in Nat, n + 1 < Len(Calls(c))
    PROVE  CredentialsAfter(c, n + 1)
               = After(Calls(c)[n + 1], c, CredentialsAfter(c, n))
  <1> DEFINE q == Calls(c)
             call == q[n + 1]
             made(x) == \E i \in 1..n : q[i] = x
             madeNow(x) == \E i \in 1..(n + 1) : q[i] = x
  <1>1. \A x : madeNow(x) <=> made(x) \/ call = x
    <2>1. \A i \in 1..(n + 1) : i \in 1..n \/ i = n + 1
      OBVIOUS
    <2>2. \A i \in 1..n : i \in 1..(n + 1)
      OBVIOUS
    <2>3. n + 1 \in 1..(n + 1)
      OBVIOUS
    <2> HIDE DEF q
    <2> QED  BY <2>1, <2>2, <2>3
  <1>2. /\ call = "operatorCreds" =>
               ~made("assumeJumpRole") /\ ~made("assumeRole") /\ ~made("secret")
        /\ call = "assumeJumpRole" => ~made("assumeRole") /\ ~made("secret")
    <2>1. InOrder(q)
      BY CallsTyped
    <2>2. n + 1 \in 1..Len(q) /\ 1..((n + 1) - 1) = 1..n
      BY <2>1 DEF InOrder
    <2> HIDE DEF q
    <2> QED  BY <2>1, <2>2 DEF InOrder
  <1>3. CredentialsAfter(c, n) =
            IF made("assumeRole") \/ made("secret") THEN <<"account", c>>
            ELSE IF made("assumeJumpRole") THEN <<"jump">>
            ELSE IF made("operatorCreds") THEN <<"operator">> ELSE Masters
    BY DEF CredentialsAfter
  <1>4. CredentialsAfter(c, n + 1) =
            IF madeNow("assumeRole") \/ madeNow("secret") THEN <<"account", c>>
            ELSE IF madeNow("assumeJumpRole") THEN <<"jump">>
            ELSE IF madeNow("operatorCreds") THEN <<"operator">> ELSE Masters
    BY DEF CredentialsAfter
  <1> HIDE DEF made, madeNow, call
  <1>5. CredentialsAfter(c, n + 1) = After(call, c, CredentialsAfter(c, n))
    BY <1>1, <1>2, <1>3, <1>4 DEF After
  <1> QED  BY <1>5 DEF call

LEMMA AllCalls ==
    ASSUME TypeOK, NEW c \in Clusters, NEW n \in Nat, n + 1 = Len(Calls(c))
    PROVE  CredentialsAfter(c, n) = Rightful(c)
  <1> DEFINE q == Calls(c)
             k == kind[c]
             cloud == k \in {"gcp", "azure"}
             made(x) == Has(q, x)
  <1>1. k \in Kinds /\ fedramp \in BOOLEAN /\ q = CallsOf[k][fedramp]
    BY DEF TypeOK, Calls
  <1>2. \A x : (\E i \in 1..n : q[i] = x) <=> made(x)
    <2>1. Len(q) - 1 = n
      OBVIOUS
    <2> QED  BY <2>1, Zenon DEF Has
  <1>3. CredentialsAfter(c, n) =
            IF made("assumeRole") \/ made("secret") THEN <<"account", c>>
            ELSE IF made("assumeJumpRole") THEN <<"jump">>
            ELSE IF made("operatorCreds") THEN <<"operator">> ELSE Masters
    BY <1>2 DEF CredentialsAfter
  <1>4. /\ cloud \/ (k = "keys" /\ ~fedramp) => made("secret")
        /\ k = "sts" /\ ~fedramp => made("assumeRole")
        /\ ~cloud /\ fedramp => /\ made("operatorCreds") /\ ~made("assumeJumpRole")
                                /\ ~made("assumeRole") /\ ~made("secret")
        /\ k = "masters" /\ ~fedramp =>
               /\ ~made("operatorCreds") /\ ~made("assumeJumpRole")
               /\ ~made("assumeRole") /\ ~made("secret")
    BY <1>1, CallsInOrder
  <1> HIDE DEF made
  <1> QED  BY <1>1, <1>3, <1>4 DEF Rightful, Kinds

-----------------------------------------------------------------------------
(* Types. *)

LEMMA NeedsAThing ==
    ASSUME NEW call \in CallNames \ {"issue"}, NEW c \in Clusters
    PROVE  Needs(call, c) \in Things
  BY DEF CallNames, Needs, Things

LEMMA RelevantThings ==
    ASSUME fedramp \in BOOLEAN, kind \in [Clusters -> Kinds]
    PROVE  Relevant \subseteq Things
  <1> SUFFICES ASSUME NEW c \in Clusters, NEW thing \in Needed(c)
               PROVE  thing \in Things
    BY Zenon DEF Relevant
  <1>1. kind[c] \in Kinds /\ fedramp \in BOOLEAN
    OBVIOUS
  <1> DEFINE q == CallsOf[kind[c]][fedramp]
  <1>2. Needed(c) = {Needs(q[i], c) : i \in 1..(Len(q) - 1)}
    BY <1>1 DEF Needed, NeededBy
  <1>3. PICK i \in 1..(Len(q) - 1) : thing = Needs(q[i], c)
    BY <1>2
  <1>4. InOrder(q)
    BY <1>1, CallsInOrder
  <1> HIDE DEF q
  <1>5. q[i] \in CallNames \ {"issue"}
    <2>1. i \in 1..Len(q) /\ i # Len(q)
      BY <1>4 DEF InOrder
    <2> QED  BY <1>4, <2>1 DEF InOrder
  <1> QED  BY <1>3, <1>5, NeedsAThing

LEMMA QueuesTyped ==
    ASSUME NEW S \in SUBSET Clusters
    PROVE  SetToSeqs(S) \subseteq Seq(Clusters)
  <1>1. IsFiniteSet(S)
    BY ConstantsAssumption, FS_Subset
  <1>2. Cardinality(S) \in Nat
    BY <1>1, FS_CardinalityType
  <1> QED BY <1>2 DEF SetToSeqs

Credentials == {Masters, <<"operator">>, <<"jump">>} \cup ({"account"} \X Clusters)

LEMMA AfterTyped ==
    ASSUME NEW call, NEW c \in Clusters, NEW before \in Credentials
    PROVE  After(call, c, before) \in Credentials
  BY DEF After, Credentials

-----------------------------------------------------------------------------
(* The inductive invariant. *)

(* Along a pass the credentials follow from the calls made, nothing of an   *)
(* earlier pass of the worker is left, and "issue" is the last call.        *)
PassInvariant ==
    \A w \in Workers :
        /\ Idle(w) => at[w] = 0 /\ creds[w] = Masters
        /\ \A c \in key[w] : /\ key[w] = {c} /\ at[w] < Len(Calls(c))
                             /\ creds[w] = CredentialsAfter(c, at[w])

PoolInvariant == TypeOK /\ PassInvariant

(* A pass of w is as far as its calls say. *)
PassOK(w) ==
    /\ Idle(w) => at[w] = 0 /\ creds[w] = Masters
    /\ \A c \in key[w] : /\ key[w] = {c} /\ at[w] < Len(Calls(c))
                         /\ creds[w] = CredentialsAfter(c, at[w])

LEMMA SameCalls ==
    ASSUME UNCHANGED <<fedramp, kind>>
    PROVE  \A c : /\ Calls(c)' = Calls(c)
                  /\ \A n : CredentialsAfter(c, n)' = CredentialsAfter(c, n)
  BY DEF Calls, CredentialsAfter

LEMMA OthersStay ==
    ASSUME PoolInvariant, UNCHANGED <<fedramp, kind>>, NEW w \in Workers, PassOK(w)',
           \A v \in Workers \ {w} :
               key'[v] = key[v] /\ at'[v] = at[v] /\ creds'[v] = creds[v]
    PROVE  PassInvariant'
  <1> SUFFICES ASSUME NEW v \in Workers PROVE PassOK(v)'
    BY DEF PassInvariant, PassOK
  <1>1. CASE v = w
    BY <1>1
  <1>2. CASE v # w
    <2>1. PassOK(v)
      BY DEF PoolInvariant, PassInvariant, PassOK
    <2>2. key'[v] = key[v] /\ at'[v] = at[v] /\ creds'[v] = creds[v]
      BY <1>2
    <2> QED  BY <2>1, <2>2, SameCalls DEF PassOK, Idle
  <1> QED  BY <1>1, <1>2

LEMMA InitInv == Init => PoolInvariant
  <1> SUFFICES ASSUME Init PROVE PoolInvariant
    OBVIOUS
  <1>1. fedramp \in BOOLEAN /\ kind \in [Clusters -> Kinds]
    <2>1. PICK site \in Sites : fedramp = site.fedramp /\ kind = site.kind
      BY DEF Init
    <2>2. site \in [fedramp: BOOLEAN, kind: [Clusters -> Kinds], refused: SUBSET Clusters]
      BY ConstantsAssumption
    <2> QED  BY <2>1, <2>2
  <1>2. usable \subseteq Relevant
    BY DEF Init
  <1>3. queue \in Seq(Clusters)
    BY QueuesTyped DEF Init
  <1>4. 0 \in 0..9 /\ 0 \in 0..(Retries - 1) /\ account \in Nat /\ 0 \in 0..account
    BY ConstantsAssumption DEF Init
  <1>5. Relevant \subseteq Things
    BY <1>1, RelevantThings
  <1>6. Masters \in Credentials
    BY DEF Credentials
  <1>7. TypeOK
    BY <1>1, <1>2, <1>3, <1>4, <1>5, <1>6 DEF Init, TypeOK, Credentials
  <1>8. PassInvariant
    BY DEF Init, PassInvariant, Idle
  <1> QED  BY <1>7, <1>8 DEF PoolInvariant

USE DEF env, keys, pass

LEMMA ReturnStep ==
    ASSUME PoolInvariant, NEW w \in Workers, Return(w), UNCHANGED env,
           delayed' \subseteq Clusters, issued' \subseteq Clusters
    PROVE  PoolInvariant'
  <1>1. TypeOK'
    <2>1. 0 \in 0..9 /\ 0 \in 0..(Retries - 1) /\ 0 \in 0..account
      BY ConstantsAssumption DEF PoolInvariant, TypeOK
    <2> QED  BY <2>1 DEF PoolInvariant, TypeOK, Return
  <1>2. PassOK(w)'
    BY DEF PoolInvariant, TypeOK, Return, PassOK, Idle
  <1>3. PassInvariant'
    <2>1. \A v \in Workers \ {w} :
              key'[v] = key[v] /\ at'[v] = at[v] /\ creds'[v] = creds[v]
      BY DEF PoolInvariant, TypeOK, Return
    <2> QED  BY <1>2, <2>1, OthersStay
  <1> QED  BY <1>1, <1>3 DEF PoolInvariant

LEMMA FailStep ==
    ASSUME PoolInvariant, NEW w \in Workers, NEW c \in key[w], Fail(w, c), UNCHANGED env
    PROVE  PoolInvariant'
  <1>1. c \in Clusters
    BY DEF PoolInvariant, TypeOK
  <1>2. delayed' \subseteq Clusters /\ issued' \subseteq Clusters
    BY <1>1 DEF PoolInvariant, TypeOK, Fail
  <1> QED  BY <1>2, ReturnStep DEF Fail

LEMMA AdvanceStep ==
    ASSUME PoolInvariant, NEW w \in Workers, NEW c \in key[w], Call(w, c) # "issue",
           Advance(w, c), UNCHANGED env,
           url' \in [Workers -> 0..account], signer' \in [Workers -> 0..account]
    PROVE  PoolInvariant'
  <1>1. c \in Clusters /\ InOrder(Calls(c))
    BY CallsTyped DEF PoolInvariant, TypeOK
  <1>2. /\ key[w] = {c} /\ at[w] < Len(Calls(c))
        /\ creds[w] = CredentialsAfter(c, at[w])
    BY DEF PoolInvariant, PassInvariant
  <1>3. at[w] \in Nat /\ at[w] + 1 < Len(Calls(c)) /\ at[w] + 1 \in 0..9
    <2> DEFINE q == Calls(c)
    <2>1. at[w] \in 0..9
      BY DEF PoolInvariant, TypeOK
    <2>2. InOrder(q) /\ at[w] < Len(q) /\ q[at[w] + 1] # "issue"
      BY <1>1, <1>2 DEF Call
    <2> HIDE DEF q
    <2>3. Len(q) \in 4..9 /\ \A i \in 1..Len(q) : q[i] = "issue" <=> i = Len(q)
      BY <2>2 DEF InOrder
    <2>4. at[w] + 1 \in 1..Len(q)
      BY <2>1, <2>2, <2>3
    <2>5. at[w] + 1 # Len(q)
      BY <2>2, <2>3, <2>4
    <2>6. at[w] \in Nat /\ at[w] + 1 < Len(q) /\ at[w] + 1 \in 0..9
      BY <2>1, <2>2, <2>3, <2>5
    <2> QED  BY <2>6 DEF q
  <1>4. /\ key' = key /\ at'[w] = at[w] + 1
        /\ creds'[w] = After(Call(w, c), c, creds[w])
    BY DEF Advance, PoolInvariant, TypeOK
  <1>5. creds'[w] = CredentialsAfter(c, at[w] + 1)
    BY <1>1, <1>2, <1>3, <1>4, OneMoreCall DEF PoolInvariant, Call
  <1>6. PassOK(w)'
    BY <1>2, <1>3, <1>4, <1>5, SameCalls DEF PassOK, Idle
  <1>7. PassInvariant'
    <2>1. \A v \in Workers \ {w} :
              key'[v] = key[v] /\ at'[v] = at[v] /\ creds'[v] = creds[v]
      BY <1>4 DEF PoolInvariant, TypeOK, Advance
    <2> QED  BY <1>6, <2>1, OthersStay
  <1>8. TypeOK'
    <2>1. creds \in [Workers -> Credentials]
      BY DEF PoolInvariant, TypeOK, Credentials
    <2>2. creds' \in [Workers -> Credentials]
      BY <1>1, <2>1, AfterTyped DEF Advance
    <2>3. at' \in [Workers -> 0..9] /\ tries' \in [Workers -> 0..(Retries - 1)]
      <3>1. 0 \in 0..(Retries - 1)
        BY ConstantsAssumption
      <3> QED  BY <1>3, <3>1 DEF PoolInvariant, TypeOK, Advance
    <2> QED  BY <2>2, <2>3 DEF PoolInvariant, TypeOK, Advance, Credentials
  <1> QED  BY <1>7, <1>8 DEF PoolInvariant

LEMMA RetryStep ==
    ASSUME PoolInvariant, NEW w \in Workers, NEW c \in key[w], Retry(w, c), UNCHANGED env
    PROVE  PoolInvariant'
  <1>1. CASE tries[w] >= Retries - 1
    BY <1>1, FailStep DEF Retry
  <1>2. CASE ~(tries[w] >= Retries - 1)
    <2>1. tries[w] + 1 \in 0..(Retries - 1)
      BY <1>2, ConstantsAssumption DEF PoolInvariant, TypeOK
    <2>2. /\ tries' = [tries EXCEPT ![w] = @ + 1]
          /\ UNCHANGED <<keys, key, at, url, signer, creds>>
      BY <1>2 DEF Retry
    <2>3. TypeOK'
      BY <2>1, <2>2 DEF PoolInvariant, TypeOK
    <2>4. PassInvariant'
      BY <2>2, SameCalls DEF PoolInvariant, PassInvariant, Idle
    <2> QED  BY <2>3, <2>4 DEF PoolInvariant
  <1> QED  BY <1>1, <1>2

LEMMA TakeStep ==
    ASSUME PoolInvariant, NEW w \in Workers, Take(w), UNCHANGED <<edits, faults>>
    PROVE  PoolInvariant'
  <1> DEFINE c == Head(queue)
  <1>1. c \in Clusters /\ Tail(queue) \in Seq(Clusters)
    BY DEF PoolInvariant, TypeOK, Take
  <1>2. key' = [key EXCEPT ![w] = {c}] /\ queue' = Tail(queue)
    BY DEF Take
  <1> HIDE DEF c
  <1>3. TypeOK'
    BY <1>1, <1>2 DEF PoolInvariant, TypeOK, Take
  <1>4. /\ key'[w] = {c} /\ at'[w] = 0 /\ creds'[w] = Masters
    <2>1. at[w] = 0 /\ creds[w] = Masters
      BY DEF PoolInvariant, PassInvariant, Take
    <2>2. at' = at /\ creds' = creds /\ key'[w] = {c}
      BY <1>2 DEF PoolInvariant, TypeOK, Take
    <2> QED  BY <2>1, <2>2
  <1>5. 0 < Len(Calls(c))
    <2>1. InOrder(Calls(c))
      BY <1>1, CallsTyped DEF PoolInvariant
    <2> DEFINE length == Len(Calls(c))
    <2>2. length \in 4..9
      BY <2>1 DEF InOrder
    <2> HIDE DEF length
    <2>3. 0 < length
      BY <2>2
    <2> QED  BY <2>3 DEF length
  <1>6. UNCHANGED <<fedramp, kind>>
    BY DEF Take
  <1>7. PassOK(w)'
    BY <1>4, <1>5, <1>6, NoneYet, SameCalls DEF PassOK, Idle
  <1>8. PassInvariant'
    <2>1. \A v \in Workers \ {w} :
              key'[v] = key[v] /\ at'[v] = at[v] /\ creds'[v] = creds[v]
      BY <1>2 DEF PoolInvariant, TypeOK, Take
    <2> QED  BY <1>6, <1>7, <2>1, OthersStay
  <1> QED  BY <1>3, <1>8 DEF PoolInvariant

LEMMA WorkerStep ==
    ASSUME PoolInvariant, NEW w \in Workers, Worker(w)
    PROVE  PoolInvariant'
  <1>1. CASE Take(w)
    BY <1>1, TakeStep DEF Worker
  <1>2. CASE Read(w)
    <2>1. PICK c \in key[w] :
              /\ Call(w, c) \notin Loops \cup {"issue"}
              /\ IF Needs(Call(w, c), c) \in usable
                 THEN /\ Advance(w, c)
                      /\ url' = IF Call(w, c) = "accountURL"
                                THEN [url EXCEPT ![w] = account] ELSE url
                      /\ signer' = IF Call(w, c) = "accountKey"
                                   THEN [signer EXCEPT ![w] = account] ELSE signer
                 ELSE Fail(w, c)
              /\ UNCHANGED env
      BY <1>2 DEF Read
    <2>2. CASE Needs(Call(w, c), c) \in usable
      <3>1. account \in 0..account
        BY DEF PoolInvariant, TypeOK
      <3>2. url' \in [Workers -> 0..account] /\ signer' \in [Workers -> 0..account]
        BY <2>1, <2>2, <3>1 DEF PoolInvariant, TypeOK
      <3> QED  BY <2>1, <2>2, <3>2, AdvanceStep
    <2>3. CASE Needs(Call(w, c), c) \notin usable
      BY <2>1, <2>3, FailStep
    <2> QED  BY <2>2, <2>3
  <1>3. CASE AssumeRole(w)
    <2>1. PICK c \in key[w] :
              /\ Call(w, c) \in Loops
              /\ IF Needs(Call(w, c), c) \in usable
                 THEN Advance(w, c) /\ UNCHANGED <<url, signer>>
                 ELSE Retry(w, c)
              /\ UNCHANGED env
      BY <1>3 DEF AssumeRole
    <2>2. Call(w, c) # "issue"
      BY <2>1 DEF Loops
    <2>3. CASE Needs(Call(w, c), c) \in usable
      <3>1. url' \in [Workers -> 0..account] /\ signer' \in [Workers -> 0..account]
        BY <2>1, <2>3 DEF PoolInvariant, TypeOK
      <3> QED  BY <2>1, <2>2, <2>3, <3>1, AdvanceStep
    <2>4. CASE Needs(Call(w, c), c) \notin usable
      BY <2>1, <2>4, RetryStep
    <2> QED  BY <2>3, <2>4
  <1>4. CASE Issue(w)
    <2>1. PICK c \in key[w] :
              /\ IF url[w] = signer[w] /\ ZoneFound(c)
                 THEN Return(w) /\ issued' = issued \cup {c} /\ UNCHANGED delayed
                 ELSE Fail(w, c)
              /\ UNCHANGED env
      BY <1>4 DEF Issue
    <2>2. CASE url[w] = signer[w] /\ ZoneFound(c)
      <3>1. delayed' \subseteq Clusters /\ issued' \subseteq Clusters
        BY <2>1, <2>2 DEF PoolInvariant, TypeOK
      <3> QED  BY <2>1, <2>2, <3>1, ReturnStep
    <2>3. CASE ~(url[w] = signer[w] /\ ZoneFound(c))
      BY <2>1, <2>3, FailStep
    <2> QED  BY <2>2, <2>3
  <1> QED  BY <1>1, <1>2, <1>3, <1>4 DEF Worker

(* What leaves the passes alone. *)
LEMMA PassesStay ==
    ASSUME PoolInvariant, UNCHANGED <<fedramp, kind, pass>>
    PROVE  PassInvariant'
  BY SameCalls DEF PoolInvariant, PassInvariant, Idle

LEMMA RestartStep ==
    ASSUME PoolInvariant, Restart
    PROVE  PoolInvariant'
  <1>1. queue' \in Seq(Clusters)
    <2>1. Clusters \ issued \in SUBSET Clusters
      OBVIOUS
    <2> QED  BY <2>1, QueuesTyped DEF Restart
  <1>2. 0 \in 0..9 /\ 0 \in 0..(Retries - 1) /\ 0 \in 0..account
    BY ConstantsAssumption DEF PoolInvariant, TypeOK
  <1>3. TypeOK'
    BY <1>1, <1>2 DEF PoolInvariant, TypeOK, Restart
  <1>4. PassInvariant'
    BY DEF Restart, PassInvariant, Idle
  <1> QED  BY <1>3, <1>4 DEF PoolInvariant

LEMMA NextStep == PoolInvariant /\ [Next]_vars => PoolInvariant'
  <1> SUFFICES ASSUME PoolInvariant, [Next]_vars PROVE PoolInvariant'
    OBVIOUS
  <1>1. ASSUME NEW w \in Workers, Worker(w) PROVE PoolInvariant'
    BY <1>1, WorkerStep
  <1>2. ASSUME NEW w \in Workers, CallFails(w) PROVE PoolInvariant'
    BY <1>2, FailStep, RetryStep DEF CallFails
  <1>3. ASSUME NEW c \in Clusters, BackOff(c) PROVE PoolInvariant'
    <2>1. TypeOK'
      BY <1>3 DEF BackOff, Requeue, PoolInvariant, TypeOK
    <2> QED  BY <1>3, <2>1, PassesStay DEF BackOff, Requeue, PoolInvariant
  <1>4. ASSUME NEW c \in Clusters, Renew(c) PROVE PoolInvariant'
    <2>1. TypeOK'
      BY <1>4 DEF Renew, Edit, PoolInvariant, TypeOK
    <2> QED  BY <1>4, <2>1, PassesStay DEF Renew, Edit, PoolInvariant
  <1>5. ASSUME NEW thing \in Relevant, Change(thing) PROVE PoolInvariant'
    <2>1. thing \in Things
      BY RelevantThings DEF PoolInvariant, TypeOK
    <2>2. TypeOK'
      BY <1>5, <2>1 DEF Change, Edit, PoolInvariant, TypeOK
    <2> QED  BY <1>5, <2>2, PassesStay DEF Change, Edit, PoolInvariant
  <1>6. CASE ReplaceAccount
    <2>1. TypeOK'
      <3>1. account' \in Nat /\ 0..account \subseteq 0..account'
        BY <1>6 DEF ReplaceAccount, PoolInvariant, TypeOK
      <3>2. url' \in [Workers -> 0..account'] /\ signer' \in [Workers -> 0..account']
        BY <1>6, <3>1 DEF ReplaceAccount, Edit, PoolInvariant, TypeOK
      <3> QED  BY <1>6, <3>1, <3>2 DEF ReplaceAccount, Edit, PoolInvariant, TypeOK
    <2> QED  BY <1>6, <2>1, PassesStay DEF ReplaceAccount, Edit, PoolInvariant
  <1>7. CASE Restart
    BY <1>7, RestartStep
  <1>8. CASE UNCHANGED vars
    <2>1. TypeOK'
      BY <1>8 DEF vars, PoolInvariant, TypeOK
    <2> QED  BY <1>8, <2>1, PassesStay DEF vars, PoolInvariant
  <1> QED  BY <1>1, <1>2, <1>3, <1>4, <1>5, <1>6, <1>7, <1>8 DEF Next

-----------------------------------------------------------------------------

LEMMA PoolInductive == Spec => []PoolInvariant
  BY InitInv, NextStep, PTL DEF Spec

(* Every variable keeps its type; in particular the loop of                 *)
(* getSTSCredentials ends by assumeRolePollingRetries, the limit included.  *)
THEOREM TypeCorrect == Spec => []TypeOK
  <1>1. PoolInvariant => TypeOK
    BY DEF PoolInvariant
  <1> QED  BY <1>1, PoolInductive, PTL

(* A worker that comes to IssueCertificate's writes in the zone of a        *)
(* cluster has the credentials of that cluster's account.                   *)
THEOREM OwnCredentialsOnly == Spec => []OwnCredentials
  <1>1. PoolInvariant => OwnCredentials
    <2> SUFFICES ASSUME PoolInvariant, NEW w \in Workers, NEW c \in key[w],
                        Call(w, c) = "issue"
                 PROVE  creds[w] = Rightful(c)
      BY DEF OwnCredentials
    <2>1. c \in Clusters /\ InOrder(Calls(c))
      BY CallsTyped DEF PoolInvariant, TypeOK
    <2>2. at[w] \in Nat /\ at[w] < Len(Calls(c)) /\ creds[w] = CredentialsAfter(c, at[w])
      <3>1. at[w] \in 0..9
        BY DEF PoolInvariant, TypeOK
      <3>2. at[w] < Len(Calls(c)) /\ creds[w] = CredentialsAfter(c, at[w])
        BY DEF PoolInvariant, PassInvariant
      <3> QED  BY <3>1, <3>2
    <2>3. at[w] + 1 = Len(Calls(c))
      <3> DEFINE q == Calls(c)
      <3>1. InOrder(q) /\ q[at[w] + 1] = "issue" /\ at[w] < Len(q)
        BY <2>1, <2>2 DEF Call
      <3> HIDE DEF q
      <3>2. Len(q) \in 4..9 /\ \A i \in 1..Len(q) : q[i] = "issue" <=> i = Len(q)
        BY <3>1 DEF InOrder
      <3>3. at[w] + 1 \in 1..Len(q)
        BY <2>2, <3>1, <3>2
      <3>4. at[w] + 1 = Len(q)
        BY <3>1, <3>2, <3>3
      <3> QED  BY <3>4 DEF q
    <2> QED  BY <2>1, <2>2, <2>3, AllCalls DEF PoolInvariant
  <1> QED  BY <1>1, PoolInductive, PTL
=============================================================================
