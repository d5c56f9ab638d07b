---------------------------- MODULE MCClientPool ----------------------------
(* ClientPool, instantiated for TLC: as many clusters in STS mode as there  *)
(* are workers, so that refused roles can hold all of them, and one more.   *)
EXTENDS ClientPool

CONSTANTS sts1, sts2, other

TwoInSTSMode(k) == [c \in {sts1, sts2, other} |-> IF c = other THEN k ELSE "sts"]

(* The two are alike, and in FedRAMP so are all clusters on AWS.  The       *)
(* request of a cluster whose zone is never found comes back for ever.      *)
AllSites ==
    [fedramp: {FALSE}, kind: {TwoInSTSMode(k) : k \in {"keys", "masters", "gcp"}},
     refused: {{sts1, sts2}}]
        \cup [fedramp: {FALSE}, kind: {TwoInSTSMode("azure")}, refused: {{}, {sts1}}]
        \cup [fedramp: {TRUE}, kind: {TwoInSTSMode("gcp"), TwoInSTSMode("azure")},
              refused: {{}}]
=============================================================================
