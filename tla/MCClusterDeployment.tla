------------------------- MODULE MCClusterDeployment -------------------------
(* ClusterDeployment, instantiated for TLC. *)
EXTENDS ClusterDeployment

(* Bundles whose names differ in more than case. *)
DistinctNames == [b \in Bundles |-> <<"cr", b>>]

API  == [part |-> "default", domain |-> [base |-> "api", wild |-> FALSE]]
Apps == [part |-> "ingress", domain |-> [base |-> "apps", wild |-> FALSE]]

Web  == [part |-> "additional", domain |-> [base |-> "web", wild |-> FALSE]]

OneUse    == {Apps}
ThreeUses == {API, Web, Apps}

RHAPI == {[base |-> "rh-api", wild |-> FALSE]}

=============================================================================
