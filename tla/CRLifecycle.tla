----------------------------- MODULE CRLifecycle -----------------------------
(***************************************************************************)
(* What the CertificateRequest controller promises about one name: the     *)
(* life of the successive CertificateRequests of that name, and of the     *)
(* certificates issued for them.  No caches, no worker, no failures.       *)
(*                                                                         *)
(*     absent -> new -> guarded -> deleting -> absent                      *)
(*               new -> absent                                             *)
(*                                                                         *)
(* Certificates are issued for a guarded object only, a guarded object     *)
(* stays guarded until it has been deleted and finalized, and no           *)
(* certificate is revoked whose object is still wanted.                    *)
(* CertificateRequest!Implements: the controller keeps this promise.       *)
(***************************************************************************)
EXTENDS Naturals, Sequences

VARIABLES
    uid,      \* the incarnation of the name
    life,     \* the stage of its life
    owners,   \* owners[i] is the incarnation the i-th certificate was issued for
    revoked   \* the certificates revoked

vars == <<uid, life, owners, revoked>>

Stages == {"absent", "new", "guarded", "deleting"}

TypeOK ==
    /\ uid \in Nat /\ life \in Stages
    /\ owners \in Seq(Nat) /\ revoked \subseteq Nat

Init == uid = 1 /\ life = "new" /\ owners = <<>> /\ revoked = {}

Move(from, to) == life = from /\ life' = to

Create ==
    /\ Move("absent", "new") /\ uid' = uid + 1
    /\ UNCHANGED <<owners, revoked>>

(* The finalizer is added. *)
Guard == Move("new", "guarded") /\ UNCHANGED <<uid, owners, revoked>>

(* An issuance under way when the object is deleted is not called off. *)
Issue ==
    /\ life \in {"guarded", "deleting"}
    /\ owners' = Append(owners, uid)
    /\ UNCHANGED <<uid, life, revoked>>

Delete ==
    /\ Move("new", "absent") \/ Move("guarded", "deleting")
    /\ UNCHANGED <<uid, owners, revoked>>

Wanted(i) == owners[i] = uid /\ life \in {"new", "guarded"}

Revoke ==
    /\ \E i \in DOMAIN owners : ~Wanted(i) /\ revoked' = revoked \cup {i}
    /\ UNCHANGED <<uid, life, owners>>

(* The finalizer is removed. *)
Finalize == Move("deleting", "absent") /\ UNCHANGED <<uid, owners, revoked>>

Next == Create \/ Guard \/ Issue \/ Delete \/ Revoke \/ Finalize

Spec == Init /\ [][Next]_vars
=============================================================================
