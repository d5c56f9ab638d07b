---------------------------- MODULE MCAcmeOrder ----------------------------
(* AcmeOrder, instantiated for TLC: a request for a name and its wildcard,  *)
(* whose challenges share a record, and a request for another name.         *)
EXTENDS AcmeOrder

CONSTANTS primary, secondary, apps, wildcard, api

Requests == {primary, secondary}

Names == [c \in Requests |-> IF c = primary THEN {apps, wildcard} ELSE {api}]

(* A long zone: the record of the shared challenges, or the test record, is *)
(* beyond the first page.                                                   *)
Pages == {{apps, api, AccessTest}, {api, AccessTest}, {apps, api}}

Base == [n \in {apps, wildcard, api} |-> IF n = wildcard THEN apps ELSE n]
=============================================================================
