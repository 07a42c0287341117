------------------------------- MODULE MCHttp -------------------------------
(* Instances of HttpKeyStore for TLC. *)
EXTENDS HttpKeyStore, TLC

CONSTANTS c1, c2, k1

(* An API of the kind the adapter retries for: it answers what only the last *)
(* attempt of a write accepts, and does not mind repetitions.                *)
Lenient == {[created |-> "204", done |-> "204", refuses |-> FALSE]}

(* A REST API: a second POST is a conflict, a second DELETE finds nothing.   *)
Strict == {[created |-> "200", done |-> "204", refuses |-> TRUE]}
=============================================================================
