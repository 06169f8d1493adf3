---------------------------- MODULE MCApiProcess ----------------------------
(* A small instance of ApiProcess for TLC: one request comes to this       *)
(* process, two to other instances of the API that share its counters.     *)
EXTENDS ApiProcess

=============================================================================
