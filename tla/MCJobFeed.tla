----------------------------- MODULE MCJobFeed -----------------------------
(* A small instance of JobFeed for TLC. *)
EXTENDS JobFeed

=============================================================================
