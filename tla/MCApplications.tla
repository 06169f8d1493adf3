--------------------------- MODULE MCApplications ---------------------------
(* Small instances of Applications for TLC. *)
EXTENDS Applications

=============================================================================
