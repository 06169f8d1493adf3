---------------------------- MODULE MCSavedJobs ----------------------------
(* Small instances of SavedJobs for TLC.  Two requests or direct calls are *)
(* served at a time.  With two jobs and a default limit of one a user has  *)
(* more rows than a page, and pages 1 (also asked for as 0) and 2 differ.  *)
(* No property names a user, a job or a request: all three are symmetric.  *)
EXTENDS SavedJobs, TLC

Symmetry == Permutations(Users) \cup Permutations(Jobs) \cup Permutations(Requests)

=============================================================================
