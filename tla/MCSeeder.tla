------------------------------ MODULE MCSeeder ------------------------------
(* Small instances of Seeder for TLC.  The users are the first of the real *)
(* table; SeedData's statements about the real tables are evaluated too.   *)
EXTENDS Seeder, SeedData

MCUserRows == [n \in 1..3 |-> [email |-> UserTable[n][1], role |-> UserTable[n][2]]]
MCJobRows == <<"seed_001", "seed_002">>
MCApplicationRows == <<<<1, 0>>, <<2, 1>>, <<1, 5>>>>   \* the last is beyond the list
MCSavedRows == <<<<2, 0>>>>

=============================================================================
