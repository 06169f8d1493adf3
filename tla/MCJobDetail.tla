---------------------------- MODULE MCJobDetail ----------------------------
(* A small instance of JobDetail for TLC.  Words are numbers; 0 is another *)
(* spelling of 1.  All of the first list's 29 skills are among the 50 of   *)
(* the second: 58 percent of these, which float64 makes 57.                *)
EXTENDS JobDetail

MCWords == 0..50
MCLower == [w \in MCWords |-> IF w = 0 THEN 1 ELSE w]
MCSkillSets == {{0} \cup 2..29, 1..50}

=============================================================================
