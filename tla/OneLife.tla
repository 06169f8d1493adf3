------------------------------ MODULE OneLife ------------------------------
(***************************************************************************)
(* What the system promises about a key it hands out (a refresh token, the *)
(* id of an application), whatever requests create, use and remove it: the *)
(* key is granted at most once, to one holder, and once it is dead it      *)
(* never stands for anyone again.  Sessions and Applications implement it. *)
(***************************************************************************)
CONSTANTS Holders, Keys, Nobody

VARIABLES
  phase,  \* phase[k]: "unused", "live" or "dead"
  holder  \* holder[k]: the holder a live key stands for

vars == <<phase, holder>>

Init ==
  /\ phase = [k \in Keys |-> "unused"]
  /\ holder = [k \in Keys |-> Nobody]

\* An unused key is granted to one holder.
Grant(k, u) ==
  /\ phase[k] = "unused"
  /\ phase' = [phase EXCEPT ![k] = "live"]
  /\ holder' = [holder EXCEPT ![k] = u]

\* Keys die: revoked, expired, or drawn and never put in place.  A crash may
\* take several at once.
Retire(S) ==
  /\ \A k \in S : phase[k] # "dead"
  /\ phase' = [k \in Keys |-> IF k \in S THEN "dead" ELSE phase[k]]
  /\ holder' = [k \in Keys |-> IF k \in S THEN Nobody ELSE holder[k]]

Next ==
  \/ \E k \in Keys, u \in Holders : Grant(k, u)
  \/ \E S \in SUBSET Keys : Retire(S)

Spec == Init /\ [][Next]_vars

=============================================================================
