----------------------------- MODULE RateLimit -----------------------------
(***************************************************************************)
(* The per-address limiter of internal/middleware/rate_limit.go over the   *)
(* Redis counters "rl:<ip>:<minute>".  The middleware computes the minute, *)
(* sends INCR, sends EXPIRE when it was the first to count, and compares:  *)
(* requests interleave, and time passes, between any two of these.         *)
(*                                                                         *)
(* Time is the minute of the server's clock.  Each request of the model    *)
(* arrives once.  An INCR may report an error, applied or not; the client  *)
(* library may send it again although the first one was applied; an EXPIRE *)
(* may be lost; the instance of the API that serves a request may die      *)
(* between the two commands.                                               *)
(***************************************************************************)
EXTENDS Naturals, FiniteSets

CONSTANTS
  Requests,     \* requests that may arrive, finitely many
  IPs,          \* what clientIP may return
  LimitPerMin,  \* positive: a limit of zero or less takes the middleware out of the way
  LastMinute    \* bound: the clock stops here

ASSUME RateLimitAssumption ==
  /\ LimitPerMin \in Nat \ {0}
  /\ LastMinute \in Nat
  /\ IsFiniteSet(Requests)

Minutes == 0..LastMinute
Keys == IPs \X Minutes

NoTTL == LastMinute + 1    \* a key that never expires

VARIABLES
  now,      \* the minute on the server's clock
  count,    \* count[k]: the counter of key k, 0 when the key is absent
  armed,    \* armed[k]: the minute in which the key's TTL of one minute was set
  faulty,   \* history: keys of which some command failed or was sent twice
  req       \* req[r]: local state of request r

vars == <<now, count, armed, faulty, req>>

Waiting == [pc |-> "new", key |-> <<>>, seen |-> 0, late |-> FALSE]

\* key: the counter chosen on arrival; seen: what INCR returned (0: an error);
\* late: had the minute of the key passed when INCR was applied?
RequestState ==
  [pc   : {"new", "incr", "expire", "served", "refused", "dead"},
   key  : Keys \cup {<<>>},
   seen : Nat,
   late : BOOLEAN]

Init ==
  /\ now = 0
  /\ count = [k \in Keys |-> 0]
  /\ armed = [k \in Keys |-> NoTTL]
  /\ faulty = {}
  /\ req = [r \in Requests |-> Waiting]

\* Mutant of Verdict: the limit itself is refused.
VerdictBelow(n) == IF n >= LimitPerMin THEN "refused" ELSE "served"

\* count > limit is refused with 429, everything else passes on.
Verdict(n) == IF n > LimitPerMin THEN "refused" ELSE "served"

Arrive(r, ip) ==
  /\ req[r].pc = "new"
  /\ req' = [req EXCEPT ![r] = [Waiting EXCEPT !.pc = "incr", !.key = <<ip, now>>]]
  /\ UNCHANGED <<now, count, armed, faulty>>

\* The counter after INCR was applied n times.
Counted(k, n) == count' = [count EXCEPT ![k] = @ + n]

Faulty(r) == faulty' = faulty \cup {req[r].key}

\* Mutant of Incr: nobody sends EXPIRE.
IncrOnly(r) ==
  /\ req[r].pc = "incr"
  /\ LET k == req[r].key IN
     /\ Counted(k, 1)
     /\ req' = [req EXCEPT ![r].pc = Verdict(count[k] + 1), ![r].seen = count[k] + 1,
                           ![r].late = now > k[2]]
  /\ UNCHANGED <<now, armed, faulty>>

\* INCR succeeds; the first to count goes on to EXPIRE.  n = 2: the command
\* was sent again after its reply was lost.
Incr(r) ==
  /\ req[r].pc = "incr"
  /\ LET k == req[r].key IN
     \E n \in 1..2 :
       /\ Counted(k, n)
       /\ req' = [req EXCEPT
            ![r].pc = IF count[k] + n = 1 THEN "expire" ELSE Verdict(count[k] + n),
            ![r].seen = count[k] + n,
            ![r].late = now > k[2]]
       /\ IF n = 1 THEN UNCHANGED faulty ELSE Faulty(r)
  /\ UNCHANGED <<now, armed>>

\* INCR reports an error, applied or not: the limiter fails open.
IncrFails(r) ==
  /\ req[r].pc = "incr"
  /\ \E n \in 0..1 : Counted(req[r].key, n)
  /\ req' = [req EXCEPT ![r].pc = "served"]
  /\ Faulty(r)
  /\ UNCHANGED <<now, armed>>

\* EXPIRE of a key that is gone does nothing; its error is discarded.
Expire(r) ==
  /\ req[r].pc = "expire"
  /\ \/ /\ count[req[r].key] > 0
        /\ armed' = [armed EXCEPT ![req[r].key] = now]
        /\ UNCHANGED faulty
     \/ /\ count[req[r].key] = 0
        /\ UNCHANGED <<armed, faulty>>
     \/ Faulty(r) /\ UNCHANGED armed      \* EXPIRE was lost
  /\ req' = [req EXCEPT ![r].pc = Verdict(req[r].seen)]
  /\ UNCHANGED <<now, count>>

Die(r) ==
  /\ req[r].pc \in {"incr", "expire"}
  /\ req' = [req EXCEPT ![r].pc = "dead"]
  /\ Faulty(r)
  /\ UNCHANGED <<now, count, armed>>

\* Mutant of KeyExpires: the TTL ends within the minute.
KeyExpiresEarly(k) ==
  /\ count[k] > 0
  /\ now >= armed[k]
  /\ count' = [count EXCEPT ![k] = 0]
  /\ armed' = [armed EXCEPT ![k] = NoTTL]
  /\ UNCHANGED <<now, faulty, req>>

\* The TTL is a minute long: it ends in a later minute than it was set.
KeyExpires(k) ==
  /\ count[k] > 0
  /\ now > armed[k]
  /\ count' = [count EXCEPT ![k] = 0]
  /\ armed' = [armed EXCEPT ![k] = NoTTL]
  /\ UNCHANGED <<now, faulty, req>>

Clock ==
  /\ now < LastMinute
  /\ now' = now + 1
  /\ UNCHANGED <<count, armed, faulty, req>>

Next ==
  \/ \E r \in Requests :
       \/ \E ip \in IPs : Arrive(r, ip)
       \/ Incr(r) \/ IncrFails(r) \/ Expire(r) \/ Die(r)
  \/ \E k \in Keys : KeyExpires(k)
  \/ Clock

Spec == Init /\ [][Next]_vars

-----------------------------------------------------------------------------
TypeOK ==
  /\ now \in Minutes
  /\ count \in [Keys -> Nat]
  /\ armed \in [Keys -> 0..NoTTL]
  /\ faulty \subseteq Keys
  /\ req \in [Requests -> RequestState]

\* Requests of one address that were counted within their minute and let
\* through by their count: never more than the limit, whatever fails and
\* whenever keys expire.  (Requests that INCR failed for pass uncounted, and
\* one counted after its minute may start the counter anew.)
LimitHoldsWithinTheMinute ==
  \A k \in Keys :
    Cardinality({r \in Requests :
        req[r].key = k /\ req[r].pc = "served" /\ req[r].seen > 0 /\ ~req[r].late})
      <= LimitPerMin

Using(k) == {r \in Requests : req[r].key = k}

\* A request is refused only when its address has used up the limit with
\* other requests of the same minute, unless a command on its counter failed.
RefusedOnlyOverLimit ==
  \A r \in Requests :
    req[r].pc = "refused" /\ req[r].key \notin faulty => Cardinality(Using(req[r].key)) > LimitPerMin

\* A counter has a TTL, except while the request that created it is on its
\* way from INCR to EXPIRE (rate_limit.go:36-38): no key is left behind in
\* Redis for ever, unless a command on it failed.
CountersExpire ==
  \A k \in Keys \ faulty :
    count[k] > 0 /\ armed[k] = NoTTL
      => \E r \in Using(k) : req[r].pc = "expire"

=============================================================================
