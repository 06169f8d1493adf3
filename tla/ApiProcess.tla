----------------------------- MODULE ApiProcess -----------------------------
(***************************************************************************)
(* The limiter inside the process that serves it.  Every route is behind   *)
(* the limiter (internal/handler/router.go:37), so a request the process   *)
(* has accepted is first a request of RateLimit and goes on as a task of   *)
(* Shutdown when its count lets it through.  The counters are in Redis:    *)
(* other instances of the API use them too, and outlive this process.      *)
(*                                                                         *)
(* main closes the Redis client while handlers may still be on their way   *)
(* through the limiter: from then on no command of theirs is sent.         *)
(***************************************************************************)
EXTENDS RateLimit, Shutdown

\* The requests this process may accept; the others go to other instances.
ASSUME ApiProcessAssumption == Handlers \subseteq Requests

apiVars == <<vars, serverVars>>

ApiInit == Init /\ ServerInit

RedisOpen == main \notin {"closePool", "exited"}

\* A request arrives here, while the listener is open, or elsewhere.
ArriveAt(r, ip) ==
  /\ Arrive(r, ip)
  /\ IF r \in Handlers THEN Accept(r) ELSE UNCHANGED serverVars

\* The limiter's commands.
Limiter(r) ==
  /\ Incr(r) \/ IncrFails(r) \/ Expire(r)
  /\ r \in Handlers =>
       /\ Alive
       /\ ~RedisOpen => UNCHANGED <<count, armed>>
  /\ UNCHANGED serverVars

\* What is left of a request when its process has ended.
DieWithProcess(r) ==
  /\ Die(r)
  /\ r \in Handlers => task[r] = "cut"
  /\ UNCHANGED serverVars

\* The handler runs behind the limiter; one that was refused only answers 429.
TaskStep(t) ==
  /\ \/ (t \in Handlers => req[t].pc = "served") /\ BeginStatement(t)
     \/ EndStatement(t)
     \/ (t \in Handlers => req[t].pc \in {"served", "refused"}) /\ Finish(t)
  /\ UNCHANGED vars

ApiNext ==
  \/ \E r \in Requests :
       (\E ip \in IPs : ArriveAt(r, ip)) \/ Limiter(r) \/ DieWithProcess(r)
  \/ \E t \in Tasks : TaskStep(t)
  \/ Control /\ UNCHANGED vars
  \/ ((\E k \in Keys : KeyExpires(k)) \/ Clock) /\ UNCHANGED serverVars

ApiSpec == ApiInit /\ [][ApiNext]_apiVars

\* The fairness of Shutdown; time and Redis owe nothing.
FairApiSpec ==
  /\ ApiSpec
  /\ WF_serverVars(Main) /\ WF_serverVars(Signalled)
  /\ \A t \in Tasks : WF_serverVars(EndStatement(t))

=============================================================================
