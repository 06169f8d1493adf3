------------------------------ MODULE JobFeed ------------------------------
(***************************************************************************)
(* The jobs table with its two kinds of writers: the background aggregator *)
(* (internal/worker/job_aggregator.go), one per running instance of the    *)
(* API, which imports listings of the Remotive feed, and administrators    *)
(* (internal/handler/job_handler.go), who create, update and soft-delete   *)
(* jobs.  The aggregator asks whether a source id exists and inserts in a  *)
(* second statement; no index of the table keeps source ids unique.        *)
(*                                                                         *)
(* Every statement may fail; an INSERT may commit and still report an      *)
(* error.  After the context is cancelled every call made with it fails.   *)
(***************************************************************************)
EXTENDS Naturals, Sequences, FiniteSets

CONSTANTS
  Workers,    \* instances of the API, each running one aggregator
  Sources,    \* listings the feed may contain, as source ids "remotive_<n>"
  Jobs,       \* values uuid.New can draw for a job
  MaxFeed,    \* bound on the length of one answer of the feed
  NoSource,   \* the empty source id of a job created by an administrator
  NoRow

ASSUME JobFeedAssumption ==
  /\ IsFiniteSet(Workers)
  /\ NoSource \notin Sources
  /\ MaxFeed \in Nat
  /\ NoRow \notin [source : Sources \cup {NoSource}, active : BOOLEAN]

VARIABLES
  rows,        \* rows[j]: the row of the jobs table whose id is j, or NoRow
  worker,      \* worker[w]: where the aggregator of instance w is
  cancelled,   \* cancelled[w]: has main cancelled the context of w?
  tick         \* tick[w]: is a tick waiting in the ticker's channel (capacity 1)?

vars == <<rows, worker, cancelled, tick>>

Row == [source : Sources \cup {NoSource}, active : BOOLEAN]

Feeds == UNION {[1..n -> Sources] : n \in 0..MaxFeed}

\* feed: the answer being imported; next: index of the job at hand;
\* missed: the source ids whose own statement failed in this run.
WorkerState ==
  [pc     : {"fetch", "check", "insert", "select", "stopped"},
   feed   : Feeds,
   next   : 1..(MaxFeed + 1),
   missed : SUBSET Sources]

\* Start runs once before it waits for the ticker.
Started == [pc |-> "fetch", feed |-> <<>>, next |-> 1, missed |-> {}]

Init ==
  /\ rows = [j \in Jobs |-> NoRow]
  /\ worker = [w \in Workers |-> Started]
  /\ cancelled = [w \in Workers |-> FALSE]
  /\ tick = [w \in Workers |-> FALSE]

Current(w) == worker[w].feed[worker[w].next]

\* Mutant of Exists: deleted jobs are not looked at.
ExistsActive(s) == \E j \in Jobs : rows[j] # NoRow /\ rows[j].source = s /\ rows[j].active

Exists(s) == \E j \in Jobs : rows[j] # NoRow /\ rows[j].source = s

Goto(w, pc) == worker' = [worker EXCEPT ![w].pc = pc]

\* On to the next listing of the feed, or back to the select.
Advance(w, missed) ==
  LET next == worker[w].next + 1
  IN  worker' = [worker EXCEPT
        ![w].pc = IF next > Len(worker[w].feed) THEN "select" ELSE "check",
        ![w].next = next,
        ![w].missed = @ \cup missed]

-----------------------------------------------------------------------------
(* One run of the aggregator.                                              *)

Fetch(w) ==
  /\ worker[w].pc = "fetch"
  /\ \/ \E feed \in Feeds :
          /\ ~cancelled[w]
          /\ worker' = [worker EXCEPT ![w] =
               [pc |-> IF feed = <<>> THEN "select" ELSE "check",
                feed |-> feed, next |-> 1, missed |-> {}]]
     \/ worker' = [worker EXCEPT ![w] = [Started EXCEPT !.pc = "select"]]   \* fetch failed
  /\ UNCHANGED <<rows, cancelled, tick>>

\* Mutant of Check: a failed query ends the run.
CheckGivesUp(w) ==
  /\ worker[w].pc = "check"
  /\ \/ ~Exists(Current(w)) /\ Goto(w, "insert")
     \/ Exists(Current(w)) /\ Advance(w, {})
     \/ worker' = [worker EXCEPT ![w].pc = "select", ![w].missed = @ \cup {Current(w)}]
  /\ UNCHANGED <<rows, cancelled, tick>>

Check(w) ==
  /\ worker[w].pc = "check"
  /\ \/ ~cancelled[w] /\ ~Exists(Current(w)) /\ Goto(w, "insert")
     \/ ~cancelled[w] /\ Exists(Current(w)) /\ Advance(w, {})
     \/ Advance(w, {Current(w)})                       \* the query failed
  /\ UNCHANGED <<rows, cancelled, tick>>

\* Mutant of Insert: a failed INSERT is tried again.
InsertRetries(w) ==
  /\ worker[w].pc = "insert"
  /\ \E j \in Jobs :
       /\ rows[j] = NoRow
       /\ rows' = [rows EXCEPT ![j] = [source |-> Current(w), active |-> TRUE]]
  /\ Advance(w, {}) \/ UNCHANGED worker
  /\ UNCHANGED <<cancelled, tick>>

Insert(w) ==
  /\ worker[w].pc = "insert"
  /\ \/ \E j \in Jobs, ok \in BOOLEAN :
          /\ rows[j] = NoRow
          /\ ok => ~cancelled[w]
          /\ rows' = [rows EXCEPT ![j] = [source |-> Current(w), active |-> TRUE]]
          /\ Advance(w, IF ok THEN {} ELSE {Current(w)})
     \/ Advance(w, {Current(w)}) /\ UNCHANGED rows     \* the INSERT failed
  /\ UNCHANGED <<cancelled, tick>>

(* The loop of Start: when a tick and the cancellation are both ready,     *)
(* select takes either.                                                    *)

RunAgain(w) ==
  /\ worker[w].pc = "select"
  /\ tick[w]
  /\ tick' = [tick EXCEPT ![w] = FALSE]
  /\ Goto(w, "fetch")
  /\ UNCHANGED <<rows, cancelled>>

\* Mutant of Stop: a waiting tick goes first.
StopWithoutTick(w) ==
  /\ worker[w].pc = "select"
  /\ cancelled[w] /\ ~tick[w]
  /\ Goto(w, "stopped")
  /\ UNCHANGED <<rows, cancelled, tick>>

Stop(w) ==
  /\ worker[w].pc = "select"
  /\ cancelled[w]
  /\ Goto(w, "stopped")
  /\ UNCHANGED <<rows, cancelled, tick>>

Tick(w) ==
  /\ worker[w].pc # "stopped"
  /\ ~tick[w]
  /\ tick' = [tick EXCEPT ![w] = TRUE]
  /\ UNCHANGED <<rows, worker, cancelled>>

Cancel(w) ==
  /\ ~cancelled[w]
  /\ cancelled' = [cancelled EXCEPT ![w] = TRUE]
  /\ UNCHANGED <<rows, worker, tick>>

\* The process ends, anywhere, and is started again.
Restart(w) ==
  /\ worker' = [worker EXCEPT ![w] = Started]
  /\ cancelled' = [cancelled EXCEPT ![w] = FALSE]
  /\ tick' = [tick EXCEPT ![w] = FALSE]
  /\ UNCHANGED rows

-----------------------------------------------------------------------------
(* Administrators: each request is one statement.                          *)

AdminCreate ==
  /\ \E j \in Jobs :
       /\ rows[j] = NoRow
       /\ rows' = [rows EXCEPT ![j] = [source |-> NoSource, active |-> TRUE]]
  /\ UNCHANGED <<worker, cancelled, tick>>

\* PUT writes every column but the source, is_active = true among them.
AdminUpdate(j) ==
  /\ rows[j] # NoRow
  /\ rows' = [rows EXCEPT ![j].active = TRUE]
  /\ UNCHANGED <<worker, cancelled, tick>>

\* DELETE is soft.
AdminDelete(j) ==
  /\ rows[j] # NoRow
  /\ rows' = [rows EXCEPT ![j].active = FALSE]
  /\ UNCHANGED <<worker, cancelled, tick>>

-----------------------------------------------------------------------------
Aggregate(w) == Fetch(w) \/ Check(w) \/ Insert(w)

Next ==
  \/ \E w \in Workers :
       \/ Aggregate(w) \/ RunAgain(w) \/ Stop(w)
       \/ Tick(w) \/ Cancel(w) \/ Restart(w)
  \/ AdminCreate
  \/ \E j \in Jobs : AdminUpdate(j) \/ AdminDelete(j)

Spec == Init /\ [][Next]_vars

\* The aggregator's goroutine runs: its HTTP call has a 30s timeout and its
\* statements end or fail.  select picks among ready cases at random, so a
\* cancellation that is ready again and again is taken (strong fairness).
FairSpec ==
  Spec /\ \A w \in Workers : WF_vars(Aggregate(w)) /\ SF_vars(Stop(w))

-----------------------------------------------------------------------------
TypeOK ==
  /\ rows \in [Jobs -> Row \cup {NoRow}]
  /\ worker \in [Workers -> WorkerState]
  /\ cancelled \in [Workers -> BOOLEAN]
  /\ tick \in [Workers -> BOOLEAN]

Copies(s) == {j \in Jobs : rows[j] # NoRow /\ rows[j].source = s}

\* A listing is stored at most once per running instance, however often the
\* feed repeats it, statements fail after they committed, and processes are
\* restarted: with one instance, once.  (run, job_aggregator.go:58-68: check,
\* then insert, with nothing in the database to stop a second copy.)
CopiesBounded ==
  \A s \in Sources : Cardinality(Copies(s)) <= Cardinality(Workers)

Withdrawn(s) == Copies(s) # {} /\ \A j \in Copies(s) : ~rows[j].active

\* A job an administrator deleted is not imported again: it becomes visible
\* only by an administrator's own step, never by the aggregator's.
DeletedStaysOut ==
  [][\A s \in Sources :
       Withdrawn(s) /\ worker' # worker => Withdrawn(s)']_vars

\* One listing that fails does not cost the others: when a run is over,
\* every listing of its feed is in the table, except those whose own
\* statement failed.
RunImportsTheRest ==
  \A w \in Workers :
    worker[w].pc = "select" =>
      \A i \in DOMAIN worker[w].feed :
        \/ worker[w].feed[i] \in worker[w].missed
        \/ Exists(worker[w].feed[i])

\* A cancelled aggregator stops, whatever it is doing when the signal comes
\* (unless the process is started again).
CancelStops ==
  \A w \in Workers :
    cancelled[w] ~> (worker[w].pc = "stopped" \/ ~cancelled[w])

=============================================================================
