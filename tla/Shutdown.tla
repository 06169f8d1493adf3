------------------------------ MODULE Shutdown ------------------------------
(***************************************************************************)
(* How the API process starts and ends (cmd/api/main.go).  main loads the  *)
(* configuration, pings Postgres, builds the layers, starts the aggregator *)
(* and the goroutine that waits for signals, and serves; any error so far  *)
(* is os.Exit(1), which runs no deferred call.  On SIGINT or SIGTERM the   *)
(* goroutine cancels the context of the aggregator and calls srv.Shutdown  *)
(* with a 10s deadline; main returns from ListenAndServe as soon as the    *)
(* listener is closed and runs its deferred calls, cancel, rdb.Close and   *)
(* db.Close, in that order, while handlers may still run.                  *)
(*                                                                         *)
(* Of the libraries: a signal nobody has asked for kills the process;      *)
(* Shutdown closes the listener, or keeps it from being opened, and then   *)
(* waits for the active handlers; pgxpool's Close refuses new statements   *)
(* and waits until the connections in use are returned.                    *)
(***************************************************************************)
CONSTANTS
  Handlers,    \* requests that may be accepted
  Aggregator   \* the aggregator's goroutine, the other user of the pool

ASSUME ShutdownAssumption == Aggregator \notin Handlers

Tasks == Handlers \cup {Aggregator}

VARIABLES
  main,       \* "config", "ping", "wire", "listen", "serving", then "cancel",
              \* "closeRedis", "closePool", "exited"
  shutdown,   \* the signal goroutine: "none", "starting" (before Notify), "waiting",
              \* "cancel", "call", "draining", "done"
  server,     \* "new", "listening" or "closed"
  cancelled,  \* is the aggregator's context cancelled?
  poolOpen,   \* does the pool hand out connections?
  deadline,   \* has Shutdown's 10s deadline passed?
  task        \* task[t]: "none", "running", "statement" (holds a connection),
              \* "answered" (the aggregator: stopped), or "cut" by the exit

serverVars == <<main, shutdown, server, cancelled, poolOpen, deadline, task>>

ServerInit ==
  /\ main = "config"
  /\ shutdown = "none"
  /\ server = "new"
  /\ cancelled = FALSE
  /\ poolOpen = FALSE
  /\ deadline = FALSE
  /\ task = [t \in Tasks |-> "none"]

Alive == main # "exited"

\* The process is gone, and with it what it was doing.
ProcessEnds ==
  /\ main' = "exited"
  /\ task' = [t \in Tasks |->
       IF task[t] \in {"running", "statement"} THEN "cut" ELSE task[t]]

-----------------------------------------------------------------------------
(* Start.                                                                  *)

\* config.Load fails without DATABASE_URL or JWT_SECRET; pgxpool.New parses
\* the URL and dials nobody.
LoadConfig ==
  /\ main = "config"
  /\ \/ main' = "ping" /\ poolOpen' = TRUE /\ UNCHANGED task
     \/ ProcessEnds /\ UNCHANGED poolOpen
  /\ UNCHANGED <<shutdown, server, cancelled, deadline>>

\* The context of the ping has no deadline: it may also never return.
Ping ==
  /\ main = "ping"
  /\ (main' = "wire" /\ UNCHANGED task) \/ ProcessEnds
  /\ UNCHANGED <<shutdown, server, cancelled, poolOpen, deadline>>

\* From the Redis client to the two goroutines.
Wire ==
  /\ main = "wire"
  /\ main' = "listen"
  /\ shutdown' = "starting"
  /\ task' = [task EXCEPT ![Aggregator] = "running"]
  /\ UNCHANGED <<server, cancelled, poolOpen, deadline>>

\* The port may be taken; after Shutdown ListenAndServe returns at once.
Listen ==
  /\ main = "listen"
  /\ \/ /\ server = "new"
        /\ main' = "serving" /\ server' = "listening" /\ UNCHANGED task
     \/ server = "new" /\ ProcessEnds /\ UNCHANGED server
     \/ server = "closed" /\ main' = "cancel" /\ UNCHANGED <<server, task>>
  /\ UNCHANGED <<shutdown, cancelled, poolOpen, deadline>>

-----------------------------------------------------------------------------
(* Requests and the aggregator.                                            *)

Accept(h) ==
  /\ Alive /\ server = "listening"
  /\ task[h] = "none"
  /\ task' = [task EXCEPT ![h] = "running"]
  /\ UNCHANGED <<main, shutdown, server, cancelled, poolOpen, deadline>>

\* A closed pool answers with an error and the task goes on running.
BeginStatement(t) ==
  /\ Alive /\ poolOpen
  /\ task[t] = "running"
  /\ t = Aggregator => ~cancelled
  /\ task' = [task EXCEPT ![t] = "statement"]
  /\ UNCHANGED <<main, shutdown, server, cancelled, poolOpen, deadline>>

EndStatement(t) ==
  /\ Alive
  /\ task[t] = "statement"
  /\ task' = [task EXCEPT ![t] = "running"]
  /\ UNCHANGED <<main, shutdown, server, cancelled, poolOpen, deadline>>

\* The handler answers; the aggregator returns from Start.
Finish(t) ==
  /\ Alive
  /\ task[t] = "running"
  /\ t = Aggregator => cancelled
  /\ task' = [task EXCEPT ![t] = "answered"]
  /\ UNCHANGED <<main, shutdown, server, cancelled, poolOpen, deadline>>

-----------------------------------------------------------------------------
(* The signal goroutine.                                                   *)

Notify ==
  /\ Alive
  /\ shutdown = "starting"
  /\ shutdown' = "waiting"
  /\ UNCHANGED <<main, server, cancelled, poolOpen, deadline, task>>

\* A second signal finds the channel full and is dropped.
Signal ==
  /\ Alive
  /\ \/ shutdown = "waiting" /\ shutdown' = "cancel" /\ UNCHANGED <<main, task>>
     \/ shutdown \in {"none", "starting"} /\ ProcessEnds /\ UNCHANGED shutdown
  /\ UNCHANGED <<server, cancelled, poolOpen, deadline>>

CancelContext ==
  /\ Alive
  /\ shutdown = "cancel"
  /\ cancelled' = TRUE
  /\ shutdown' = "call"
  /\ UNCHANGED <<main, server, poolOpen, deadline, task>>

CloseListener ==
  /\ Alive
  /\ shutdown = "call"
  /\ server' = "closed"
  /\ shutdown' = "draining"
  /\ UNCHANGED <<main, cancelled, poolOpen, deadline, task>>

Deadline ==
  /\ Alive
  /\ shutdown = "draining"
  /\ deadline' = TRUE
  /\ UNCHANGED <<main, shutdown, server, cancelled, poolOpen, task>>

Active == {h \in Handlers : task[h] \in {"running", "statement"}}

Drained ==
  /\ Alive
  /\ shutdown = "draining"
  /\ deadline \/ Active = {}
  /\ shutdown' = "done"
  /\ UNCHANGED <<main, server, cancelled, poolOpen, deadline, task>>

-----------------------------------------------------------------------------
(* main: ListenAndServe returns ErrServerClosed, then the deferred calls.  *)

\* Mutant of ServeReturns: main does not wait for the server.
ServeInBackground ==
  /\ main = "serving"
  /\ main' = "cancel"
  /\ UNCHANGED <<shutdown, server, cancelled, poolOpen, deadline, task>>

ServeReturns ==
  /\ main = "serving"
  /\ server = "closed"
  /\ main' = "cancel"
  /\ UNCHANGED <<shutdown, server, cancelled, poolOpen, deadline, task>>

\* ListenAndServe returns any other error while it serves, and main exits at once.
ServeFails ==
  /\ main = "serving"
  /\ server = "listening"
  /\ ProcessEnds
  /\ UNCHANGED <<shutdown, server, cancelled, poolOpen, deadline>>

DeferCancel ==
  /\ main = "cancel"
  /\ cancelled' = TRUE
  /\ main' = "closeRedis"
  /\ UNCHANGED <<shutdown, server, poolOpen, deadline, task>>

CloseRedis ==
  /\ main = "closeRedis"
  /\ main' = "closePool"
  /\ UNCHANGED <<shutdown, server, cancelled, poolOpen, deadline, task>>

ClosePool ==
  /\ main = "closePool"
  /\ poolOpen
  /\ poolOpen' = FALSE
  /\ UNCHANGED <<main, shutdown, server, cancelled, deadline, task>>

\* Mutant of PoolIdle: the exit waits for every handler, without a deadline.
HandlersIdle == Active = {}

PoolIdle == \A t \in Tasks : task[t] # "statement"

Exit ==
  /\ main = "closePool"
  /\ ~poolOpen
  /\ PoolIdle
  /\ ProcessEnds
  /\ UNCHANGED <<shutdown, server, cancelled, poolOpen, deadline>>

-----------------------------------------------------------------------------
Main == Listen \/ ServeReturns \/ DeferCancel \/ CloseRedis \/ ClosePool \/ Exit

Signalled == CancelContext \/ CloseListener \/ Drained

\* Every step but those of the tasks.
Control ==
  \/ Notify \/ Signal \/ Signalled \/ Deadline
  \/ LoadConfig \/ Ping \/ Wire \/ Main \/ ServeFails

ServerNext ==
  \/ \E h \in Handlers : Accept(h)
  \/ \E t \in Tasks : BeginStatement(t) \/ EndStatement(t) \/ Finish(t)
  \/ Control

ServerSpec == ServerInit /\ [][ServerNext]_serverVars

\* The two goroutines run on once both are up, and every statement ends:
\* Postgres answers it, or its context is cancelled.
FairServerSpec ==
  ServerSpec /\ WF_serverVars(Main) /\ WF_serverVars(Signalled)
       /\ \A t \in Tasks : WF_serverVars(EndStatement(t))

-----------------------------------------------------------------------------
ServerTypeOK ==
  /\ main \in {"config", "ping", "wire", "listen", "serving",
              "cancel", "closeRedis", "closePool", "exited"}
  /\ shutdown \in {"none", "starting", "waiting", "cancel", "call", "draining", "done"}
  /\ server \in {"new", "listening", "closed"}
  /\ cancelled \in BOOLEAN
  /\ poolOpen \in BOOLEAN /\ deadline \in BOOLEAN
  /\ task \in [Tasks -> {"none", "running", "statement", "answered", "cut"}]

\* While anything runs, the pool is open or has been closed for good: then the
\* server accepts no request and the aggregator has been told to stop,
\* whichever of the two goroutines came first.  No one is let in who could
\* only find a closed pool (main.go:43-49, 97, 110-124).
PoolClosesAfterCancel ==
  ~poolOpen /\ Alive /\ (\E t \in Tasks : task[t] # "none")
    => cancelled /\ server = "closed"

\* A signal that was caught ends the process, even one that comes before the
\* listener is open; db.Close waits for connections that come back.  (One
\* that comes before Notify kills it in the same step.)
SignalEndsProcess ==
  shutdown \in {"cancel", "call", "draining", "done"} ~> main = "exited"

\* README.md:19, "SIGINT/SIGTERM -> 10s to drain": once the signal is caught,
\* a request that was accepted is answered before the process exits, unless
\* it takes longer than the deadline.  Nothing waits for Shutdown to return,
\* so this fails.
DrainsRequests ==
  main = "exited" /\ shutdown \in {"draining", "done"}
    => deadline \/ \A h \in Handlers : task[h] # "cut"

=============================================================================
