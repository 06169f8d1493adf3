----------------------------- MODULE SavedJobs -----------------------------
(***************************************************************************)
(* Saved jobs: the handlers (internal/handler/saved_job_handler.go) behind *)
(* the router and the token check of Api, the service                      *)
(* (internal/service/saved_job_service.go) and its statements on the       *)
(* saved_jobs table (internal/repository/postgres/saved_job_repo.go).  One *)
(* action is one statement with the code up to the next one.               *)
(*                                                                         *)
(* The service is also called directly, as its tests call it, and the      *)
(* seeder writes the table: through the API alone no row is ever written.  *)
(* A statement may fail without effect, or take effect and report an error *)
(* (reply lost, or the client's disconnect cancelled the context); the     *)
(* rows of a SELECT may end early, which the code does not notice: it      *)
(* never asks rows.Err().                                                  *)
(***************************************************************************)
EXTENDS Api, Integers, FiniteSets

CONSTANTS
  Jobs,      \* rows of the jobs table, finitely many
  Missing,   \* a job id without a row
  Requests,  \* requests and calls served at one time
  DefaultLimit,  \* of a list that asks for none: 20
  Numbers,   \* what a list may ask for as its page and as its limit, too small
             \* for their product to overflow
  NoUser

ASSUME SavedJobsAssumption ==
  /\ Missing \notin Jobs
  /\ NoUser \notin Users
  /\ IsFiniteSet(Jobs)
  /\ DefaultLimit \in Nat \ {0}
  /\ Numbers \subseteq Int

JobIds == Jobs \cup {Missing}
Pairs == Users \X JobIds

VARIABLES
  saved,   \* the (user_id, job_id) pairs of the table; UNIQUE makes it a set
  ledger,  \* history: saves acknowledged less removals acknowledged, per pair
  unsure,  \* history: pairs one of whose writes reported an error after it took
           \* effect; their ledger is closed
  req      \* req[r]: local state of request or call r

vars == <<saved, ledger, unsure, req>>

Idle == [pc |-> "idle", route |-> <<>>, role |-> "none", user |-> NoUser, job |-> Missing,
         limit |-> DefaultLimit, offset |-> 0, page |-> {}, total |-> 0, exact |-> TRUE,
         code |-> 0]

\* route: of a request that came over HTTP; role: its token's, if genuine;
\* page: jobs a list has read; exact: history, the page was read to its end
\* and none of the user's rows has changed since.
RequestState ==
  [pc     : {"idle", "exists", "create", "delete", "select", "count", "reply"},
   route  : Routes \cup {<<>>},
   role   : Roles \cup {"none"},
   user   : Users \cup {NoUser},
   job    : JobIds,
   limit  : Nat \ {0},
   offset : Nat,
   page   : SUBSET Jobs,
   total  : Nat,
   exact  : BOOLEAN,
   code   : {0, 200, 201, 204, 400, 401, 403, 404, 409, 500}]

Init ==
  /\ saved = {}
  /\ ledger = [p \in Pairs |-> 0]
  /\ unsure = {}
  /\ req = [r \in Requests |-> Idle]

Own(u) == {j \in Jobs : <<u, j>> \in saved}
Pair(r) == <<req[r].user, req[r].job>>

\* Calls of the service.  List settles page and limit before its query.
Entering(entry, u, j) == [Idle EXCEPT !.pc = entry, !.user = u, !.job = j]

Positive(n, default) == IF n <= 0 THEN default ELSE n

Listing(u, page, limit) ==
  LET size == Positive(limit, DefaultLimit)
  IN  [Idle EXCEPT !.pc = "select", !.user = u, !.limit = size,
                   !.offset = (Positive(page, 1) - 1) * size]

\* What a request asks for beside its route: a job, or a page and a limit.
Queries == [job : JobIds, page : Numbers, limit : Numbers]

\* Where the handlers enter the service.
Entry(route, u, query) ==
  CASE route = <<"POST", "/saved-jobs">> -> Entering("exists", u, query.job)
    [] route = <<"DELETE", "/saved-jobs/{job_id}">> -> Entering("delete", u, query.job)
    [] route = <<"GET", "/saved-jobs">> -> Listing(u, query.page, query.limit)

\* A write is acknowledged.
Tally(p, n) == ledger' = [ledger EXCEPT ![p] = IF p \in unsure THEN @ ELSE @ + n]

Reply(r, code) == req' = [req EXCEPT ![r].pc = "reply", ![r].code = code]

\* The pair's row appears or disappears while request r replies: pages of
\* the user that others have read are from then on out of date.
Wrote(r, p, code) ==
  req' = [q \in Requests |->
            IF q = r THEN [req[q] EXCEPT !.pc = "reply", !.code = code]
            ELSE IF req[q].user = p[1] THEN [req[q] EXCEPT !.exact = FALSE]
            ELSE req[q]]

-----------------------------------------------------------------------------
TokenRole(h) == IF Parse(h.token) THEN h.token.role ELSE "none"

\* What becomes of a request in the middlewares and at the door of its handler;
\* handlers of other components answer 200 here.  A saved-job handler looks at
\* the user id before anything else.
Received(route, h) ==
  IF Admit(route, h) # 0
  THEN {[Idle EXCEPT !.pc = "reply", !.route = route, !.code = Admit(route, h)]}
  ELSE IF route \notin SavedRoutes
  THEN {[Idle EXCEPT !.pc = "reply", !.route = route, !.role = TokenRole(h), !.code = 200]}
  ELSE IF ~AssertUUID(ContextUserID(h))
  THEN {[Idle EXCEPT !.pc = "reply", !.route = route, !.role = TokenRole(h), !.code = 401]}
  ELSE {[Entry(route, h.token.user, query) EXCEPT !.route = route, !.role = TokenRole(h)] :
          query \in Queries}

Arrive(r, state) ==
  /\ req[r].pc = "idle"
  /\ req' = [req EXCEPT ![r] = state]
  /\ UNCHANGED <<saved, ledger, unsure>>

Http(r, route, h) == \E state \in Received(route, h) : Arrive(r, state)

\* Save, Unsave and List as other code would call them.
Call(r, entry, u, j) == Arrive(r, Entering(entry, u, j))

CallList(r, u, page, limit) == Arrive(r, Listing(u, page, limit))

-----------------------------------------------------------------------------
(* Save.                                                                   *)

Exists(r) ==
  /\ req[r].pc = "exists"
  /\ \/ Pair(r) \in saved /\ Reply(r, 409)
     \/ Pair(r) \notin saved /\ req' = [req EXCEPT ![r].pc = "create"]
     \/ Reply(r, 500)
  /\ UNCHANGED <<saved, ledger, unsure>>

\* Mutant of Create: ON CONFLICT DO NOTHING, and the count of rows is not read.
CreateQuietly(r) ==
  /\ req[r].pc = "create"
  /\ req[r].job \in Jobs
  /\ saved' = saved \cup {Pair(r)}
  /\ Tally(Pair(r), 1)
  /\ Wrote(r, Pair(r), 201)
  /\ UNCHANGED unsure

\* The unique constraint and the foreign key fail as any other statement does.
Create(r) ==
  /\ req[r].pc = "create"
  /\ \/ /\ Pair(r) \notin saved /\ req[r].job \in Jobs
        /\ saved' = saved \cup {Pair(r)}
        /\ \/ /\ Tally(Pair(r), 1)
              /\ Wrote(r, Pair(r), 201)
              /\ UNCHANGED unsure
           \/ /\ unsure' = unsure \cup {Pair(r)}
              /\ Wrote(r, Pair(r), 500)
              /\ UNCHANGED ledger
     \/ /\ Reply(r, 500)
        /\ UNCHANGED <<saved, ledger, unsure>>

-----------------------------------------------------------------------------
\* Unsave: RowsAffected tells who removed the row.
Delete(r) ==
  /\ req[r].pc = "delete"
  /\ \/ /\ Pair(r) \in saved
        /\ saved' = saved \ {Pair(r)}
        /\ \/ /\ Tally(Pair(r), -1)
              /\ Wrote(r, Pair(r), 204)
              /\ UNCHANGED unsure
           \/ /\ unsure' = unsure \cup {Pair(r)}
              /\ Wrote(r, Pair(r), 500)
              /\ UNCHANGED ledger
     \/ /\ \/ Pair(r) \notin saved /\ Reply(r, 404)
           \/ Reply(r, 500)
        /\ UNCHANGED <<saved, ledger, unsure>>

-----------------------------------------------------------------------------
(* List: the page, then the total.                                         *)

\* LIMIT and OFFSET: how many of n rows the page has.
PageLength(n, limit, offset) ==
  IF n <= offset THEN 0 ELSE IF n - offset < limit THEN n - offset ELSE limit

\* Which rows they are depends on when each was saved: any of the user's, here.
Select(r) ==
  /\ req[r].pc = "select"
  /\ LET own  == Own(req[r].user)
         full == PageLength(Cardinality(own), req[r].limit, req[r].offset)
     IN  \/ \E page \in SUBSET own :
              /\ Cardinality(page) <= full
              /\ req' = [req EXCEPT ![r].pc = "count", ![r].page = page,
                                    ![r].exact = (Cardinality(page) = full)]
         \/ Reply(r, 500)
  /\ UNCHANGED <<saved, ledger, unsure>>

\* Mutant of Count: the total is the length of the page.
CountPage(r) ==
  /\ req[r].pc = "count"
  /\ req' = [req EXCEPT ![r].pc = "reply", ![r].code = 200,
                        ![r].total = Cardinality(req[r].page)]
  /\ UNCHANGED <<saved, ledger, unsure>>

Count(r) ==
  /\ req[r].pc = "count"
  /\ \/ req' = [req EXCEPT ![r].pc = "reply", ![r].code = 200,
                           ![r].total = Cardinality(Own(req[r].user))]
     \/ Reply(r, 500)
  /\ UNCHANGED <<saved, ledger, unsure>>

Answer(r) ==
  /\ req[r].pc = "reply"
  /\ req' = [req EXCEPT ![r] = Idle]
  /\ UNCHANGED <<saved, ledger, unsure>>

\* The seeder's INSERT ... ON CONFLICT DO NOTHING (see Seeder).
Seed(p) ==
  /\ p \in (Users \X Jobs) \ saved
  /\ saved' = saved \cup {p}
  /\ Tally(p, 1)
  /\ req' = [q \in Requests |->
               IF req[q].user = p[1] THEN [req[q] EXCEPT !.exact = FALSE] ELSE req[q]]
  /\ UNCHANGED unsure

-----------------------------------------------------------------------------
Step(r) ==
  Exists(r) \/ Create(r) \/ Delete(r) \/ Select(r) \/ Count(r) \/ Answer(r)

Next ==
  \/ \E r \in Requests :
       \/ \E route \in Routes, h \in Headers : Http(r, route, h)
       \/ \E entry \in {"exists", "delete"}, u \in Users, j \in JobIds : Call(r, entry, u, j)
       \/ \E u \in Users, page \in Numbers, limit \in Numbers : CallList(r, u, page, limit)
       \/ Step(r)
  \/ \E p \in Users \X Jobs : Seed(p)

Spec == Init /\ [][Next]_vars

-----------------------------------------------------------------------------
TypeOK ==
  /\ saved \subseteq Users \X Jobs
  /\ ledger \in [Pairs -> Int]
  /\ unsure \subseteq Pairs
  /\ req \in [Requests -> RequestState]

\* However saves and removals of one job interleave, and though Exists and
\* Create are two statements, of the saves between two removals exactly one
\* is told 201, and of the removals between two saves exactly one is told
\* 204; a pair is on the table as often as its answers say, unless a write
\* reported an error after it took effect.
AnswersAddUp ==
  \A p \in Pairs \ unsure : ledger[p] = IF p \in saved THEN 1 ELSE 0

\* Page and total of a list come from two statements.  When the page was
\* read to its end and nobody changed the user's rows in between, the page is
\* as long as the total, the limit and the offset say: whoever turns pages
\* until the total is reached sees as many jobs as there are.
TotalMatchesPage ==
  \A r \in Requests :
    req[r].pc = "reply" /\ req[r].code = 200 /\ req[r].user # NoUser /\ req[r].exact
      => Cardinality(req[r].page) = PageLength(req[r].total, req[r].limit, req[r].offset)

\* Only a verified token with the admin role reaches a handler that writes
\* jobs, on whichever route it is registered (router.go:70-75).
OnlyAdminsWriteJobs ==
  \A r \in Requests :
    req[r].pc = "reply" /\ req[r].route \in JobWrites /\ req[r].code = 200
      => req[r].role = "admin"

\* saved_job_handler.go:29-31, 65-66 and 99 document what the saved-job routes
\* answer to a caller with a bearer token: 201, 400 or 409 to a save, 204 or
\* 404 to a removal, 200 to a list, and 500 as any route may; 401 is for the
\* others.  JWTAuth stores the user id as a string and the handlers assert
\* another type (auth.go:34, saved_job_handler.go:35, 69 and 102): no request
\* gets past 401, whatever token it carries, so this fails.
SavedJobsAnswerAsDocumented ==
  \A r \in Requests :
    req[r].pc = "reply" /\ req[r].route \in SavedRoutes /\ req[r].role # "none"
      => req[r].code # 401

=============================================================================
