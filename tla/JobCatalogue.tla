---------------------------- MODULE JobCatalogue ----------------------------
(***************************************************************************)
(* The list of jobs (internal/service/job_service.go, List) read through   *)
(* the Redis cache (internal/repository/redis/job_cache.go) from the jobs  *)
(* table (internal/repository/postgres/job_repo.go), page by page.  A      *)
(* request asks the cache, then counts, then selects, then fills the       *)
(* cache; administrators and other requests act between any two of these,  *)
(* and nothing invalidates the cache but the TTL of its keys.              *)
(*                                                                         *)
(* The table is its history, so that a property can speak of what was once *)
(* true.  A query may fail, the rows of a select may end early without an  *)
(* error being looked at, and a Redis command may fail.                    *)
(***************************************************************************)
EXTENDS Integers, FiniteSets, Sequences

CONSTANTS
  Kinds,      \* what a filter can tell apart in a job: skills, remote, salary
  AnyKind,    \* the filter that asks for none of these
  Filters,    \* filters of the requests: [kind, page, limit]
  Requests,   \* requests the server may handle at one time
  MaxWrites,  \* bound on the writes to the table
  NoList

ASSUME JobCatalogueAssumption ==
  /\ AnyKind \notin Kinds /\ Filters # {}
  /\ Filters \subseteq [kind : Kinds \cup {AnyKind}, page : Nat \ {0}, limit : Nat \ {0}]
  /\ MaxWrites \in Nat

VARIABLES
  log,     \* log[i]: the rows of the table after the first i - 1 writes
  cache,   \* cache[k]: the list under the Redis key k, or NoList
  req      \* req[r]: local state of request r

listVars == <<log, cache, req>>

\* The rows of one moment: row n is the n-th job created, so a greater number
\* is a later created_at.
JobRow == [kind : Kinds, active : BOOLEAN]

Table == log[Len(log)]

Matching(table, f) ==
  {j \in DOMAIN table : table[j].active /\ f.kind \in {AnyKind, table[j].kind}}

\* The page on which the newest-first order puts job j.
PageOf(table, f, j) ==
  1 + Cardinality({k \in Matching(table, f) : k > j}) \div f.limit

\* ORDER BY created_at DESC LIMIT limit OFFSET (page - 1) * limit
Page(table, f) ==
  {[job |-> j, kind |-> table[j].kind] :
     j \in {k \in Matching(table, f) : PageOf(table, f, k) = f.page}}

Lists == SUBSET [job : 1..MaxWrites, kind : Kinds]

\* Mutant of Key: the filters of one page number share a key.
KeyOfPage(f) == f.page

\* buildCacheKey names every field of the filter.
Key(f) == f

Keys == {Key(f) : f \in Filters}

Idle == [pc |-> "idle", filter |-> CHOOSE f \in Filters : TRUE, quiet |-> TRUE,
         hit |-> FALSE, total |-> 0, list |-> {}]

RequestState ==
  [pc     : {"idle", "count", "select", "fill", "reply"},
   filter : Filters,
   quiet  : BOOLEAN,               \* history: no write since the request came
   hit    : BOOLEAN,               \* was it answered from the cache?
   total  : 0..MaxWrites,
   list   : Lists]

ListInit ==
  /\ log = << <<>> >>
  /\ cache = [k \in Keys |-> NoList]
  /\ req = [r \in Requests |-> Idle]

-----------------------------------------------------------------------------
(* Writers: administrators and the aggregator, one statement each.         *)

Write(table) ==
  /\ Len(log) <= MaxWrites
  /\ log' = Append(log, table)
  /\ req' = [r \in Requests |->
       IF req[r].pc = "idle" THEN Idle ELSE [req[r] EXCEPT !.quiet = FALSE]]
  /\ UNCHANGED cache

Create(kind) == Write(Append(Table, [kind |-> kind, active |-> TRUE]))

Update(j, kind) == Write([Table EXCEPT ![j] = [kind |-> kind, active |-> TRUE]])

Delete(j) == Write([Table EXCEPT ![j].active = FALSE])

-----------------------------------------------------------------------------
(* JobService.List.                                                        *)

\* A hit is answered with the list and its length.
CacheGet(r, f) ==
  LET asked == [Idle EXCEPT !.filter = f]
      held == cache[Key(f)]
  IN  /\ req[r].pc = "idle"
      /\ \/ /\ held # NoList
            /\ req' = [req EXCEPT ![r] = [asked EXCEPT
                 !.pc = "reply", !.hit = TRUE, !.list = held, !.total = Cardinality(held)]]
         \/ req' = [req EXCEPT ![r] = [asked EXCEPT !.pc = "count"]]    \* miss, or GET failed
      /\ UNCHANGED <<log, cache>>

\* Mutant of Pages: the last page is forgotten when it is not full.
FullPages(total, limit) == total \div limit

\* The number of pages the handler computes from the total.
Pages(total, limit) == total \div limit + (IF total % limit # 0 THEN 1 ELSE 0)

\* The handler answers 500.
Fail(r) == req' = [req EXCEPT ![r] = Idle]

\* Mutant of Count: a count that failed is -1 and is not looked at.
CountOrMinusOne(r) ==
  /\ req[r].pc = "count"
  /\ \/ req' = [req EXCEPT ![r].pc = "select",
                           ![r].total = Cardinality(Matching(Table, req[r].filter))]
     \/ req' = [req EXCEPT ![r].pc = "select", ![r].total = -1]
  /\ UNCHANGED <<log, cache>>

Count(r) ==
  /\ req[r].pc = "count"
  /\ \/ req' = [req EXCEPT ![r].pc = "select",
                           ![r].total = Cardinality(Matching(Table, req[r].filter))]
     \/ Fail(r)
  /\ UNCHANGED <<log, cache>>

Select(r) ==
  /\ req[r].pc = "select"
  /\ \/ \E list \in SUBSET Page(Table, req[r].filter) :
          req' = [req EXCEPT ![r].pc = "fill", ![r].list = list]
     \/ Fail(r)
  /\ UNCHANGED <<log, cache>>

\* The error of cache.Set is discarded.
CacheSet(r) ==
  /\ req[r].pc = "fill"
  /\ \/ cache' = [cache EXCEPT ![Key(req[r].filter)] = req[r].list]
     \/ UNCHANGED cache
  /\ req' = [req EXCEPT ![r].pc = "reply"]
  /\ UNCHANGED log

Answer(r) ==
  /\ req[r].pc = "reply"
  /\ req' = [req EXCEPT ![r] = Idle]
  /\ UNCHANGED <<log, cache>>

\* Mutant of Expire: only an empty list has a TTL.
ExpireEmpty(k) ==
  /\ cache[k] = {}
  /\ cache' = [cache EXCEPT ![k] = NoList]
  /\ UNCHANGED <<log, req>>

\* SET with jobListCacheTTL.
Expire(k) ==
  /\ cache[k] # NoList
  /\ cache' = [cache EXCEPT ![k] = NoList]
  /\ UNCHANGED <<log, req>>

\* The server dies with every request in it; Redis keeps its keys.
Crash ==
  /\ \E r \in Requests : req[r] # Idle
  /\ req' = [r \in Requests |-> Idle]
  /\ UNCHANGED <<log, cache>>

-----------------------------------------------------------------------------
Handle(r) == Count(r) \/ Select(r) \/ CacheSet(r) \/ Answer(r)

ListNext ==
  \/ \E kind \in Kinds :
       \/ Create(kind)
       \/ \E j \in DOMAIN Table : Update(j, kind)
  \/ \E j \in DOMAIN Table : Delete(j)
  \/ \E r \in Requests : Handle(r) \/ \E f \in Filters : CacheGet(r, f)
  \/ \E k \in Keys : Expire(k)
  \/ Crash

ListSpec == ListInit /\ [][ListNext]_listVars

\* Running handlers go on, and Redis drops a key when its TTL is over.
FairListSpec ==
  ListSpec /\ (\A r \in Requests : WF_listVars(Handle(r)))
           /\ (\A k \in Keys : WF_listVars(Expire(k)))

-----------------------------------------------------------------------------
ListTypeOK ==
  /\ Len(log) \in 1..(MaxWrites + 1)
  /\ \A i \in 1..Len(log) : log[i] \in Seq(JobRow)
  /\ cache \in [Keys -> Lists \cup {NoList}]
  /\ req \in [Requests -> RequestState]

Answered(r) == req[r].pc = "reply"

\* A list answers the filter it was asked with, as the table was at one past
\* moment: the cache never hands out the page of another filter, and no list
\* mixes two moments.  (Rows that end early show a part of the page.)
PageOfOneMoment ==
  \A r \in Requests : Answered(r) =>
    \E i \in 1..Len(log) :
      req[r].list \subseteq Page(log[i], req[r].filter)

\* No job has changed since the request came, and its list is up to date.
Undisturbed(r) ==
  Answered(r) /\ req[r].quiet /\ req[r].list = Page(Table, req[r].filter)

PagesReach(r) ==
  \A j \in Matching(Table, req[r].filter) :
    PageOf(Table, req[r].filter, j) <= Pages(req[r].total, req[r].filter.limit)

\* Whoever turns the pages up to the number in the reply meets every job that
\* matches, when the reply was read from the table and nothing changed.
TablePagesReachEveryJob ==
  \A r \in Requests : Undisturbed(r) /\ ~req[r].hit => PagesReach(r)

\* The same for every reply, those from the cache included: README.md:13
\* lists pagination among what works.  A hit counts its own page only, so
\* this fails.
PagesReachEveryJob == \A r \in Requests : Undisturbed(r) => PagesReach(r)

\* Once the table is no longer written, the lists in the cache are from the
\* table as it is, for good, though requests that read it earlier fill the
\* cache late and overwrite each other.
CacheSettles ==
  Len(log) = MaxWrites + 1 ~>
    [](\A f \in Filters : cache[Key(f)] = NoList \/ cache[Key(f)] \subseteq Page(Table, f))

=============================================================================
