----------------------------- MODULE JobDetail -----------------------------
(***************************************************************************)
(* GET /jobs/{id} (internal/handler/job_handler.go, GetByID): the profile  *)
(* of the caller is read, then the job; the reply shows how well the two   *)
(* match, and a goroutine nobody waits for counts the view                 *)
(* (internal/service/job_service.go).  Developers change their profiles    *)
(* (PUT /me) and administrators the jobs between these steps.              *)
(*                                                                         *)
(* A set of skills is the slice without the order and the repetitions,     *)
(* neither of which CalculateMatch can tell apart.                         *)
(***************************************************************************)
EXTENDS Integers, FiniteSets

CONSTANTS
  Users,      \* developers with a valid access token
  Jobs,       \* ids of the jobs in the table
  Words,      \* spellings of skills
  Lower,      \* Lower[w]: the spelling w in lower case (strings.ToLower)
  SkillSets,  \* what profiles and jobs may ask for: sets of spellings
  Requests,   \* requests the server may handle at one time
  MaxReads,   \* bound on the number of times one job is read
  NoProfile

ASSUME JobDetailAssumption ==
  /\ Users # {} /\ Jobs # {}
  /\ Lower \in [Words -> Words]
  /\ SkillSets \subseteq SUBSET Words
  /\ MaxReads \in Nat
  /\ NoProfile \notin SkillSets

VARIABLES
  job,       \* job[j]: the row of job j
  profile,   \* profile[u]: the skills in the profile of user u, or NoProfile
  req,       \* req[r]: local state of request r
  counting,  \* counting[j]: goroutines about to count a view of job j
  reads,     \* history: how often job j was found for a reader
  lost       \* history: how many views of job j were given up

vars == <<job, profile, req, counting, reads, lost>>

Row == [skills : SkillSets, active : BOOLEAN, views : 0..MaxReads]

-----------------------------------------------------------------------------
(* CalculateMatch.  The slices are finite, and so are the sets.            *)

ASSUME SkillsFinite == \A s \in SkillSets : IsFiniteSet(s)

Lowered(skills) == {Lower[w] : w \in skills}

\* Whole percents whose hundredth, as a float64, times 100 falls short of them.
FallShort == {29, 57, 58}

\* int(float64(m) / float64(n) * 100), n > 0: the share of m in n cut to whole
\* percents; a share that is just one of FallShort loses one more (0.58 * 100
\* is 57.99999999999999).  Any other share is further from the next percent
\* than the two roundings are wide, with fewer than 10^13 skills.
Truncated(m, n) ==
  LET whole == (100 * m) \div n
  IN  IF whole \in FallShort /\ whole * n = 100 * m THEN whole - 1 ELSE whole

MatchOf(userSet, jobSet) ==
  [percent |-> IF userSet \cup jobSet = {} THEN 0
               ELSE Truncated(Cardinality(jobSet \cap userSet),
                              Cardinality(userSet \cup jobSet)),
   matched |-> jobSet \cap userSet,
   missing |-> jobSet \ userSet]

\* Mutant of CalculateMatch: the job's skills are compared as they are spelled.
CalculateMatchSpelled(userSkills, jobSkills) == MatchOf(Lowered(userSkills), jobSkills)

CalculateMatch(userSkills, jobSkills) ==
  MatchOf(Lowered(userSkills), Lowered(jobSkills))

Matches == [percent : 0..100, matched : SUBSET Words, missing : SUBSET Words]

NoMatch == [percent |-> 0, matched |-> {}, missing |-> {}]

-----------------------------------------------------------------------------
RequestState ==
  [pc     : {"idle", "profile", "job", "found", "missing"},
   user   : Users,
   job    : Jobs,
   skills : SUBSET Words,       \* userSkills; empty when the profile was not read
   match  : Matches,
   views  : 0..MaxReads,        \* views_count as it was read
   wishes : SUBSET SkillSets,   \* history: the profile until it was read
   seen   : SUBSET Row]         \* history: the job's row until it was read

Idle ==
  [pc |-> "idle", user |-> CHOOSE u \in Users : TRUE, job |-> CHOOSE j \in Jobs : TRUE,
   skills |-> {}, match |-> NoMatch, views |-> 0, wishes |-> {}, seen |-> {}]

Zero == [j \in Jobs |-> 0]

Init ==
  /\ job \in [Jobs -> [skills : SkillSets, active : BOOLEAN, views : {0}]]
  /\ profile \in [Users -> SkillSets \cup {NoProfile}]
  /\ req = [r \in Requests |-> Idle]
  /\ counting = Zero
  /\ reads = Zero
  /\ lost = Zero

Reading(j) == {r \in Requests : req[r].pc \in {"profile", "job"} /\ req[r].job = j}

Submit(r, u, j) ==
  /\ req[r].pc = "idle"
  /\ reads[j] + Cardinality(Reading(j)) < MaxReads
  /\ req' = [req EXCEPT ![r] = [Idle EXCEPT
       !.pc = "profile", !.user = u, !.job = j,
       !.wishes = {profile[u]} \ {NoProfile}, !.seen = {job[j]}]]
  /\ UNCHANGED <<job, profile, counting, reads, lost>>

\* ... FROM developer_profiles WHERE user_id = $1
HasProfile(u) == profile[u] # NoProfile

\* UserService.GetProfile: a user without a profile is no error.
SkillsRead(u) == IF HasProfile(u) THEN profile[u] ELSE {}

\* The handler goes on without skills when either of the two queries fails;
\* the first of them reads a row that never changes.
ReadProfile(r) ==
  /\ req[r].pc = "profile"
  /\ \E skills \in {SkillsRead(req[r].user), {}} :
       req' = [req EXCEPT ![r].pc = "job", ![r].skills = skills]
  /\ UNCHANGED <<job, profile, counting, reads, lost>>

\* Mutant of Served: a deleted job is read like any other.
ServedAnyway(j) == j \in Jobs

\* ... WHERE id = $1 AND is_active = true
Served(j) == job[j].active

ReadJob(r) ==
  LET j == req[r].job
  IN  /\ req[r].pc = "job"
      /\ \/ /\ Served(j)
            /\ req' = [req EXCEPT
                 ![r].pc = "found", ![r].views = job[j].views,
                 ![r].match = CalculateMatch(req[r].skills, job[j].skills)]
            /\ counting' = [counting EXCEPT ![j] = @ + 1]
            /\ reads' = [reads EXCEPT ![j] = @ + 1]
         \/ /\ ~Served(j)
            /\ req' = [req EXCEPT ![r].pc = "missing"]
            /\ UNCHANGED <<counting, reads>>
         \/ /\ req' = [req EXCEPT ![r] = Idle]               \* 500
            /\ UNCHANGED <<counting, reads>>
      /\ UNCHANGED <<job, profile, lost>>

\* 200 or 404, or the client has gone.
Answer(r) ==
  /\ req[r].pc \in {"found", "missing"}
  /\ req' = [req EXCEPT ![r] = Idle]
  /\ UNCHANGED <<job, profile, counting, reads, lost>>

-----------------------------------------------------------------------------
(* Writers of the two tables: one statement each.                          *)

\* A row that request q may still read.
Witness(q, j, row) ==
  IF q.pc \in {"profile", "job"} /\ q.job = j THEN [q EXCEPT !.seen = @ \cup {row}] ELSE q

WriteJob(j, row) ==
  /\ job' = [job EXCEPT ![j] = row]
  /\ req' = [r \in Requests |-> Witness(req[r], j, row)]

\* UPDATE jobs SET views_count = views_count + 1, with or without an error
\* after it took effect.
Increment(j) == WriteJob(j, [job[j] EXCEPT !.views = @ + 1])

Done(j) == counting' = [counting EXCEPT ![j] = @ - 1]

\* Mutant of CountView: an UPDATE that reported an error is sent again.
CountViewTwice(j) ==
  /\ counting[j] > 0
  /\ Increment(j)
  /\ Done(j) \/ UNCHANGED counting
  /\ UNCHANGED <<profile, reads, lost>>

\* Mutant of CountView: it tries until an active job has been updated.
CountViewOfActive(j) ==
  /\ counting[j] > 0
  /\ Served(j)
  /\ Increment(j)
  /\ Done(j)
  /\ UNCHANGED <<profile, reads, lost>>

\* The goroutine has a context of its own, which ends after two seconds.
CountView(j) ==
  /\ counting[j] > 0
  /\ Done(j)
  /\ \/ Increment(j) /\ UNCHANGED lost
     \/ lost' = [lost EXCEPT ![j] = @ + 1] /\ UNCHANGED <<job, req>>
  /\ UNCHANGED <<profile, reads>>

\* Mutant of UpdateJob: the row is replaced by the one in the request's body.
ReplaceJob(j, skills) ==
  /\ WriteJob(j, [skills |-> skills, active |-> TRUE, views |-> 0])
  /\ UNCHANGED <<profile, counting, reads, lost>>

\* PUT /jobs/{id} leaves views_count alone and makes the job active.
UpdateJob(j, skills) ==
  /\ WriteJob(j, [job[j] EXCEPT !.skills = skills, !.active = TRUE])
  /\ UNCHANGED <<profile, counting, reads, lost>>

DeleteJob(j) ==
  /\ WriteJob(j, [job[j] EXCEPT !.active = FALSE])
  /\ UNCHANGED <<profile, counting, reads, lost>>

\* Without a profile row the UPDATE returns none, and the handler 500.
StoreProfile(u, skills) ==
  /\ HasProfile(u)
  /\ profile' = [profile EXCEPT ![u] = skills]

\* PUT /me
UpdateProfile(u, skills) ==
  /\ StoreProfile(u, skills)
  /\ req' = [r \in Requests |->
       IF req[r].pc = "profile" /\ req[r].user = u
         THEN [req[r] EXCEPT !.wishes = @ \cup {skills}] ELSE req[r]]
  /\ UNCHANGED <<job, counting, reads, lost>>

\* The process ends with its requests and the goroutines they left behind.
Crash ==
  /\ lost' = [j \in Jobs |-> lost[j] + counting[j]]
  /\ counting' = Zero
  /\ req' = [r \in Requests |-> Idle]
  /\ UNCHANGED <<job, profile, reads>>

-----------------------------------------------------------------------------
Handle(r) == ReadProfile(r) \/ ReadJob(r) \/ Answer(r)

Next ==
  \/ \E r \in Requests :
       Handle(r) \/ \E u \in Users, j \in Jobs : Submit(r, u, j)
  \/ \E j \in Jobs :
       CountView(j) \/ DeleteJob(j) \/ \E skills \in SkillSets : UpdateJob(j, skills)
  \/ \E u \in Users, skills \in SkillSets : UpdateProfile(u, skills)
  \/ Crash

Spec == Init /\ [][Next]_vars

\* Goroutines run: handlers, and those that count views.
FairSpec ==
  /\ Spec
  /\ \A r \in Requests : WF_vars(Handle(r))
  /\ \A j \in Jobs : WF_vars(CountView(j))

-----------------------------------------------------------------------------
TypeOK ==
  /\ job \in [Jobs -> Row]
  /\ profile \in [Users -> SkillSets \cup {NoProfile}]
  /\ req \in [Requests -> RequestState]
  /\ counting \in [Jobs -> 0..MaxReads]
  /\ reads \in [Jobs -> 0..MaxReads]
  /\ lost \in [Jobs -> 0..MaxReads]

\* Every reader who found the job is counted once, is about to be, or was
\* given up by a failed statement or the end of the process, while other
\* readers, updates and deletions write the same row: no view is counted
\* twice and no writer takes one back (GetByID, job_service.go:38-44).
ViewsAddUp ==
  \A j \in Jobs : job[j].views + counting[j] + lost[j] = reads[j]

\* A reply is about the job as it was at one moment since the request came,
\* when it was active, and about the caller's own profile at such a moment,
\* or about no skills at all when the profile could not be read; a 404 is
\* for a job that was deleted at some moment since then.
ReplyOfOneMoment ==
  \A r \in Requests :
    LET q == req[r]
    IN  /\ q.pc = "found" =>
             \E row \in q.seen, skills \in q.wishes \cup {{}} :
               /\ row.active
               /\ q.views = row.views
               /\ q.match = CalculateMatch(skills, row.skills)
        /\ q.pc = "missing" => \E row \in q.seen : ~row.active

Alike(v, w) == Lower[v] = Lower[w]

\* The match tells what TestCalculateMatch (job_service_test.go:14-62) expects
\* of every pair of skill lists: a skill is matched when the caller has some
\* spelling of it and missing otherwise, the percentage is 100 just when all
\* skills of the two lists are matched, and it is the share of the matched
\* among them, never more and at most one percent less: 0 when none is.
Expected(match, mine, wanted) ==
  LET shared == {Lower[w] : w \in {x \in wanted : \E v \in mine : Alike(v, x)}}
      all    == {Lower[w] : w \in mine \cup wanted}
  IN  /\ match.matched = shared
      /\ match.missing = {Lower[w] : w \in wanted} \ shared
      /\ match.percent = 100 <=> shared = all /\ all # {}
      /\ shared = {} => match.percent = 0
      /\ match.percent * Cardinality(all) <= 100 * Cardinality(shared)
      /\ 100 * Cardinality(shared) <= (match.percent + 1) * Cardinality(all)

MatchAgrees ==
  \A r \in Requests : req[r].pc = "found" =>
    \E row \in req[r].seen :
      row.active /\ Expected(req[r].match, req[r].skills, row.skills)

\* Once nobody reads a job any more, no goroutine is left counting views: none
\* tries for ever.  (Readers are bounded by MaxReads.)
CountingEnds == \A j \in Jobs : <>[](counting[j] = 0)

=============================================================================
