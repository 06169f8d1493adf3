-------------------------- MODULE JobDetailProofs --------------------------
(***************************************************************************)
(* What JobDetail promises for all users, jobs, skills and requests: views *)
(* add up, and a reply is about one moment of the job and of the profile.  *)
(***************************************************************************)
EXTENDS JobDetail, FiniteSetTheorems, TLAPS

Rows == [skills : SkillSets, active : BOOLEAN, views : Nat]

Calculated == {CalculateMatch(s, t) : s \in SUBSET Words, t \in SUBSET Words}

Request ==
  [pc : {"idle", "profile", "job", "found", "missing"}, user : Users, job : Jobs,
   skills : SUBSET Words, match : Calculated, views : Nat,
   wishes : SUBSET SkillSets, seen : SUBSET Rows]

\* TypeOK without the bound on the number of reads, which the proofs do not
\* need: CalculateMatch stays closed.
Typed ==
  /\ job \in [Jobs -> Rows]
  /\ profile \in [Users -> SkillSets \cup {NoProfile}]
  /\ req \in [Requests -> Request]
  /\ counting \in [Jobs -> Nat]
  /\ reads \in [Jobs -> Nat]
  /\ lost \in [Jobs -> Nat]

USE JobDetailAssumption

LEMMA IdleRequest == Idle \in Request
<1>1. NoMatch = CalculateMatch({}, {})
  BY DEF NoMatch, CalculateMatch, MatchOf, Lowered
<1>2. NoMatch \in Calculated
  BY <1>1 DEF Calculated
<1>3. (CHOOSE u \in Users : TRUE) \in Users /\ (CHOOSE j \in Jobs : TRUE) \in Jobs
  OBVIOUS
<1> QED
  BY <1>2, <1>3 DEF Idle, Request

LEMMA InitTyped == Init => Typed
<1> SUFFICES ASSUME Init PROVE Typed
  OBVIOUS
<1>1. job \in [Jobs -> Rows]
  BY DEF Init, Rows
<1>2. req \in [Requests -> Request]
  BY IdleRequest DEF Init
<1> QED
  BY <1>1, <1>2 DEF Init, Typed, Zero

\* Increment, UpdateJob and DeleteJob keep a row a row.
LEMMA RowWritten ==
  ASSUME Typed, NEW j \in Jobs, NEW skills \in SkillSets
  PROVE  /\ [job[j] EXCEPT !.views = @ + 1] \in Rows
         /\ [job[j] EXCEPT !.skills = skills, !.active = TRUE] \in Rows
         /\ [job[j] EXCEPT !.active = FALSE] \in Rows
<1>1. job[j] \in Rows
  BY DEF Typed
<1>2. \A row \in Rows : [row EXCEPT !.views = @ + 1] \in Rows
  BY DEF Rows
<1>3. \A row \in Rows : [row EXCEPT !.active = FALSE] \in Rows
  BY DEF Rows
<1>4. \A row \in Rows : [row EXCEPT !.skills = skills, !.active = TRUE] \in Rows
  BY DEF Rows
<1> QED
  BY <1>1, <1>2, <1>3, <1>4

\* A write of a job's row types the table and the requests.
LEMMA WriteTyped ==
  ASSUME Typed, NEW j \in Jobs, NEW row \in Rows, WriteJob(j, row)
  PROVE  job' \in [Jobs -> Rows] /\ req' \in [Requests -> Request]
<1>1. job' \in [Jobs -> Rows]
  BY DEF Typed, WriteJob
<1>2. ASSUME NEW r \in Requests PROVE Witness(req[r], j, row) \in Request
  <2>1. req[r] \in Request
    BY DEF Typed
  <2>2. [req[r] EXCEPT !.seen = @ \cup {row}] \in Request
    BY <2>1 DEF Request
  <2> QED
    BY <2>1, <2>2 DEF Witness
<1> QED
  BY <1>1, <1>2 DEF WriteJob

LEMMA NextTyped == Typed /\ [Next]_vars => Typed'
<1> SUFFICES ASSUME Typed, [Next]_vars PROVE Typed'
  OBVIOUS
<1>1. ASSUME NEW r \in Requests, NEW u \in Users, NEW j \in Jobs, Submit(r, u, j) PROVE Typed'
  <2>1. [Idle EXCEPT !.pc = "profile", !.user = u, !.job = j,
           !.wishes = {profile[u]} \ {NoProfile}, !.seen = {job[j]}] \in Request
    <3>1. Idle \in Request /\ {profile[u]} \ {NoProfile} \in SUBSET SkillSets /\ job[j] \in Rows
      BY IdleRequest DEF Typed
    <3> QED
      BY <3>1 DEF Request
  <2> QED
    BY <1>1, <2>1 DEF Submit, Typed
<1>2. ASSUME NEW r \in Requests, ReadProfile(r) PROVE Typed'
  <2>1. PICK skills \in {SkillsRead(req[r].user), {}} :
          req' = [req EXCEPT ![r].pc = "job", ![r].skills = skills]
    BY <1>2 DEF ReadProfile
  <2>2. req[r] \in Request
    BY DEF Typed
  <2>3. skills \in SUBSET Words
    BY <2>2 DEF SkillsRead, HasProfile, Typed, Request
  <2>4. [req[r] EXCEPT !.pc = "job", !.skills = skills] \in Request
    BY <2>2, <2>3 DEF Request
  <2>5. req' = [req EXCEPT ![r] = [req[r] EXCEPT !.pc = "job", !.skills = skills]]
    BY <2>1 DEF Typed
  <2> QED
    BY <1>2, <2>4, <2>5 DEF ReadProfile, Typed
<1>3. ASSUME NEW r \in Requests, ReadJob(r) PROVE Typed'
  <2> DEFINE j == req[r].job
             m == CalculateMatch(req[r].skills, job[j].skills)
             found == [req[r] EXCEPT !.pc = "found", !.views = job[j].views, !.match = m]
  <2>1. req[r] \in Request /\ j \in Jobs /\ job[j] \in Rows
    BY DEF Typed, Request
  <2>2. m \in Calculated
    BY <2>1 DEF Calculated, Request, Rows
  <2>3. found \in Request /\ [req[r] EXCEPT !.pc = "missing"] \in Request
    <3> HIDE DEF m
    <3>1. job[j].views \in Nat
      BY <2>1 DEF Rows
    <3> QED
      BY <2>1, <2>2, <3>1 DEF Request
  <2>4. \/ req' = [req EXCEPT ![r] = found]
        \/ req' = [req EXCEPT ![r] = [req[r] EXCEPT !.pc = "missing"]]
        \/ req' = [req EXCEPT ![r] = Idle]
    BY <1>3 DEF ReadJob, Typed
  <2>5. req' \in [Requests -> Request]
    <3> HIDE DEF found
    <3> QED
      BY <2>3, <2>4, IdleRequest DEF Typed
  <2>6. counting' \in [Jobs -> Nat] /\ reads' \in [Jobs -> Nat]
    BY <1>3, <2>1 DEF ReadJob, Typed
  <2> QED
    BY <1>3, <2>5, <2>6 DEF ReadJob, Typed
<1>4. ASSUME NEW r \in Requests, Answer(r) PROVE Typed'
  BY <1>4, IdleRequest DEF Answer, Typed
<1>5. ASSUME NEW j \in Jobs, CountView(j) PROVE Typed'
  <2>1. counting' \in [Jobs -> Nat] /\ lost' \in [Jobs -> Nat]
    BY <1>5 DEF CountView, Done, Typed
  <2>2. SkillSets # {} => job' \in [Jobs -> Rows] /\ req' \in [Requests -> Request]
    BY <1>5, RowWritten, WriteTyped DEF CountView, Increment, Typed
  <2>3. SkillSets # {}
    BY DEF Typed, Rows
  <2> QED
    BY <1>5, <2>1, <2>2, <2>3 DEF CountView, Typed
<1>6. ASSUME NEW j \in Jobs, NEW skills \in SkillSets, UpdateJob(j, skills) PROVE Typed'
  BY <1>6, RowWritten, WriteTyped DEF UpdateJob, Typed
<1>7. ASSUME NEW j \in Jobs, DeleteJob(j) PROVE Typed'
  <2>1. SkillSets # {}
    BY DEF Typed, Rows
  <2> QED
    BY <1>7, <2>1, RowWritten, WriteTyped DEF DeleteJob, Typed
<1>8. ASSUME NEW u \in Users, NEW skills \in SkillSets, UpdateProfile(u, skills) PROVE Typed'
  <2>1. ASSUME NEW r \in Requests
        PROVE [req[r] EXCEPT !.wishes = @ \cup {skills}] \in Request /\ req[r] \in Request
    BY DEF Typed, Request
  <2> QED
    BY <1>8, <2>1 DEF UpdateProfile, StoreProfile, Typed
<1>9. CASE Crash
  BY <1>9, IdleRequest DEF Crash, Zero, Typed
<1>10. CASE UNCHANGED vars
  BY <1>10 DEF vars, Typed
<1> QED
  BY <1>1, <1>2, <1>3, <1>4, <1>5, <1>6, <1>7, <1>8, <1>9, <1>10 DEF Next, Handle

\* Every reachable state is well typed (but for the bound on reads).
THEOREM TypeCorrect == Spec => []Typed
<1> QED
  BY InitTyped, NextTyped, PTL DEF Spec


-----------------------------------------------------------------------------
(* Views add up.                                                           *)

LEMMA InitAddsUp == Init => ViewsAddUp
  BY DEF Init, ViewsAddUp, Zero

LEMMA NextAddsUp == Typed /\ ViewsAddUp /\ [Next]_vars => ViewsAddUp'
<1> SUFFICES ASSUME Typed, ViewsAddUp, [Next]_vars, NEW i \in Jobs
             PROVE  (job[i].views + counting[i] + lost[i] = reads[i])'
  BY DEF ViewsAddUp
<1>0. /\ job[i] \in Rows /\ job[i].views \in Nat
      /\ counting[i] \in Nat /\ lost[i] \in Nat /\ reads[i] \in Nat
      /\ job[i].views + counting[i] + lost[i] = reads[i]
  BY DEF Typed, Rows, ViewsAddUp
<1>1. ASSUME NEW r \in Requests, ReadJob(r)
      PROVE  (job[i].views + counting[i] + lost[i] = reads[i])'
  <2>1. req[r].job \in Jobs
    BY DEF Typed, Request
  <2>2. CASE counting' = [counting EXCEPT ![req[r].job] = @ + 1]
             /\ reads' = [reads EXCEPT ![req[r].job] = @ + 1]
    BY <1>0, <1>1, <2>1, <2>2 DEF ReadJob, Typed
  <2>3. CASE UNCHANGED <<counting, reads>>
    BY <1>0, <1>1, <2>3 DEF ReadJob
  <2> QED
    BY <1>1, <2>2, <2>3 DEF ReadJob
<1>2. ASSUME NEW j \in Jobs, CountView(j)
      PROVE  (job[i].views + counting[i] + lost[i] = reads[i])'
  <2>1. counting' = [counting EXCEPT ![j] = @ - 1] /\ reads' = reads
    BY <1>2 DEF CountView, Done
  <2>2. CASE Increment(j) /\ UNCHANGED lost
    <3>1. job' = [job EXCEPT ![j] = [job[j] EXCEPT !.views = @ + 1]]
      BY <2>2 DEF Increment, WriteJob
    <3>2. job[j] \in Rows
      BY DEF Typed
    <3>3. [job[j] EXCEPT !.views = @ + 1].views = job[j].views + 1
      BY <3>2 DEF Rows
    <3> QED
      BY <1>0, <2>1, <2>2, <3>1, <3>3 DEF Typed
  <2>3. CASE lost' = [lost EXCEPT ![j] = @ + 1] /\ UNCHANGED <<job, req>>
    BY <1>0, <2>1, <2>3 DEF Typed
  <2> QED
    BY <1>2, <2>2, <2>3 DEF CountView
<1>3. ASSUME NEW j \in Jobs, NEW row \in Rows, WriteJob(j, row), row.views = job[j].views,
             UNCHANGED <<counting, reads, lost>>
      PROVE  (job[i].views + counting[i] + lost[i] = reads[i])'
  BY <1>0, <1>3 DEF WriteJob, Typed
<1>4. ASSUME NEW j \in Jobs, NEW skills \in SkillSets, UpdateJob(j, skills)
      PROVE  (job[i].views + counting[i] + lost[i] = reads[i])'
  <2>1. job[j] \in Rows
    BY DEF Typed
  <2>2. [job[j] EXCEPT !.skills = skills, !.active = TRUE].views = job[j].views
    BY <2>1 DEF Rows
  <2> QED
    BY <1>3, <1>4, <2>2, RowWritten DEF UpdateJob
<1>5. ASSUME NEW j \in Jobs, DeleteJob(j)
      PROVE  (job[i].views + counting[i] + lost[i] = reads[i])'
  <2>1. job[j] \in Rows /\ SkillSets # {}
    BY DEF Typed, Rows
  <2>2. [job[j] EXCEPT !.active = FALSE].views = job[j].views
    BY <2>1 DEF Rows
  <2> QED
    BY <1>3, <1>5, <2>1, <2>2, RowWritten DEF DeleteJob
<1>6. CASE Crash
  BY <1>0, <1>6 DEF Crash, Zero
<1>7. ASSUME UNCHANGED <<job, counting, reads, lost>>
      PROVE  (job[i].views + counting[i] + lost[i] = reads[i])'
  BY <1>0, <1>7
<1>8. ASSUME NEW r \in Requests,
             ReadProfile(r) \/ Answer(r) \/ \E u \in Users, j \in Jobs : Submit(r, u, j)
      PROVE  UNCHANGED <<job, counting, reads, lost>>
  BY <1>8 DEF ReadProfile, Answer, Submit
<1>9. ASSUME NEW u \in Users, NEW skills \in SkillSets, UpdateProfile(u, skills)
      PROVE  UNCHANGED <<job, counting, reads, lost>>
  BY <1>9 DEF UpdateProfile, StoreProfile
<1>10. UNCHANGED vars => UNCHANGED <<job, counting, reads, lost>>
  BY DEF vars
<1> QED
  BY <1>1, <1>2, <1>4, <1>5, <1>6, <1>7, <1>8, <1>9, <1>10 DEF Next, Handle

\* No view is counted twice and none is taken back: the goroutines that count
\* and every writer of the row keep views, views under way and views given up
\* equal to the number of readers who found the job.
THEOREM ViewsCounted == Spec => []ViewsAddUp
<1> QED
  BY InitTyped, NextTyped, InitAddsUp, NextAddsUp, PTL DEF Spec

-----------------------------------------------------------------------------
(* Replies are of one moment.                                              *)

\* What a request must have witnessed before it reads: the row and the
\* profile as they are, and afterwards the skills it holds.
Witnessed(q) ==
  /\ q.pc \in {"profile", "job"} => job[q.job] \in q.seen
  /\ q.pc = "profile" => profile[q.user] \in q.wishes \cup {NoProfile}
  /\ q.pc = "job" => q.skills \in q.wishes \cup {{}}

\* ReplyOfOneMoment, for one request: the skills it holds are those matched.
Honest(q) ==
  /\ q.pc = "found" =>
       /\ q.skills \in q.wishes \cup {{}}
       /\ \E row \in q.seen :
            /\ row.active
            /\ q.views = row.views
            /\ q.match = CalculateMatch(q.skills, row.skills)
  /\ q.pc = "missing" => \E row \in q.seen : ~row.active

Faithful == \A r \in Requests : Witnessed(req[r]) /\ Honest(req[r])

LEMMA FaithfulReplies == Faithful => ReplyOfOneMoment
  BY DEF Faithful, Honest, ReplyOfOneMoment

LEMMA IdleFaithful == Witnessed(Idle)' /\ Honest(Idle)' /\ Witnessed(Idle) /\ Honest(Idle)
  BY DEF Idle, Witnessed, Honest

LEMMA WriteFaithful ==
  ASSUME Typed, Faithful, NEW j \in Jobs, NEW row \in Rows, WriteJob(j, row), profile' = profile
  PROVE  Faithful'
<1> SUFFICES ASSUME NEW r \in Requests PROVE Witnessed(req[r])' /\ Honest(req[r])'
  BY DEF Faithful
<1> DEFINE q == req[r]
           p == [q EXCEPT !.seen = @ \cup {row}]
<1>1. q \in Request /\ Witnessed(q) /\ Honest(q)
  BY DEF Typed, Faithful
<1>2. req'[r] = Witness(q, j, row) /\ job' = [job EXCEPT ![j] = row]
  BY DEF WriteJob
<1>3. CASE q.pc \in {"profile", "job"} /\ q.job = j
  <2>1. req'[r] = p
    BY <1>2, <1>3 DEF Witness
  <2>2. /\ p.pc = q.pc /\ p.job = q.job /\ p.user = q.user /\ p.skills = q.skills
        /\ p.wishes = q.wishes /\ p.seen = q.seen \cup {row}
    BY <1>1 DEF Request
  <2>3. job'[j] = row
    BY <1>2 DEF Typed
  <2> HIDE DEF p, q
  <2> QED
    BY <1>1, <1>3, <2>1, <2>2, <2>3 DEF Witnessed, Honest, q
<1>4. CASE ~(q.pc \in {"profile", "job"} /\ q.job = j)
  <2>1. req'[r] = q
    BY <1>2, <1>4 DEF Witness
  <2>2. q.pc \in {"profile", "job"} => job'[q.job] = job[q.job]
    BY <1>1, <1>2, <1>4 DEF Typed, Request
  <2> QED
    BY <1>1, <2>1, <2>2 DEF Witnessed, Honest
<1> QED
  BY <1>3, <1>4

LEMMA NextFaithful == Typed /\ Faithful /\ [Next]_vars => Faithful'
<1> SUFFICES ASSUME Typed, Faithful, [Next]_vars PROVE Faithful'
  OBVIOUS
<1>1. ASSUME NEW r \in Requests, NEW q \in Request, req' = [req EXCEPT ![r] = q],
             Witnessed(q), Honest(q), UNCHANGED <<job, profile>>
      PROVE  Faithful'
  <2> SUFFICES ASSUME NEW i \in Requests PROVE Witnessed(req[i])' /\ Honest(req[i])'
    BY DEF Faithful
  <2>1. req'[i] = q \/ req'[i] = req[i]
    BY <1>1 DEF Typed
  <2>2. Witnessed(req[i]) /\ Honest(req[i])
    BY DEF Faithful
  <2>3. job' = job /\ profile' = profile
    BY <1>1
  <2>4. CASE req'[i] = q
    BY <1>1, <2>3, <2>4 DEF Witnessed, Honest
  <2>5. CASE req'[i] = req[i]
    BY <2>2, <2>3, <2>5 DEF Witnessed, Honest
  <2> QED
    BY <2>1, <2>4, <2>5
<1>2. ASSUME NEW r \in Requests, NEW u \in Users, NEW j \in Jobs, Submit(r, u, j)
      PROVE  Faithful'
  <2> DEFINE q == [Idle EXCEPT !.pc = "profile", !.user = u, !.job = j,
                     !.wishes = {profile[u]} \ {NoProfile}, !.seen = {job[j]}]
  <2>1. Idle \in Request /\ {profile[u]} \ {NoProfile} \in SUBSET SkillSets /\ job[j] \in Rows
    BY IdleRequest DEF Typed
  <2>2. q \in Request
    BY <2>1 DEF Request
  <2>3. /\ q.pc = "profile" /\ q.user = u /\ q.job = j
        /\ q.wishes = {profile[u]} \ {NoProfile} /\ q.seen = {job[j]}
    BY <2>1 DEF Request
  <2>4. req' = [req EXCEPT ![r] = q] /\ UNCHANGED <<job, profile>>
    BY <1>2 DEF Submit
  <2> HIDE DEF q
  <2>5. Witnessed(q) /\ Honest(q)
    BY <2>3 DEF Witnessed, Honest
  <2> QED
    BY <1>1, <2>2, <2>4, <2>5
<1>3. ASSUME NEW r \in Requests, ReadProfile(r) PROVE Faithful'
  <2>1. PICK skills \in {SkillsRead(req[r].user), {}} :
          req' = [req EXCEPT ![r].pc = "job", ![r].skills = skills]
    BY <1>3 DEF ReadProfile
  <2> DEFINE q == [req[r] EXCEPT !.pc = "job", !.skills = skills]
  <2>2. req[r] \in Request /\ req[r].pc = "profile" /\ Witnessed(req[r])
    BY <1>3 DEF Typed, Faithful, ReadProfile
  <2>3. skills \in req[r].wishes \cup {{}}
    BY <2>2 DEF SkillsRead, HasProfile, Witnessed
  <2>4. skills \in SUBSET Words
    BY <2>2, <2>3 DEF Request
  <2>5. q \in Request
    BY <2>2, <2>4 DEF Request
  <2>6. /\ q.pc = "job" /\ q.skills = skills /\ q.job = req[r].job
        /\ q.wishes = req[r].wishes /\ q.seen = req[r].seen
    BY <2>2 DEF Request
  <2>7. req' = [req EXCEPT ![r] = q] /\ UNCHANGED <<job, profile>>
    BY <1>3, <2>1 DEF ReadProfile, Typed
  <2> HIDE DEF q
  <2>8. Witnessed(q) /\ Honest(q)
    BY <2>2, <2>3, <2>6 DEF Witnessed, Honest
  <2> QED
    BY <1>1, <2>5, <2>7, <2>8
<1>4. ASSUME NEW r \in Requests, ReadJob(r) PROVE Faithful'
  <2> DEFINE j == req[r].job
             m == CalculateMatch(req[r].skills, job[j].skills)
             found == [req[r] EXCEPT !.pc = "found", !.views = job[j].views, !.match = m]
             missing == [req[r] EXCEPT !.pc = "missing"]
  <2>1. /\ req[r] \in Request /\ j \in Jobs /\ job[j] \in Rows
        /\ job[j] \in req[r].seen /\ req[r].skills \in req[r].wishes \cup {{}}
    BY <1>4 DEF Typed, Request, Faithful, Witnessed, ReadJob
  <2>2. m \in Calculated /\ job[j].views \in Nat
    BY <2>1 DEF Calculated, Request, Rows
  <2>3. /\ \/ job[j].active /\ req' = [req EXCEPT ![r] = found]
           \/ ~job[j].active /\ req' = [req EXCEPT ![r] = missing]
           \/ req' = [req EXCEPT ![r] = Idle]
        /\ UNCHANGED <<job, profile>>
    BY <1>4 DEF ReadJob, Served, Typed
  <2>4. CASE job[j].active /\ req' = [req EXCEPT ![r] = found]
    <3> HIDE DEF m
    <3>1. /\ found \in Request /\ found.pc = "found" /\ found.views = job[j].views
          /\ found.match = m /\ found.wishes = req[r].wishes /\ found.seen = req[r].seen
          /\ found.skills = req[r].skills
      BY <2>1, <2>2 DEF Request
    <3> HIDE DEF found, j
    <3>2. Witnessed(found)
      BY <3>1 DEF Witnessed
    <3>3. Honest(found)
      BY <2>1, <2>4, <3>1 DEF Honest, m
    <3> QED
      BY <1>1, <2>3, <2>4, <3>1, <3>2, <3>3
  <2>5. CASE ~job[j].active /\ req' = [req EXCEPT ![r] = missing]
    <3>1. missing \in Request /\ missing.pc = "missing" /\ missing.seen = req[r].seen
      BY <2>1 DEF Request
    <3> HIDE DEF missing, j
    <3>2. Witnessed(missing) /\ Honest(missing)
      BY <2>1, <2>5, <3>1 DEF Witnessed, Honest
    <3> QED
      BY <1>1, <2>3, <2>5, <3>1, <3>2
  <2>6. CASE req' = [req EXCEPT ![r] = Idle]
    BY <1>1, <2>3, <2>6, IdleRequest, IdleFaithful
  <2> QED
    BY <2>3, <2>4, <2>5, <2>6
<1>5. ASSUME NEW r \in Requests, Answer(r) PROVE Faithful'
  BY <1>1, <1>5, IdleRequest, IdleFaithful DEF Answer
<1>6. ASSUME NEW j \in Jobs, CountView(j) PROVE Faithful'
  <2>1. CASE Increment(j)
    <3>1. SkillSets # {}
      BY DEF Typed, Rows
    <3> QED
      BY <1>6, <2>1, <3>1, RowWritten, WriteFaithful DEF Increment, CountView
  <2>2. CASE UNCHANGED <<job, req>>
    BY <1>6, <2>2 DEF CountView, Faithful, Witnessed, Honest
  <2> QED
    BY <1>6, <2>1, <2>2 DEF CountView
<1>7. ASSUME NEW j \in Jobs, NEW skills \in SkillSets, UpdateJob(j, skills) PROVE Faithful'
  BY <1>7, RowWritten, WriteFaithful DEF UpdateJob
<1>8. ASSUME NEW j \in Jobs, DeleteJob(j) PROVE Faithful'
  <2>1. SkillSets # {}
    BY DEF Typed, Rows
  <2> QED
    BY <1>8, <2>1, RowWritten, WriteFaithful DEF DeleteJob
<1>9. ASSUME NEW u \in Users, NEW wanted \in SkillSets, UpdateProfile(u, wanted) PROVE Faithful'
  <2> SUFFICES ASSUME NEW r \in Requests PROVE Witnessed(req[r])' /\ Honest(req[r])'
    BY DEF Faithful
  <2> DEFINE q == req[r]
             p == [q EXCEPT !.wishes = @ \cup {wanted}]
  <2>1. q \in Request /\ Witnessed(q) /\ Honest(q)
    BY DEF Typed, Faithful
  <2>2. job' = job /\ profile' = [profile EXCEPT ![u] = wanted]
    BY <1>9 DEF UpdateProfile, StoreProfile
  <2>3. CASE q.pc = "profile" /\ q.user = u
    <3>1. req'[r] = p
      BY <1>9, <2>3 DEF UpdateProfile, StoreProfile
    <3>2. /\ p.pc = "profile" /\ p.job = q.job /\ p.user = u
          /\ p.wishes = q.wishes \cup {wanted} /\ p.seen = q.seen
      BY <2>1, <2>3 DEF Request
    <3>3. profile'[u] = wanted
      BY <2>2 DEF Typed
    <3> HIDE DEF p, q
    <3> QED
      BY <2>1, <2>2, <2>3, <3>1, <3>2, <3>3 DEF Witnessed, Honest
  <2>4. CASE ~(q.pc = "profile" /\ q.user = u)
    <3>1. req'[r] = q
      BY <1>9, <2>4 DEF UpdateProfile, StoreProfile
    <3>2. q.pc = "profile" => profile'[q.user] = profile[q.user]
      BY <2>1, <2>2, <2>4 DEF Typed, Request
    <3> QED
      BY <2>1, <2>2, <3>1, <3>2 DEF Witnessed, Honest
  <2> QED
    BY <2>3, <2>4
<1>10. CASE Crash
  BY <1>10, IdleFaithful DEF Crash, Faithful
<1>11. CASE UNCHANGED vars
  BY <1>11 DEF vars, Faithful, Witnessed, Honest
<1> QED
  BY <1>2, <1>3, <1>4, <1>5, <1>6, <1>7, <1>8, <1>9, <1>10, <1>11 DEF Next, Handle

\* Whatever is written to the job and to the profile while a request reads
\* them, its reply shows one state of each.
THEOREM RepliesOfOneMoment == Spec => []ReplyOfOneMoment
<1>1. Init => Faithful
  BY IdleFaithful DEF Init, Faithful
<1> QED
  BY <1>1, InitTyped, NextTyped, NextFaithful, FaithfulReplies, PTL DEF Spec

-----------------------------------------------------------------------------
(* The match.                                                              *)

\* The cut of a share lies less than a percent below it, or just one percent
\* below when the quotient falls short, and is 100 for the whole only.
LEMMA CutShare ==
  ASSUME NEW m \in Nat, NEW n \in Nat, m <= n, 0 < n, NEW p, p = Truncated(m, n)
  PROVE  /\ p \in 0..100
         /\ p * n <= 100 * m
         /\ 100 * m <= (p + 1) * n
         /\ p = 100 <=> m = n
         /\ m = 0 => p = 0
<1> DEFINE whole == (100 * m) \div n
<1>1. whole \in Nat /\ whole * n <= 100 * m /\ 100 * m < (whole + 1) * n
  OBVIOUS
<1>2. /\ whole <= 100
      /\ whole = 100 <=> m = n
      /\ m = 0 => whole = 0
  BY <1>1
<1>3. p = IF whole \in FallShort /\ whole * n = 100 * m THEN whole - 1 ELSE whole
  BY DEF Truncated
<1> HIDE DEF whole
<1>4. CASE ~(whole \in FallShort /\ whole * n = 100 * m)
  <2>1. p = whole
    BY <1>3, <1>4
  <2> QED
    BY <1>1, <1>2, <2>1
<1>5. CASE whole \in FallShort /\ whole * n = 100 * m
  <2>1. whole = 29 \/ whole = 57 \/ whole = 58
    BY <1>5 DEF FallShort
  <2>2. p = whole - 1 /\ whole * n = 100 * m
    BY <1>3, <1>5
  <2>3. CASE whole = 29
    BY <2>2, <2>3
  <2>4. CASE whole = 57
    BY <2>2, <2>4
  <2>5. CASE whole = 58
    BY <2>2, <2>5
  <2> QED
    BY <2>1, <2>3, <2>4, <2>5
<1> QED
  BY <1>4, <1>5

LEMMA LoweredFinite ==
  ASSUME NEW s \in SkillSets \cup {{}} PROVE IsFiniteSet(Lowered(s))
<1> DEFINE lower == [w \in s |-> Lower[w]]
<1>1. IsFiniteSet(s)
  BY SkillsFinite, FS_EmptySet
<1>2. lower \in Surjection(s, Lowered(s))
  BY DEF Surjection, Lowered
<1> QED
  BY <1>1, <1>2, FS_Surjection

\* The two counts a match is made of.
LEMMA Shares ==
  ASSUME NEW mine, NEW wanted, IsFiniteSet(mine), IsFiniteSet(wanted), mine \cup wanted # {}
  PROVE  LET m == Cardinality(wanted \cap mine)
             n == Cardinality(mine \cup wanted)
         IN  /\ m \in Nat /\ n \in Nat /\ m <= n /\ 0 < n
             /\ m = n <=> wanted \cap mine = mine \cup wanted
             /\ wanted \cap mine = {} => m = 0
<1> DEFINE shared == wanted \cap mine
           all == mine \cup wanted
<1>1. shared \in SUBSET all
  OBVIOUS
<1>2. IsFiniteSet(all)
  BY FS_Union
<1> HIDE DEF shared, all
<1>3. /\ IsFiniteSet(shared)
      /\ Cardinality(shared) <= Cardinality(all)
      /\ Cardinality(all) = Cardinality(shared) => all = shared
  BY <1>1, <1>2, FS_Subset
<1>4. Cardinality(shared) \in Nat /\ Cardinality(all) \in Nat
  BY <1>2, <1>3, FS_CardinalityType
<1>5. Cardinality(all) # 0
  BY <1>2, FS_EmptySet DEF all
<1>6. shared = {} => Cardinality(shared) = 0
  BY FS_EmptySet
<1> QED
  BY <1>3, <1>4, <1>5, <1>6 DEF shared, all

\* CalculateMatch on lower-case sets.
LEMMA MatchCuts ==
  ASSUME NEW mine, NEW wanted, IsFiniteSet(mine), IsFiniteSet(wanted),
         NEW p, p = MatchOf(mine, wanted).percent,
         NEW shared, shared = wanted \cap mine, NEW all, all = mine \cup wanted
  PROVE  /\ p = 100 <=> shared = all /\ all # {}
         /\ shared = {} => p = 0
         /\ p * Cardinality(all) <= 100 * Cardinality(shared)
         /\ 100 * Cardinality(shared) <= (p + 1) * Cardinality(all)
<1>1. CASE all = {}
  <2>1. p = 0 /\ shared = {}
    BY <1>1 DEF MatchOf
  <2>2. PICK n : n = Cardinality(shared) /\ n = Cardinality(all) /\ n = 0
    BY <1>1, <2>1, FS_EmptySet
  <2> QED
    BY <1>1, <2>1, <2>2
<1>2. CASE all # {}
  <2>1. PICK m, n : m = Cardinality(shared) /\ n = Cardinality(all)
    OBVIOUS
  <2>2. /\ m \in Nat /\ n \in Nat /\ m <= n /\ 0 < n
        /\ m = n <=> shared = all
        /\ shared = {} => m = 0
    BY <1>2, <2>1, Shares
  <2>3. p = Truncated(m, n)
    BY <1>2, <2>1 DEF MatchOf
  <2>4. /\ p \in 0..100 /\ p * n <= 100 * m /\ 100 * m <= (p + 1) * n
        /\ p = 100 <=> m = n
        /\ m = 0 => p = 0
    BY <2>2, <2>3, CutShare
  <2> QED
    BY <1>2, <2>1, <2>2, <2>4
<1> QED
  BY <1>1, <1>2

LEMMA PercentBounded ==
  ASSUME NEW mine, NEW wanted, IsFiniteSet(mine), IsFiniteSet(wanted)
  PROVE  MatchOf(mine, wanted).percent \in 0..100
<1>1. CASE mine \cup wanted = {}
  BY <1>1 DEF MatchOf
<1>2. CASE mine \cup wanted # {}
  <2>1. PICK m, n : m = Cardinality(wanted \cap mine) /\ n = Cardinality(mine \cup wanted)
    OBVIOUS
  <2>2. m \in Nat /\ n \in Nat /\ m <= n /\ 0 < n
    BY <1>2, <2>1, Shares
  <2>3. PICK p : p = Truncated(m, n)
    OBVIOUS
  <2>4. p \in 0..100
    BY <2>2, <2>3, CutShare
  <2>5. MatchOf(mine, wanted).percent = p
    BY <1>2, <2>1, <2>3 DEF MatchOf
  <2> QED
    BY <2>4, <2>5
<1> QED
  BY <1>1, <1>2

LEMMA CalculatedAsExpected ==
  ASSUME NEW mine \in SkillSets \cup {{}}, NEW wanted \in SkillSets
  PROVE  Expected(CalculateMatch(mine, wanted), mine, wanted)
<1> DEFINE match == MatchOf(Lowered(mine), Lowered(wanted))
           shared == {Lower[w] : w \in {x \in wanted : \E v \in mine : Alike(v, x)}}
           all == {Lower[w] : w \in mine \cup wanted}
<1>1. shared = Lowered(wanted) \cap Lowered(mine)
  BY DEF Lowered, Alike
<1>2. all = Lowered(mine) \cup Lowered(wanted)
  BY DEF Lowered
<1>3. /\ match.matched = shared
      /\ match.missing = {Lower[w] : w \in wanted} \ shared
  <2>1. Lowered(wanted) \ Lowered(mine) = Lowered(wanted) \ shared
    BY <1>1
  <2> QED
    BY <1>1, <2>1 DEF MatchOf, Lowered
<1>4. IsFiniteSet(Lowered(mine)) /\ IsFiniteSet(Lowered(wanted))
  BY LoweredFinite
<1>5. /\ match.percent = 100 <=> shared = all /\ all # {}
      /\ shared = {} => match.percent = 0
      /\ match.percent * Cardinality(all) <= 100 * Cardinality(shared)
      /\ 100 * Cardinality(shared) <= (match.percent + 1) * Cardinality(all)
  <2> HIDE DEF match, shared, all
  <2> QED
    BY <1>1, <1>2, <1>4, MatchCuts DEF match
<1> QED
  BY <1>3, <1>5 DEF Expected, CalculateMatch

\* Every reply's percentage and lists are what the spellings of the two
\* skill sets imply, however many skills there are and wherever the float64
\* quotient falls short of a whole percent.
THEOREM MatchIsExpected == Spec => []MatchAgrees
<1>1. Init => Faithful
  BY IdleFaithful DEF Init, Faithful
<1>2. Typed /\ Faithful => MatchAgrees
  <2> SUFFICES ASSUME Typed, Faithful, NEW r \in Requests, req[r].pc = "found"
               PROVE  \E row \in req[r].seen :
                        row.active /\ Expected(req[r].match, req[r].skills, row.skills)
    BY DEF MatchAgrees
  <2>1. req[r] \in Request /\ Honest(req[r])
    BY DEF Typed, Faithful
  <2>2. PICK row \in req[r].seen :
          row.active /\ req[r].match = CalculateMatch(req[r].skills, row.skills)
    BY <2>1 DEF Honest
  <2>3. row \in Rows /\ req[r].skills \in SkillSets \cup {{}}
    BY <2>1 DEF Request, Honest
  <2>4. row.skills \in SkillSets
    BY <2>3 DEF Rows
  <2> QED
    BY <2>2, <2>3, <2>4, CalculatedAsExpected
<1> QED
  BY <1>1, <1>2, InitTyped, NextTyped, NextFaithful, PTL DEF Spec

-----------------------------------------------------------------------------
(* The bound on the number of reads.                                       *)

\* A request holds what bounded rows have shown it.
Small(q) ==
  /\ q.views <= MaxReads
  /\ \A row \in q.seen : row.views <= MaxReads
  /\ q.match \in Matches

\* Submit counts those who still read among the reads.
Room(j) == IsFiniteSet(Reading(j)) /\ reads[j] + Cardinality(Reading(j)) <= MaxReads

Bounded == (\A j \in Jobs : Room(j)) /\ (\A r \in Requests : Small(req[r]))

LEMMA LowerIsSpelled == ASSUME NEW s \in SUBSET Words PROVE Lowered(s) \in SUBSET Words
  BY DEF Lowered

LEMMA MatchTyped ==
  ASSUME NEW mine \in SkillSets \cup {{}}, NEW wanted \in SkillSets
  PROVE  CalculateMatch(mine, wanted) \in Matches
<1> DEFINE s == Lowered(mine)
           t == Lowered(wanted)
<1>1. s \in SUBSET Words /\ t \in SUBSET Words
  BY LowerIsSpelled
<1>2. IsFiniteSet(s) /\ IsFiniteSet(t)
  BY LoweredFinite
<1> HIDE DEF s, t
<1>3. MatchOf(s, t).percent \in 0..100
  BY <1>2, PercentBounded
<1>4. MatchOf(s, t) \in Matches
  <2>1. MatchOf(s, t) =
          [percent |-> MatchOf(s, t).percent, matched |-> t \cap s, missing |-> t \ s]
    BY DEF MatchOf
  <2> QED
    BY <1>1, <1>3, <2>1 DEF Matches
<1> QED
  BY <1>4 DEF CalculateMatch, s, t

LEMMA IdleSmall == Small(Idle) /\ Small(Idle)'
<1>1. Idle.views = 0 /\ Idle.seen = {} /\ Idle.match = NoMatch
  BY DEF Idle
<1>2. NoMatch \in Matches
  BY DEF NoMatch, Matches
<1> QED
  BY <1>1, <1>2 DEF Small

LEMMA InitBounded == Init => Bounded
<1> SUFFICES ASSUME Init PROVE Bounded
  OBVIOUS
<1>1. ASSUME NEW j \in Jobs PROVE Room(j)
  <2>1. Reading(j) = {} /\ reads[j] = 0
    BY DEF Init, Reading, Idle, Zero
  <2> QED
    BY <2>1, FS_EmptySet DEF Room
<1> QED
  BY <1>1, IdleSmall DEF Init, Bounded

\* The parts of ViewsAddUp are no larger than the whole.
LEMMA PartsBounded ==
  ASSUME Typed, ViewsAddUp, NEW j \in Jobs, Room(j)
  PROVE  /\ reads[j] <= MaxReads /\ job[j].views <= MaxReads
         /\ counting[j] <= MaxReads /\ lost[j] <= MaxReads
<1>1. /\ job[j] \in Rows /\ job[j].views \in Nat /\ reads[j] \in Nat
      /\ counting[j] \in Nat /\ lost[j] \in Nat
      /\ job[j].views + counting[j] + lost[j] = reads[j]
  BY DEF Typed, Rows, ViewsAddUp
<1>2. Cardinality(Reading(j)) \in Nat
  BY FS_CardinalityType DEF Room
<1> QED
  BY <1>1, <1>2 DEF Room

LEMMA StillRoom ==
  ASSUME Typed, NEW j \in Jobs, Room(j), reads'[j] = reads[j], Reading(j)' \subseteq Reading(j)
  PROVE  Room(j)'
<1>1. /\ IsFiniteSet(Reading(j)') /\ Cardinality(Reading(j)') <= Cardinality(Reading(j))
      /\ Cardinality(Reading(j)) \in Nat /\ Cardinality(Reading(j)') \in Nat
  BY FS_Subset, FS_CardinalityType DEF Room
<1> QED
  BY <1>1 DEF Room, Typed

LEMMA RoomKept ==
  ASSUME Typed, Bounded, [Next]_vars, NEW i \in Jobs
  PROVE  Room(i)'
<1>1. Room(i) /\ reads \in [Jobs -> Nat] /\ req \in [Requests -> Request]
  BY DEF Bounded, Typed
<1>2. ASSUME NEW r \in Requests, NEW u \in Users, NEW j \in Jobs, Submit(r, u, j) PROVE Room(i)'
  <2> DEFINE q == [Idle EXCEPT !.pc = "profile", !.user = u, !.job = j,
                     !.wishes = {profile[u]} \ {NoProfile}, !.seen = {job[j]}]
  <2>1. q.pc = "profile" /\ q.job = j
    BY DEF Idle
  <2>2. req' = [req EXCEPT ![r] = q] /\ reads' = reads /\ req[r].pc = "idle"
    BY <1>2 DEF Submit
  <2> HIDE DEF q
  <2>3. CASE i = j
    <3>1. Reading(j)' = Reading(j) \cup {r}
      BY <1>1, <2>1, <2>2 DEF Reading
    <3>2. r \notin Reading(j)
      BY <2>2 DEF Reading
    <3>3. /\ IsFiniteSet(Reading(j)') /\ Cardinality(Reading(j)') = Cardinality(Reading(j)) + 1
          /\ Cardinality(Reading(j)) \in Nat
      BY <1>1, <2>3, <3>1, <3>2, FS_AddElement, FS_CardinalityType DEF Room
    <3>4. reads[j] + Cardinality(Reading(j)) < MaxReads
      BY <1>2 DEF Submit
    <3> QED
      BY <1>1, <2>2, <2>3, <3>3, <3>4 DEF Room
  <2>4. CASE i # j
    <3>1. Reading(i)' \subseteq Reading(i)
      BY <1>1, <2>1, <2>2, <2>4 DEF Reading
    <3> QED
      BY <1>1, <2>2, <3>1, StillRoom
  <2> QED
    BY <2>3, <2>4
<1>3. ASSUME NEW r \in Requests, NEW j \in Jobs, j = req[r].job, ReadJob(r) PROVE Room(i)'
  <2>1. req[r] \in Request /\ req[r].pc = "job" /\ r \in Reading(j)
    BY <1>1, <1>3 DEF ReadJob, Reading
  <2>2. /\ req'[r].pc \notin {"profile", "job"}
        /\ \A x \in Requests : x # r => req'[x] = req[x]
    <3>1. PICK q : req' = [req EXCEPT ![r] = q] /\ q.pc \notin {"profile", "job"}
      <4> DEFINE found == [req[r] EXCEPT !.pc = "found", !.views = job[j].views,
                             !.match = CalculateMatch(req[r].skills, job[j].skills)]
                 missing == [req[r] EXCEPT !.pc = "missing"]
      <4>1. found.pc = "found" /\ missing.pc = "missing" /\ Idle.pc = "idle"
        BY <2>1 DEF Request, Idle
      <4>2. req' \in {[req EXCEPT ![r] = found], [req EXCEPT ![r] = missing],
                      [req EXCEPT ![r] = Idle]}
        BY <1>1, <1>3 DEF ReadJob
      <4> HIDE DEF found, missing
      <4> QED
        BY <4>1, <4>2
    <3> QED
      BY <1>1, <3>1
  <2>3. Reading(j)' \subseteq Reading(j) \ {r}
    BY <2>2 DEF Reading
  <2>4. Reading(i)' \subseteq Reading(i)
    BY <2>2 DEF Reading
  <2>5. CASE reads' = reads \/ i # j
    <3>1. reads'[i] = reads[i]
      BY <1>1, <1>3, <2>1, <2>5 DEF ReadJob
    <3> QED
      BY <1>1, <2>4, <3>1, StillRoom
  <2>6. CASE reads' = [reads EXCEPT ![j] = @ + 1] /\ i = j
    <3>1. /\ IsFiniteSet(Reading(j) \ {r})
          /\ Cardinality(Reading(j) \ {r}) = Cardinality(Reading(j)) - 1
          /\ Cardinality(Reading(j)) \in Nat
      BY <1>1, <2>1, <2>6, FS_RemoveElement, FS_CardinalityType DEF Room
    <3>2. /\ IsFiniteSet(Reading(j)') /\ Cardinality(Reading(j)') \in Nat
          /\ Cardinality(Reading(j)') <= Cardinality(Reading(j)) - 1
      BY <2>3, <3>1, FS_Subset, FS_CardinalityType
    <3>3. reads'[i] = reads[i] + 1
      BY <1>1, <2>6
    <3>4. reads[i] + Cardinality(Reading(i)) <= MaxReads /\ reads[i] \in Nat
      BY <1>1 DEF Room
    <3>5. reads'[i] + Cardinality(Reading(i)') <= MaxReads
      BY <2>6, <3>1, <3>2, <3>3, <3>4
    <3> QED
      BY <2>6, <3>2, <3>5 DEF Room
  <2> QED
    BY <1>3, <2>5, <2>6 DEF ReadJob
<1>4. ASSUME NEW r \in Requests, ReadProfile(r)
      PROVE  reads' = reads /\ Reading(i)' \subseteq Reading(i)
  <2>1. PICK skills : req' = [req EXCEPT ![r].pc = "job", ![r].skills = skills]
    BY <1>4 DEF ReadProfile
  <2>2. req'[r].job = req[r].job /\ \A x \in Requests : x # r => req'[x] = req[x]
    BY <1>1, <2>1 DEF Request
  <2> QED
    BY <1>4, <2>2 DEF ReadProfile, Reading
<1>5. ASSUME NEW r \in Requests, Answer(r) PROVE reads' = reads /\ Reading(i)' \subseteq Reading(i)
  BY <1>1, <1>5 DEF Answer, Reading, Idle
<1>6. ASSUME NEW j \in Jobs, NEW row, WriteJob(j, row) PROVE Reading(i)' \subseteq Reading(i)
  <2>1. \A r \in Requests : req'[r].pc = req[r].pc /\ req'[r].job = req[r].job
    BY <1>1, <1>6 DEF WriteJob, Witness, Request
  <2> QED
    BY <2>1 DEF Reading
<1>7. ASSUME NEW j \in Jobs,
             CountView(j) \/ DeleteJob(j) \/ \E skills \in SkillSets : UpdateJob(j, skills)
      PROVE  reads' = reads /\ Reading(i)' \subseteq Reading(i)
  <2>1. reads' = reads /\ (req' = req \/ \E row : WriteJob(j, row))
    BY <1>7 DEF CountView, DeleteJob, UpdateJob, Increment
  <2>2. req' = req => Reading(i)' = Reading(i)
    BY DEF Reading
  <2> QED
    BY <1>6, <2>1, <2>2
<1>8. ASSUME NEW u \in Users, NEW skills \in SkillSets, UpdateProfile(u, skills)
      PROVE  reads' = reads /\ Reading(i)' \subseteq Reading(i)
  <2>1. \A r \in Requests : req'[r].pc = req[r].pc /\ req'[r].job = req[r].job
    BY <1>1, <1>8 DEF UpdateProfile, Request
  <2> QED
    BY <1>8, <2>1 DEF UpdateProfile, Reading
<1>9. ASSUME Crash PROVE reads' = reads /\ Reading(i)' \subseteq Reading(i)
  BY <1>9 DEF Crash, Reading, Idle
<1>10. ASSUME UNCHANGED vars PROVE reads' = reads /\ Reading(i)' \subseteq Reading(i)
  BY <1>10 DEF vars, Reading
<1> QED
  <2>1. \A r \in Requests : req[r].job \in Jobs
    BY <1>1 DEF Request
  <2>2. (reads' = reads /\ Reading(i)' \subseteq Reading(i)) => Room(i)'
    BY <1>1, StillRoom
  <2> QED
    BY <1>2, <1>3, <1>4, <1>5, <1>7, <1>8, <1>9, <1>10, <2>1, <2>2 DEF Next, Handle

LEMMA SmallKept ==
  ASSUME Typed, ViewsAddUp, Faithful, Bounded, [Next]_vars, NEW r \in Requests
  PROVE  Small(req[r])'
<1>1. Small(req[r]) /\ req[r] \in Request /\ Faithful
  BY DEF Bounded, Typed
<1>2. \A j \in Jobs : job[j].views <= MaxReads /\ job'[j].views <= MaxReads
  <2>1. Typed' /\ ViewsAddUp' /\ \A j \in Jobs : Room(j) /\ Room(j)'
    BY NextTyped, NextAddsUp, RoomKept DEF Bounded
  <2>2. \A j \in Jobs : job[j].views <= MaxReads
    BY <2>1, PartsBounded
  <2>3. ASSUME NEW j \in Jobs PROVE job'[j].views <= MaxReads
    <3>1. /\ job'[j] \in Rows /\ job'[j].views \in Nat /\ reads'[j] \in Nat
          /\ counting'[j] \in Nat /\ lost'[j] \in Nat
          /\ job'[j].views + counting'[j] + lost'[j] = reads'[j]
      BY <2>1 DEF Typed, Rows, ViewsAddUp
    <3>2. Cardinality(Reading(j)') \in Nat /\ reads'[j] + Cardinality(Reading(j)') <= MaxReads
      BY <2>1, FS_CardinalityType DEF Room
    <3> QED
      BY <3>1, <3>2
  <2> QED
    BY <2>2, <2>3
<1>3. ASSUME NEW u \in Users, NEW j \in Jobs, NEW x \in Requests, Submit(x, u, j)
      PROVE  Small(req[r])'
  <2> DEFINE q == [Idle EXCEPT !.pc = "profile", !.user = u, !.job = j,
                     !.wishes = {profile[u]} \ {NoProfile}, !.seen = {job[j]}]
  <2>1. q.views = Idle.views /\ q.seen = {job[j]} /\ q.match = Idle.match
    BY DEF Idle
  <2>2. req' = [req EXCEPT ![x] = q]
    BY <1>3 DEF Submit
  <2> HIDE DEF q
  <2>3. Small(q)
    BY <1>2, <2>1, IdleSmall DEF Small
  <2> QED
    BY <1>1, <2>2, <2>3 DEF Small, Typed
<1>4. ASSUME NEW x \in Requests, ReadJob(x) PROVE Small(req[r])'
  <2> DEFINE j == req[x].job
             m == CalculateMatch(req[x].skills, job[j].skills)
             found == [req[x] EXCEPT !.pc = "found", !.views = job[j].views, !.match = m]
             missing == [req[x] EXCEPT !.pc = "missing"]
  <2>1. /\ req[x] \in Request /\ Small(req[x]) /\ Witnessed(req[x]) /\ req[x].pc = "job"
        /\ j \in Jobs /\ job[j] \in Rows
    BY <1>4 DEF Typed, Request, Bounded, Faithful, ReadJob
  <2>2. req[x].skills \in SkillSets \cup {{}} /\ job[j].skills \in SkillSets
    BY <2>1 DEF Witnessed, Request, Rows
  <2>3. m \in Matches
    BY <2>2, MatchTyped
  <2> HIDE DEF m
  <2>4. /\ found.views = job[j].views /\ found.seen = req[x].seen /\ found.match = m
        /\ missing.views = req[x].views /\ missing.seen = req[x].seen
        /\ missing.match = req[x].match
    BY <2>1 DEF Request
  <2>5. Small(found) /\ Small(missing)
    <3> HIDE DEF found, missing
    <3> QED
      BY <1>2, <2>1, <2>3, <2>4 DEF Small
  <2>6. \/ req' = [req EXCEPT ![x] = found] \/ req' = [req EXCEPT ![x] = missing]
        \/ req' = [req EXCEPT ![x] = Idle]
    BY <1>4 DEF ReadJob, Typed, m
  <2> HIDE DEF found, missing
  <2>7. req'[r] \in {found, missing, Idle, req[r]}
    BY <2>6 DEF Typed
  <2> QED
    BY <1>1, <2>5, <2>7, IdleSmall DEF Small
<1>5. ASSUME NEW x \in Requests, ReadProfile(x) PROVE Small(req[r])'
  <2>1. PICK skills : req' = [req EXCEPT ![x].pc = "job", ![x].skills = skills]
    BY <1>5 DEF ReadProfile
  <2>2. /\ req'[r].views = req[r].views /\ req'[r].seen = req[r].seen
        /\ req'[r].match = req[r].match
    BY <1>1, <2>1 DEF Request, Typed
  <2> QED
    BY <1>1, <2>2 DEF Small
<1>6. ASSUME NEW x \in Requests, Answer(x) PROVE Small(req[r])'
  BY <1>1, <1>6, IdleSmall DEF Answer, Small, Typed
<1>7. ASSUME NEW j \in Jobs, NEW row, WriteJob(j, row) PROVE Small(req[r])'
  <2>1. row = job'[j]
    BY <1>7 DEF WriteJob, Typed
  <2>2. /\ req'[r].views = req[r].views /\ req'[r].match = req[r].match
        /\ req'[r].seen \subseteq req[r].seen \cup {row}
    BY <1>1, <1>7 DEF WriteJob, Witness, Request
  <2> QED
    BY <1>1, <1>2, <2>1, <2>2 DEF Small
<1>8. ASSUME NEW j \in Jobs,
             CountView(j) \/ DeleteJob(j) \/ \E skills \in SkillSets : UpdateJob(j, skills)
      PROVE  Small(req[r])'
  <2>1. req' = req \/ \E row : WriteJob(j, row)
    BY <1>8 DEF CountView, DeleteJob, UpdateJob, Increment
  <2> QED
    BY <1>1, <1>7, <2>1 DEF Small
<1>9. ASSUME NEW u \in Users, NEW skills \in SkillSets, UpdateProfile(u, skills)
      PROVE  Small(req[r])'
  <2>1. /\ req'[r].views = req[r].views /\ req'[r].match = req[r].match
        /\ req'[r].seen = req[r].seen
    BY <1>1, <1>9 DEF UpdateProfile, Request
  <2> QED
    BY <1>1, <2>1 DEF Small
<1>10. ASSUME Crash PROVE Small(req[r])'
  BY <1>10, IdleSmall DEF Crash, Small
<1>11. ASSUME UNCHANGED vars PROVE Small(req[r])'
  BY <1>1, <1>11 DEF vars, Small
<1> QED
  BY <1>3, <1>4, <1>5, <1>6, <1>8, <1>9, <1>10, <1>11 DEF Next, Handle

LEMMA BoundedTypes == Typed /\ ViewsAddUp /\ Bounded => TypeOK
<1> SUFFICES ASSUME Typed, ViewsAddUp, Bounded PROVE TypeOK
  OBVIOUS
<1>1. ASSUME NEW j \in Jobs
      PROVE  /\ job[j] \in Row /\ counting[j] \in 0..MaxReads
             /\ reads[j] \in 0..MaxReads /\ lost[j] \in 0..MaxReads
  <2>1. /\ reads[j] <= MaxReads /\ job[j].views <= MaxReads
        /\ counting[j] <= MaxReads /\ lost[j] <= MaxReads
    BY PartsBounded DEF Bounded
  <2>2. job[j] \in Row
    BY <2>1 DEF Typed, Rows, Row
  <2> QED
    BY <2>1, <2>2 DEF Typed
<1>2. ASSUME NEW r \in Requests PROVE req[r] \in RequestState
  <2>1. req[r] \in Request /\ Small(req[r])
    BY DEF Typed, Bounded
  <2>2. req[r].seen \subseteq Row
    BY <2>1 DEF Request, Small, Rows, Row
  <2>3. req[r].views \in 0..MaxReads /\ req[r].match \in Matches
    BY <2>1 DEF Request, Small
  <2> QED
    BY <2>1, <2>2, <2>3 DEF Request, RequestState
<1> QED
  BY <1>1, <1>2 DEF Typed, TypeOK

\* Every reachable state has the types TypeOK gives it, MaxReads included: the
\* percentage of every match is between 0 and 100.
THEOREM TypesBounded == Spec => []TypeOK
<1>1. Init => Faithful
  BY IdleFaithful DEF Init, Faithful
<1>2. Typed /\ ViewsAddUp /\ Faithful /\ Bounded /\ [Next]_vars => Bounded'
  BY RoomKept, SmallKept DEF Bounded
<1> QED
  BY <1>1, <1>2, InitTyped, NextTyped, InitAddsUp, NextAddsUp, NextFaithful, InitBounded,
    BoundedTypes, PTL DEF Spec

=============================================================================
