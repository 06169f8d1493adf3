---------------------------- MODULE SeederProofs ----------------------------
(***************************************************************************)
(* What Seeder promises for tables of any length, any number of runs and   *)
(* faults: whatever earlier runs left, a run in which nothing goes wrong   *)
(* completes it and one that finds everything there writes nothing.        *)
(***************************************************************************)
EXTENDS Seeder, Integers, SequenceTheorems, TLAPS

AtUsers == pc \in {"user", "insertUser", "profile"}
AtJobs == pc \in {"job", "insertJob"}

\* The rows a run has left behind.
UserDone(n) == AtUsers => n < row
JobDone(n) == ~AtUsers /\ (AtJobs => n < row)
ApplicationDone(n) == pc = "saved" \/ (pc = "application" /\ n < row)

InRange ==
  /\ AtUsers => row \in DOMAIN UserRows
  /\ AtJobs => row \in DOMAIN JobRows
  /\ pc = "application" => row \in DOMAIN ApplicationRows
  /\ pc = "saved" => row \in DOMAIN SavedRows

\* Jobs have a copy more than there were faults, at most; an INSERT makes one
\* where there was none, or where the SELECT had failed.
Copies ==
  /\ CopiesNeedFaults
  /\ pc = "insertJob" => jobs[Source] <= faults /\ (~disturbed => jobs[Source] = 0)
  /\ \A i \in DOMAIN jobIDs : jobIDs[i][2] <= jobs[jobIDs[i][1]]
  /\ \A q \in Pairs : apps[q] # "none" \/ q \in saved => q[2][2] <= jobs[q[2][1]]

\* The lists of a run that has left nothing out are the tables so far, and
\* what they name is there.
Collected ==
  /\ Len(userIDs) = IF AtUsers THEN row - 1 ELSE Len(UserRows)
  /\ \A i \in DOMAIN userIDs : userIDs[i] = UserRows[i].email
  /\ Len(jobIDs) = IF AtUsers THEN 0 ELSE IF AtJobs THEN row - 1 ELSE Len(JobRows)
  /\ \A i \in DOMAIN jobIDs : jobIDs[i][1] = JobRows[i]
  /\ \A n \in DOMAIN UserRows : UserDone(n) => users[UserRows[n].email] # "absent"
  /\ \A n \in DOMAIN JobRows : JobDone(n) => jobs[JobRows[n]] > 0

\* A run in which nothing has gone wrong has written the pairs so far.
Written ==
  /\ \A n \in DOMAIN ApplicationRows : ApplicationDone(n) /\ InTables(ApplicationRows[n])
       => \E q \in Pairs : apps[q] # "none" /\ Means(ApplicationRows[n], q)
  /\ \A n \in DOMAIN SavedRows : pc = "saved" /\ n < row /\ InTables(SavedRows[n])
       => \E q \in saved : Means(SavedRows[n], q)

Developer(e) == \E n \in DOMAIN UserRows : UserRows[n].email = e /\ UserRows[n].role = "developer"

\* Who has a profile.
Owns(e) ==
  \/ users[e] = "registered"
  \/ /\ users[e] = "seeded" /\ Developer(e) /\ e \notin partial
     /\ ~(pc = "profile" /\ e = User.email)

Profiles ==
  /\ \A e \in Emails : e \in profiles <=> Owns(e)
  /\ \A e \in partial : users[e] = "seeded"
  /\ pc = "profile"
       => users[User.email] = "seeded" /\ User.role = "developer" /\ User.email \notin partial

\* The first pair is written when all users are there, so no profile comes later.
UsersFirst ==
  ~shifted /\ (saved # {} \/ \E q \in Pairs : apps[q] # "none")
    => pc # "profile" /\ \A e \in Emails : users[e] # "absent"

IInv ==
  /\ TypeOK
  /\ InRange
  /\ Copies
  /\ lost => disturbed
  /\ Running /\ ~lost => Collected
  /\ Running /\ ~disturbed => Written
  /\ Profiles
  /\ PositionsMeanTheirRows
  /\ UsersFirst

LEMMA LastOrNot == ASSUME NEW n \in Nat, NEW i \in 1..n PROVE i < n \/ i = n
OBVIOUS

USE SeederAssumption

LEMMA TablesTyped ==
  /\ Len(UserRows) \in Nat \ {0} /\ DOMAIN UserRows = 1..Len(UserRows)
  /\ Len(JobRows) \in Nat \ {0} /\ DOMAIN JobRows = 1..Len(JobRows)
  /\ Len(ApplicationRows) \in Nat \ {0} /\ DOMAIN ApplicationRows = 1..Len(ApplicationRows)
  /\ Len(SavedRows) \in Nat \ {0} /\ DOMAIN SavedRows = 1..Len(SavedRows)
OBVIOUS

LEMMA RowTyped ==
  ASSUME InRange
  PROVE  /\ AtUsers => User.email \in Emails
         /\ AtJobs => Source \in Sources
BY DEF InRange, User, Source, Emails, Sources

\* From one row to the next, and from one table to the next.
LEMMA NextUserMoves ==
  ASSUME InRange, AtUsers, NextUser
  PROVE  /\ InRange' /\ row' \in Nat \ {0} /\ pc' \in {"user", "job"}
         /\ \A n \in DOMAIN UserRows : UserDone(n)' <=> UserDone(n) \/ n = row
         /\ IF row < Len(UserRows) THEN AtUsers' /\ row' = row + 1
                                   ELSE row = Len(UserRows) /\ ~AtUsers' /\ AtJobs' /\ row' = 1
<1>1. row \in 1..Len(UserRows)
  BY TablesTyped DEF InRange
<1>2. CASE row < Len(UserRows)
  BY <1>1, <1>2, TablesTyped DEF NextUser, Advance, InRange, AtUsers, AtJobs, UserDone
<1>3. CASE row = Len(UserRows)
  BY <1>1, <1>3, TablesTyped DEF NextUser, Advance, InRange, AtUsers, AtJobs, UserDone
<1>4. row < Len(UserRows) \/ row = Len(UserRows)
  BY <1>1, TablesTyped, LastOrNot
<1> QED
  BY <1>2, <1>3, <1>4

LEMMA NextJobMoves ==
  ASSUME InRange, AtJobs, NextJob
  PROVE  /\ InRange' /\ row' \in Nat \ {0} /\ pc' \in {"job", "application"} /\ ~AtUsers'
         /\ \A n \in DOMAIN JobRows : JobDone(n)' <=> JobDone(n) \/ n = row
         /\ IF row < Len(JobRows) THEN AtJobs' /\ row' = row + 1
                                  ELSE row = Len(JobRows) /\ ~AtJobs' /\ row' = 1
<1>1. row \in 1..Len(JobRows) /\ ~AtUsers
  BY TablesTyped DEF InRange, AtUsers, AtJobs
<1>2. CASE row < Len(JobRows)
  BY <1>1, <1>2, TablesTyped DEF NextJob, Advance, InRange, AtUsers, AtJobs, JobDone
<1>3. CASE row = Len(JobRows)
  BY <1>1, <1>3, TablesTyped DEF NextJob, Advance, InRange, AtUsers, AtJobs, JobDone
<1>4. row < Len(JobRows) \/ row = Len(JobRows)
  BY <1>1, TablesTyped, LastOrNot
<1> QED
  BY <1>2, <1>3, <1>4

LEMMA InitHolds == Init => IInv
<1> SUFFICES ASSUME Init PROVE IInv
  OBVIOUS
<1>1. TypeOK
  <2>1. <<>> \in Seq(Emails) /\ <<>> \in Seq(JobIds)
    BY EmptySeq
  <2>2. /\ jobs \in [Sources -> 0 .. MaxFaults + 1]
        /\ faults \in 0 .. MaxFaults /\ runs \in 0 .. MaxRuns
    BY DEF Init
  <2>3. userIDs = <<>> /\ jobIDs = <<>>
    BY DEF Init
  <2>4. userIDs \in Seq(Emails) /\ jobIDs \in Seq(JobIds)
    BY <2>1, <2>3
  <2>5. /\ users \in [Emails -> {"absent", "seeded", "registered"}]
        /\ apps \in [Pairs -> {"none", "seeded", "edited"}]
        /\ profiles \subseteq Emails /\ saved \subseteq Pairs /\ partial \subseteq Emails
        /\ pc = "off" /\ row = 1 /\ {disturbed, lost, shifted} \subseteq BOOLEAN
    BY DEF Init
  <2> QED
    BY <2>2, <2>4, <2>5 DEF TypeOK
<1>2. InRange /\ Copies /\ ~Running /\ ~lost
  BY DEF Init, InRange, AtUsers, AtJobs, Copies, CopiesNeedFaults, Running
<1>3. Profiles /\ PositionsMeanTheirRows /\ UsersFirst
  BY DEF Init, Profiles, Owns, PositionsMeanTheirRows, UsersFirst
<1> QED
  BY <1>1, <1>2, <1>3 DEF IInv

-----------------------------------------------------------------------------
(* What a step does to the tables.                                         *)

LEMMA UsersStay ==
  ASSUME IInv, [Next]_vars
  PROVE  /\ users' \in [Emails -> {"absent", "seeded", "registered"}]
         /\ \A e \in Emails : users[e] # "absent" => users'[e] = users[e]
<1>1. users \in [Emails -> {"absent", "seeded", "registered"}]
  BY DEF IInv, TypeOK
<1>2. CASE InsertUser
  <2>1. User.email \in Emails
    BY <1>2, RowTyped DEF IInv, InsertUser, AtUsers
  <2> QED
    BY <1>1, <1>2, <2>1 DEF InsertUser
<1>3. ASSUME NEW e \in Emails, Register(e) PROVE
         /\ users' \in [Emails -> {"absent", "seeded", "registered"}]
         /\ \A d \in Emails : users[d] # "absent" => users'[d] = users[d]
  BY <1>1, <1>3 DEF Register
<1>4. CASE ~InsertUser /\ \A e \in Emails : ~Register(e)
  <2>1. users' = users
    BY <1>4 DEF Next, SeedStep, Start, FindUser, InsertProfile, FindJob, InsertJob,
      SeedApplication,
      SeedSavedJob, Crash, Change, Withdraw, vars, tables
  <2> QED
    BY <1>1, <2>1
<1> QED
  BY <1>2, <1>3, <1>4

LEMMA JobsGrow ==
  ASSUME IInv, [Next]_vars
  PROVE  /\ \A s \in Sources : jobs[s] \in Nat /\ jobs'[s] \in Nat /\ jobs[s] <= jobs'[s]
         /\ \/ jobs' = jobs
            \/ InsertJob /\ Source \in Sources /\ jobs' = [jobs EXCEPT ![Source] = @ + 1]
<1>1. jobs \in [Sources -> Nat]
  BY DEF IInv, TypeOK
<1>2. CASE InsertJob
  <2>1. Source \in Sources
    BY <1>2, RowTyped DEF IInv, InsertJob, AtJobs
  <2>2. jobs' = jobs \/ jobs' = [jobs EXCEPT ![Source] = @ + 1]
    BY <1>2 DEF InsertJob
  <2>3. CASE jobs' = jobs
    BY <1>1, <2>3
  <2>4. CASE jobs' = [jobs EXCEPT ![Source] = @ + 1]
    <3>1. \A s \in Sources : jobs'[s] = IF s = Source THEN jobs[s] + 1 ELSE jobs[s]
      BY <1>1, <2>1, <2>4
    <3> QED
      BY <1>1, <1>2, <2>1, <2>4, <3>1
  <2> QED
    BY <2>2, <2>3, <2>4
<1>3. CASE ~InsertJob
  <2>1. jobs' = jobs
    BY <1>3 DEF Next, SeedStep, Start, FindUser, InsertUser, InsertProfile, FindJob,
      SeedApplication,
      SeedSavedJob, Crash, Register, Change, Withdraw, vars, tables
  <2> QED
    BY <1>1, <2>1
<1> QED
  BY <1>2, <1>3

\* The lists grow by ids of users and of jobs; a job's id is of a copy there is.
LEMMA ListsGrow ==
  ASSUME IInv, [Next]_vars
  PROVE  /\ \/ userIDs' = userIDs \/ userIDs' = <<>>
            \/ AtUsers /\ userIDs' = Append(userIDs, User.email)
         /\ \/ jobIDs' = jobIDs \/ jobIDs' = <<>>
            \/ AtJobs /\ \E k \in 1 .. MaxFaults + 1 :
                 k <= jobs'[Source] /\ jobIDs' = Append(jobIDs, <<Source, k>>)
<1>1. jobs \in [Sources -> 0 .. MaxFaults + 1] /\ CopiesNeedFaults /\ faults \in 0 .. MaxFaults
  BY DEF IInv, TypeOK, Copies
<1>2. CASE FindUser \/ InsertUser \/ InsertProfile
  BY <1>2 DEF FindUser, InsertUser, InsertProfile, Collect, LeaveUserOut, AtUsers
<1>3. CASE FindJob
  <2>1. AtJobs /\ Source \in Sources /\ jobs' = jobs
    BY <1>3, RowTyped DEF IInv, FindJob, AtJobs, tables
  <2> QED
    BY <1>1, <1>3, <2>1 DEF FindJob, CollectJob
<1>4. CASE InsertJob
  <2>1. AtJobs /\ Source \in Sources
    BY <1>4, RowTyped DEF IInv, InsertJob, AtJobs
  <2>2. CASE UNCHANGED jobIDs
    BY <1>4, <2>2 DEF InsertJob
  <2>3. CASE ~UNCHANGED jobIDs
    <3> DEFINE k == jobs[Source] + 1
    <3>1. /\ jobs' = [jobs EXCEPT ![Source] = @ + 1]
          /\ jobIDs' = Append(jobIDs, <<Source, k>>)
      BY <1>4, <2>3 DEF InsertJob, CollectJob
    <3>2. jobs[Source] <= faults
      BY <1>4 DEF IInv, Copies, InsertJob
    <3>3. k \in 1 .. MaxFaults + 1 /\ k <= jobs'[Source]
      BY <1>1, <2>1, <3>1, <3>2
    <3> HIDE DEF k
    <3> QED
      BY <1>4, <2>1, <3>1, <3>3 DEF InsertJob
  <2> QED
    BY <2>2, <2>3
<1>5. CASE Start
  BY <1>5 DEF Start
<1>6. CASE ~(FindUser \/ InsertUser \/ InsertProfile \/ FindJob \/ InsertJob \/ Start)
  BY <1>6 DEF Next, SeedStep, SeedApplication, SeedSavedJob, Crash, Register, Change, Withdraw,
    vars, lists
<1> QED
  BY <1>2, <1>3, <1>4, <1>5, <1>6

\* The pairs that applications and saved jobs can be written for.
LEMMA NamedTyped ==
  ASSUME IInv, NEW p \in Nat \X Nat, Known(p)
  PROVE  /\ Named(p) \in Pairs
         /\ Named(p)[1] = userIDs[p[1] + 1] /\ Named(p)[2] = jobIDs[p[2] + 1]
         /\ p[1] + 1 \in DOMAIN userIDs /\ p[2] + 1 \in DOMAIN jobIDs
<1>1. userIDs \in Seq(Emails) /\ jobIDs \in Seq(JobIds)
  BY DEF IInv, TypeOK
<1>2. Len(userIDs) \in Nat /\ Len(jobIDs) \in Nat /\ p[1] \in Nat /\ p[2] \in Nat
  BY <1>1, LenProperties
<1>3. p[1] + 1 \in 1..Len(userIDs) /\ p[2] + 1 \in 1..Len(jobIDs)
  BY <1>2 DEF Known
<1>4. userIDs[p[1] + 1] \in Emails /\ jobIDs[p[2] + 1] \in JobIds
  BY <1>1, <1>3, ElementOfSeq
<1>5. DOMAIN userIDs = 1..Len(userIDs) /\ DOMAIN jobIDs = 1..Len(jobIDs)
  BY <1>1, LenProperties
<1> QED
  BY <1>3, <1>4, <1>5 DEF Named, Pairs

\* Applications come from the table only, and are changed in place.
LEMMA ApplicationsChange ==
  ASSUME IInv, [Next]_vars
  PROVE  /\ apps' \in [Pairs -> {"none", "seeded", "edited"}]
         /\ \A q \in Pairs : apps'[q] # "none" =>
              \/ apps[q] # "none"
              \/ /\ SeedApplication
                 /\ Known(ApplicationRows[row]) /\ q = Named(ApplicationRows[row])
                 /\ shifted' = (shifted \/ lost)
         /\ \A q \in Pairs : apps[q] # "none" => apps'[q] # "none" \/ disturbed'
<1>1. apps \in [Pairs -> {"none", "seeded", "edited"}]
  BY DEF IInv, TypeOK
<1>2. CASE SeedApplication
  <2> DEFINE p == ApplicationRows[row]
  <2>1. CASE UNCHANGED apps
    BY <1>1, <2>1
  <2>2. CASE ~UNCHANGED apps
    <3>1. Known(p) /\ WriteApplication(Named(p)) /\ shifted' = (shifted \/ lost)
      BY <1>2, <2>2 DEF SeedApplication
    <3>2. p \in Nat \X Nat
      BY <1>2 DEF SeedApplication, IInv, InRange
    <3>3. Named(p) \in Pairs
      BY <3>1, <3>2, NamedTyped
    <3>4. apps' = [apps EXCEPT ![Named(p)] = "seeded"]
      BY <2>2, <3>1 DEF WriteApplication
    <3> QED
      BY <1>1, <1>2, <3>1, <3>3, <3>4
  <2> QED
    BY <2>1, <2>2
<1>3. ASSUME NEW p \in Pairs, Change(p) \/ Withdraw(p)
      PROVE  /\ apps' \in [Pairs -> {"none", "seeded", "edited"}]
             /\ \A q \in Pairs : apps'[q] # "none" => apps[q] # "none"
             /\ \A q \in Pairs : apps[q] # "none" => apps'[q] # "none" \/ disturbed'
  BY <1>1, <1>3 DEF Change, Withdraw
<1>4. CASE ~SeedApplication /\ \A p \in Pairs : ~Change(p) /\ ~Withdraw(p)
  <2>1. apps' = apps
    BY <1>4 DEF Next, SeedStep, Start, FindUser, InsertUser, InsertProfile, FindJob, InsertJob,
      SeedSavedJob, Crash, Register, vars, tables
  <2> QED
    BY <1>1, <2>1
<1> QED
  BY <1>2, <1>3, <1>4

LEMMA SavedGrow ==
  ASSUME IInv, [Next]_vars
  PROVE  \/ saved' = saved
         \/ /\ SeedSavedJob /\ Known(SavedRows[row]) /\ Named(SavedRows[row]) \in Pairs
            /\ saved' = saved \cup {Named(SavedRows[row])} /\ shifted' = (shifted \/ lost)
<1>1. CASE SeedSavedJob
  <2>1. SavedRows[row] \in Nat \X Nat
    BY <1>1 DEF SeedSavedJob, IInv, InRange
  <2>2. Known(SavedRows[row]) => Named(SavedRows[row]) \in Pairs
    BY <2>1, NamedTyped
  <2> QED
    BY <1>1, <2>2 DEF SeedSavedJob
<1>2. CASE ~SeedSavedJob
  BY <1>2 DEF Next, SeedStep, Start, FindUser, InsertUser, InsertProfile, FindJob, InsertJob,
    SeedApplication, Crash, Register, Change, Withdraw, vars, tables
<1> QED
  BY <1>1, <1>2

-----------------------------------------------------------------------------
(* The parts of the invariant, one after the other.                        *)

LEMMA SeedMoves ==
  /\ FindUser \/ InsertUser \/ InsertProfile => AtUsers /\ (NextUser \/ (AtUsers' /\ row' = row))
  /\ FindJob \/ InsertJob => AtJobs /\ (NextJob \/ (AtJobs' /\ row' = row))
<1>1. FindUser => AtUsers /\ (NextUser \/ (AtUsers' /\ row' = row))
  BY DEF FindUser, AtUsers
<1>2. InsertUser => AtUsers /\ (NextUser \/ (AtUsers' /\ row' = row))
  BY DEF InsertUser, LeaveUserOut, AtUsers
<1>3. InsertProfile => AtUsers /\ NextUser
  BY DEF InsertProfile, AtUsers
<1>4. FindJob => AtJobs /\ (NextJob \/ (AtJobs' /\ row' = row))
  BY DEF FindJob, AtJobs
<1>5. InsertJob => AtJobs /\ NextJob
  BY DEF InsertJob, AtJobs
<1> QED
  BY <1>1, <1>2, <1>3, <1>4, <1>5

LEMMA Apart == ~(AtUsers /\ AtJobs)
BY DEF AtUsers, AtJobs

LEMMA RangeKept == ASSUME IInv, [Next]_vars PROVE InRange' /\ row' \in Nat \ {0}
<1>1. InRange /\ row \in Nat \ {0}
  BY DEF IInv, TypeOK
<1>2. CASE FindUser \/ InsertUser \/ InsertProfile
  <2>1. CASE NextUser
    BY <1>1, <1>2, <2>1, SeedMoves, NextUserMoves
  <2>2. CASE ~NextUser
    <3>1. AtUsers /\ AtUsers' /\ row' = row
      BY <1>2, <2>2, SeedMoves
    <3> QED
      BY <1>1, <3>1 DEF InRange, AtUsers, AtJobs
  <2> QED
    BY <2>1, <2>2
<1>3. CASE FindJob \/ InsertJob
  <2>1. CASE NextJob
    BY <1>1, <1>3, <2>1, SeedMoves, NextJobMoves
  <2>2. CASE ~NextJob
    <3>1. AtJobs /\ AtJobs' /\ row' = row
      BY <1>3, <2>2, SeedMoves
    <3> QED
      BY <1>1, <3>1 DEF InRange, AtUsers, AtJobs
  <2> QED
    BY <2>1, <2>2
<1>4. CASE Start \/ Crash
  BY <1>4, TablesTyped DEF Start, Crash, InRange, AtUsers, AtJobs
<1>5. CASE SeedApplication
  <2>1. row \in 1..Len(ApplicationRows)
    BY <1>1, <1>5, TablesTyped DEF InRange, SeedApplication
  <2>2. Advance("application", "saved", Len(ApplicationRows))
    BY <1>5 DEF SeedApplication
  <2> QED
    BY <2>1, <2>2, TablesTyped DEF Advance, InRange, AtUsers, AtJobs
<1>6. CASE SeedSavedJob
  <2>1. row \in 1..Len(SavedRows)
    BY <1>1, <1>6, TablesTyped DEF InRange, SeedSavedJob
  <2>2. Advance("saved", "off", Len(SavedRows))
    BY <1>6 DEF SeedSavedJob
  <2> QED
    BY <2>1, <2>2, TablesTyped DEF Advance, InRange, AtUsers, AtJobs
<1>7. CASE UNCHANGED vars \/ (\E e \in Emails : Register(e))
           \/ (\E p \in Pairs : Change(p) \/ Withdraw(p))
  <2>1. UNCHANGED <<pc, row>>
    BY <1>7 DEF Register, Change, Withdraw, vars
  <2> QED
    BY <1>1, <2>1 DEF InRange, AtUsers, AtJobs
<1> QED
  BY <1>2, <1>3, <1>4, <1>5, <1>6, <1>7 DEF Next, SeedStep

LEMMA ListsTyped ==
  ASSUME IInv, [Next]_vars
  PROVE  userIDs' \in Seq(Emails) /\ jobIDs' \in Seq(JobIds)
<1>1. userIDs \in Seq(Emails) /\ jobIDs \in Seq(JobIds)
  BY DEF IInv, TypeOK
<1>2. AtUsers => User.email \in Emails
  BY RowTyped DEF IInv
<1>3. ASSUME NEW k \in 1 .. MaxFaults + 1, AtJobs PROVE <<Source, k>> \in JobIds
  BY <1>3, RowTyped DEF IInv, JobIds
<1>4. <<>> \in Seq(Emails) /\ <<>> \in Seq(JobIds)
  BY EmptySeq
<1>5. userIDs' \in Seq(Emails)
  <2>1. AtUsers => Append(userIDs, User.email) \in Seq(Emails)
    BY <1>1, <1>2
  <2> QED
    BY <1>1, <1>4, <2>1, ListsGrow, Zenon
<1>6. jobIDs' \in Seq(JobIds)
  <2>1. ASSUME NEW k \in 1 .. MaxFaults + 1, AtJobs, jobIDs' = Append(jobIDs, <<Source, k>>)
        PROVE  jobIDs' \in Seq(JobIds)
    BY <1>1, <1>3, <2>1
  <2>2. jobIDs' = jobIDs \/ jobIDs' = <<>> \/ \E k \in 1 .. MaxFaults + 1 :
          AtJobs /\ jobIDs' = Append(jobIDs, <<Source, k>>)
    BY ListsGrow
  <2> QED
    BY <1>1, <1>4, <2>1, <2>2
<1> QED
  BY <1>5, <1>6

LEMMA TypeKept == ASSUME IInv, [Next]_vars PROVE TypeOK' /\ CopiesNeedFaults'
<1>1. TypeOK /\ CopiesNeedFaults
  BY DEF IInv, Copies
<1>2. faults' \in 0 .. MaxFaults /\ runs' \in 0 .. MaxRuns /\ faults <= faults'
  <2>1. faults' = faults \/ Fault
    BY DEF Next, SeedStep, Start, FindUser, InsertUser, InsertProfile, FindJob, InsertJob,
      SeedApplication, SeedSavedJob, Crash, Register, Change, Withdraw, vars, NoFault
  <2>2. runs' = runs \/ (runs < MaxRuns /\ runs' = runs + 1)
    BY DEF Next, SeedStep, Start, FindUser, InsertUser, InsertProfile, FindJob, InsertJob,
      SeedApplication, SeedSavedJob, Crash, Register, Change, Withdraw, vars
  <2>3. faults \in 0 .. MaxFaults /\ runs \in 0 .. MaxRuns
    BY <1>1 DEF TypeOK
  <2> QED
    BY <2>1, <2>2, <2>3 DEF Fault
<1>3. CopiesNeedFaults'
  <2>1. SUFFICES ASSUME NEW s \in Sources PROVE jobs'[s] <= faults' + 1
    BY DEF CopiesNeedFaults
  <2>2. /\ jobs \in [Sources -> 0 .. MaxFaults + 1] /\ jobs[s] \in Nat /\ jobs[s] <= faults + 1
        /\ faults \in Nat /\ faults' \in Nat /\ faults <= faults'
    BY <1>1, <1>2 DEF TypeOK, CopiesNeedFaults
  <2>3. CASE InsertJob /\ s = Source /\ jobs' = [jobs EXCEPT ![Source] = @ + 1]
    <3>1. jobs[s] <= faults
      BY <2>3 DEF IInv, Copies, InsertJob
    <3>2. jobs'[s] = jobs[s] + 1
      BY <2>2, <2>3
    <3> QED
      BY <2>2, <3>1, <3>2
  <2>4. CASE jobs'[s] = jobs[s]
    BY <2>2, <2>4
  <2> QED
    BY <2>2, <2>3, <2>4, JobsGrow
<1>4. jobs' \in [Sources -> 0 .. MaxFaults + 1]
  <2>1. jobs' \in [Sources -> Nat]
    BY <1>1, JobsGrow DEF TypeOK
  <2> QED
    BY <1>2, <1>3, <2>1 DEF CopiesNeedFaults
<1>5. saved' \subseteq Pairs
  BY <1>1, SavedGrow DEF TypeOK
<1>6. profiles' \subseteq Emails /\ partial' \subseteq Emails
  <2>1. AtUsers => User.email \in Emails
    BY RowTyped DEF IInv
  <2> QED
    BY <1>1, <2>1 DEF TypeOK, Next, SeedStep, Start, FindUser, InsertUser, InsertProfile, FindJob,
      InsertJob, SeedApplication, SeedSavedJob, Crash, Register, Change, Withdraw, vars, tables,
      AtUsers
<1>7. {disturbed', lost', shifted'} \subseteq BOOLEAN
  BY <1>1 DEF TypeOK, Next, SeedStep, Start, FindUser, InsertUser, InsertProfile, FindJob,
    InsertJob,
    SeedApplication, SeedSavedJob, Crash, Register, Change, Withdraw, vars, Fault, NoFault,
    LeaveUserOut
<1>8. pc' \in {"off", "user", "insertUser", "profile", "job", "insertJob", "application", "saved"}
  BY <1>1 DEF TypeOK, Next, SeedStep, Start, FindUser, InsertUser, InsertProfile, FindJob,
    InsertJob,
    SeedApplication, SeedSavedJob, Crash, Register, Change, Withdraw, vars, LeaveUserOut,
    NextUser, NextJob, Advance
<1> QED
  BY <1>2, <1>3, <1>4, <1>5, <1>6, <1>7, <1>8, UsersStay, ApplicationsChange, ListsTyped, RangeKept
    DEF TypeOK

LEMMA LostDisturbs == ASSUME IInv, [Next]_vars PROVE (lost => disturbed)'
<1>1. lost => disturbed
  BY DEF IInv
<1>2. Fault \/ NoFault => (disturbed => disturbed')
  BY DEF Fault, NoFault
<1>3. CASE FindUser \/ FindJob \/ InsertProfile \/ SeedApplication \/ SeedSavedJob
  <2>1. (Fault \/ NoFault) /\ lost' = lost
    BY <1>3 DEF FindUser, FindJob, InsertProfile, SeedApplication, SeedSavedJob
  <2> QED
    BY <1>1, <1>2, <2>1
<1>4. CASE InsertUser
  BY <1>1, <1>4 DEF InsertUser, LeaveUserOut, Fault, NoFault
<1>5. CASE InsertJob
  <2>1. disturbed' = TRUE \/ (NoFault /\ lost' = lost)
    BY <1>5 DEF InsertJob, Fault
  <2> QED
    BY <1>1, <1>2, <2>1
<1>6. CASE Start
  BY <1>6 DEF Start
<1>7. ASSUME NEW p \in Pairs, Withdraw(p) PROVE (lost => disturbed)'
  BY <1>7 DEF Withdraw
<1>8. CASE UNCHANGED <<disturbed, lost>>
  BY <1>1, <1>8
<1>9. UNCHANGED vars \/ Crash \/ (\E e \in Emails : Register(e)) \/ (\E p \in Pairs : Change(p))
        => UNCHANGED <<disturbed, lost>>
  BY DEF Crash, Register, Change, vars
<1> QED
  BY <1>3, <1>4, <1>5, <1>6, <1>7, <1>8, <1>9 DEF Next, SeedStep

LEMMA CopiesKept == ASSUME IInv, [Next]_vars PROVE Copies'
<1>1. TypeOK /\ Copies
  BY DEF IInv
<1>2. CopiesNeedFaults'
  BY TypeKept
<1>3. ASSUME pc' = "insertJob"
      PROVE  jobs'[Source'] <= faults' /\ (~disturbed' => jobs'[Source'] = 0)
  <2>1. CASE FindJob
    <3>1. ~NextJob
      BY <1>3 DEF NextJob, Advance
    <3>2. /\ pc = "job" /\ row' = row /\ jobs' = jobs
          /\ (jobs[Source] = 0 /\ NoFault) \/ (jobs[Source] > 0 /\ Fault)
      BY <2>1, <3>1 DEF FindJob, tables
    <3>3. Source' = Source /\ Source \in Sources
      BY <3>2, RowTyped DEF Source, IInv, AtJobs
    <3>4. jobs[Source] \in Nat /\ jobs[Source] <= faults + 1 /\ faults \in Nat
      BY <1>1, <3>3 DEF TypeOK, Copies, CopiesNeedFaults
    <3> QED
      BY <3>2, <3>3, <3>4 DEF Fault, NoFault
  <2>2. CASE UNCHANGED <<pc, row, jobs, faults>> /\ (disturbed => disturbed')
    BY <1>1, <1>3, <2>2 DEF Copies, Source
  <2>3. CASE ~FindJob
    <3>1. ~(\/ FindUser \/ InsertUser \/ InsertProfile \/ InsertJob
            \/ SeedApplication \/ SeedSavedJob)
      BY <1>3 DEF FindUser, InsertUser, InsertProfile, InsertJob, SeedApplication, SeedSavedJob,
        LeaveUserOut, NextUser, NextJob, Advance
    <3>2. UNCHANGED <<pc, row, jobs, faults>> /\ (disturbed => disturbed')
      BY <1>3, <2>3, <3>1 DEF Next, SeedStep, Start, Crash, Register, Change, Withdraw, vars,
        tables
    <3> QED
      BY <2>2, <3>2
  <2> QED
    BY <2>1, <2>3
<1>4. \A s \in Sources : jobs[s] \in Nat /\ jobs'[s] \in Nat /\ jobs[s] <= jobs'[s]
  BY JobsGrow
<1>5. ASSUME NEW i \in DOMAIN jobIDs' PROVE jobIDs'[i][2] <= jobs'[jobIDs'[i][1]]
  <2>1. jobIDs \in Seq(JobIds)
    BY <1>1 DEF TypeOK
  <2>2. \A n \in DOMAIN jobIDs :
          jobIDs[n][1] \in Sources /\ jobIDs[n][2] \in Nat /\ jobIDs[n][2] <= jobs[jobIDs[n][1]]
    <3>1. ASSUME NEW n \in DOMAIN jobIDs PROVE jobIDs[n] \in JobIds
      BY <2>1, LenProperties, ElementOfSeq
    <3> QED
      BY <1>1, <3>1 DEF Copies, JobIds
  <2>3. CASE i \in DOMAIN jobIDs /\ jobIDs'[i] = jobIDs[i]
    BY <1>4, <2>2, <2>3
  <2>4. ASSUME NEW k \in Nat, k <= jobs'[Source], jobIDs'[i] = <<Source, k>>
        PROVE  jobIDs'[i][2] <= jobs'[jobIDs'[i][1]]
    BY <2>4
  <2>5. \/ i \in DOMAIN jobIDs /\ jobIDs'[i] = jobIDs[i]
        \/ \E k \in Nat : k <= jobs'[Source] /\ jobIDs'[i] = <<Source, k>>
    <3>1. CASE jobIDs' = jobIDs
      BY <3>1
    <3>2. CASE jobIDs' = <<>>
      BY <3>2
    <3>3. ASSUME NEW k \in 1 .. MaxFaults + 1, k <= jobs'[Source],
                 jobIDs' = Append(jobIDs, <<Source, k>>)
          PROVE  \/ i \in DOMAIN jobIDs /\ jobIDs'[i] = jobIDs[i]
                 \/ k <= jobs'[Source] /\ jobIDs'[i] = <<Source, k>>
      <4>1. /\ DOMAIN jobIDs = 1..Len(jobIDs) /\ Len(jobIDs) \in Nat
            /\ DOMAIN jobIDs' = 1..(Len(jobIDs) + 1)
            /\ \A n \in 1..Len(jobIDs) : jobIDs'[n] = jobIDs[n]
            /\ jobIDs'[Len(jobIDs) + 1] = <<Source, k>>
        BY <2>1, <3>3
      <4> QED
        BY <3>3, <4>1
    <3>4. jobIDs' = jobIDs \/ jobIDs' = <<>> \/ \E k \in 1 .. MaxFaults + 1 :
            k <= jobs'[Source] /\ jobIDs' = Append(jobIDs, <<Source, k>>)
      BY ListsGrow
    <3>5. 1 .. MaxFaults + 1 \subseteq Nat
      OBVIOUS
    <3> QED
      BY <3>1, <3>2, <3>3, <3>4, <3>5
  <2> QED
    BY <2>3, <2>4, <2>5
<1>6. ASSUME NEW q \in Pairs, apps'[q] # "none" \/ q \in saved' PROVE q[2][2] <= jobs'[q[2][1]]
  <2>1. q[2][1] \in Sources /\ q[2][2] \in Nat
    BY DEF Pairs, JobIds
  <2>2. q[2][2] <= jobs[q[2][1]] => q[2][2] <= jobs'[q[2][1]]
    BY <1>4, <2>1
  <2>3. CASE apps[q] # "none" \/ q \in saved
    BY <1>1, <2>3, <2>2 DEF Copies
  <2>4. ASSUME NEW p \in Nat \X Nat, Known(p), q = Named(p) PROVE q[2][2] <= jobs'[q[2][1]]
    <3>1. q[2] = jobIDs[p[2] + 1] /\ p[2] + 1 \in DOMAIN jobIDs
      BY <2>4, NamedTyped
    <3>2. q[2][2] <= jobs[q[2][1]]
      BY <1>1, <3>1 DEF Copies
    <3> QED
      BY <2>2, <3>2
  <2>5. CASE SeedApplication /\ Known(ApplicationRows[row]) /\ q = Named(ApplicationRows[row])
    <3>1. ApplicationRows[row] \in Nat \X Nat
      BY <2>5 DEF IInv, InRange, SeedApplication
    <3> QED
      BY <2>4, <2>5, <3>1
  <2>6. CASE SeedSavedJob /\ Known(SavedRows[row]) /\ q = Named(SavedRows[row])
    <3>1. SavedRows[row] \in Nat \X Nat
      BY <2>6 DEF IInv, InRange, SeedSavedJob
    <3> QED
      BY <2>4, <2>6, <3>1
  <2> QED
    BY <1>6, <2>3, <2>5, <2>6, ApplicationsChange, SavedGrow
<1> QED
  BY <1>2, <1>3, <1>5, <1>6 DEF Copies

\* Collected speaks of no other part of the run than its lists and its place.
LEMMA CollectedFrame ==
  ASSUME IInv, [Next]_vars, Collected, UNCHANGED lists,
         AtUsers' <=> AtUsers, AtJobs' <=> AtJobs, AtUsers \/ AtJobs => row' = row
  PROVE  Collected'
<1>1. userIDs' = userIDs /\ jobIDs' = jobIDs
  BY DEF lists
<1>2. \A n \in DOMAIN UserRows : UserRows[n].email \in Emails
  BY DEF Emails
<1>3. \A n \in DOMAIN JobRows : JobRows[n] \in Sources
  BY DEF Sources
<1>4. \A n : (UserDone(n)' <=> UserDone(n)) /\ (JobDone(n)' <=> JobDone(n))
  BY DEF UserDone, JobDone
<1>5. \A n \in DOMAIN UserRows : UserDone(n)' => users'[UserRows[n].email] # "absent"
  BY <1>2, <1>4, UsersStay DEF Collected
<1>6. \A n \in DOMAIN JobRows : JobDone(n)' => jobs'[JobRows[n]] > 0
  <2>1. \A m, n \in Nat : m > 0 /\ m <= n => n > 0
    OBVIOUS
  <2> QED
    BY <1>3, <1>4, <2>1, JobsGrow DEF Collected
<1> QED
  BY <1>1, <1>5, <1>6 DEF Collected

\* In a run that leaves nothing out, a row that is left behind is in the list
\* and in its table.
LEMMA UserCollected ==
  ASSUME IInv, [Next]_vars, FindUser \/ InsertUser \/ InsertProfile, ~lost'
  PROVE  /\ ~lost /\ AtUsers /\ jobIDs' = jobIDs
         /\ \/ NextUser /\ userIDs' = Append(userIDs, User.email) /\ users'[User.email] # "absent"
            \/ AtUsers' /\ row' = row /\ userIDs' = userIDs
<1>1. User.email \in Emails /\ users \in [Emails -> {"absent", "seeded", "registered"}]
  BY SeedMoves, RowTyped DEF IInv, TypeOK
<1>2. CASE FindUser
  <2>1. users' = users /\ lost' = lost /\ jobIDs' = jobIDs
    BY <1>2 DEF FindUser, tables
  <2> QED
    BY <1>2, <2>1 DEF FindUser, Collect, AtUsers
<1>3. CASE InsertUser
  <2>1. /\ AtUsers /\ jobIDs' = jobIDs /\ lost' = lost
        /\ \/ pc' = "profile" /\ row' = row /\ userIDs' = userIDs
           \/ /\ NextUser /\ userIDs' = Append(userIDs, User.email)
              /\ users' = [users EXCEPT ![User.email] = "seeded"]
    BY <1>3 DEF InsertUser, LeaveUserOut, Collect, AtUsers
  <2> QED
    BY <1>1, <2>1 DEF AtUsers
<1>4. CASE InsertProfile
  <2>1. users[User.email] = "seeded"
    BY <1>4 DEF IInv, Profiles, InsertProfile
  <2> QED
    BY <1>4, <2>1 DEF InsertProfile, Collect, AtUsers
<1> QED
  BY <1>2, <1>3, <1>4

LEMMA JobCollected ==
  ASSUME IInv, [Next]_vars, FindJob \/ InsertJob, ~lost'
  PROVE  /\ ~lost /\ AtJobs /\ userIDs' = userIDs
         /\ \/ NextJob /\ jobs'[Source] > 0 /\ \E k : jobIDs' = Append(jobIDs, <<Source, k>>)
            \/ AtJobs' /\ row' = row /\ jobIDs' = jobIDs
<1>1. Source \in Sources /\ jobs \in [Sources -> 0 .. MaxFaults + 1]
  BY SeedMoves, RowTyped DEF IInv, TypeOK
<1>2. CASE FindJob
  <2>1. jobs' = jobs /\ lost' = lost /\ userIDs' = userIDs /\ AtJobs
    BY <1>2 DEF FindJob, tables, AtJobs
  <2>2. CASE pc' = "insertJob" /\ row' = row /\ jobIDs' = jobIDs
    BY <2>1, <2>2 DEF AtJobs
  <2>3. ASSUME NEW k \in 1 .. jobs[Source], CollectJob(<<Source, k>>), NextJob
        PROVE  NextJob /\ jobs'[Source] > 0 /\ \E i : jobIDs' = Append(jobIDs, <<Source, i>>)
    BY <1>1, <2>1, <2>3 DEF CollectJob
  <2>4. \/ (\E k \in 1 .. jobs[Source] : CollectJob(<<Source, k>>)) /\ NextJob
        \/ pc' = "insertJob" /\ row' = row /\ jobIDs' = jobIDs
    BY <1>2 DEF FindJob
  <2>5. (\E k \in 1 .. jobs[Source] : CollectJob(<<Source, k>>)) /\ NextJob
          => NextJob /\ jobs'[Source] > 0 /\ \E i : jobIDs' = Append(jobIDs, <<Source, i>>)
    BY <2>3
  <2>6. pc' = "insertJob" => AtJobs'
    BY DEF AtJobs
  <2> QED
    BY <1>2, <2>1, <2>4, <2>5, <2>6
<1>3. CASE InsertJob
  <2>1. /\ AtJobs /\ userIDs' = userIDs /\ lost' = lost /\ NextJob
        /\ jobIDs' = Append(jobIDs, <<Source, jobs[Source] + 1>>)
        /\ jobs' = [jobs EXCEPT ![Source] = @ + 1]
    BY <1>3 DEF InsertJob, CollectJob, AtJobs
  <2> QED
    BY <1>1, <2>1
<1> QED
  BY <1>2, <1>3

LEMMA CollectedKept == ASSUME IInv, [Next]_vars, Running', ~lost' PROVE Collected'
<1>1. /\ userIDs \in Seq(Emails) /\ jobIDs \in Seq(JobIds) /\ InRange
      /\ Len(userIDs) \in Nat /\ DOMAIN userIDs = 1..Len(userIDs)
      /\ Len(jobIDs) \in Nat /\ DOMAIN jobIDs = 1..Len(jobIDs)
  BY LenProperties DEF IInv, TypeOK
<1>2. CASE Start
  BY <1>2 DEF Start, Collected, AtUsers, UserDone, JobDone
<1>3. CASE FindUser \/ InsertUser \/ InsertProfile
  <2>1. Collected
    BY <1>3, UserCollected DEF IInv, Running, AtUsers
  <2>2. CASE AtUsers' /\ row' = row /\ userIDs' = userIDs
    <3>1. AtUsers /\ UNCHANGED lists
      BY <1>3, <2>2, UserCollected DEF lists
    <3> QED
      BY <2>1, <2>2, <3>1, CollectedFrame DEF AtUsers, AtJobs
  <2>3. CASE NextUser /\ userIDs' = Append(userIDs, User.email) /\ users'[User.email] # "absent"
    <3>1. AtUsers /\ jobIDs' = jobIDs /\ row \in 1..Len(UserRows)
      BY <1>1, <1>3, UserCollected, TablesTyped DEF InRange
    <3>2. Len(userIDs) = row - 1 /\ Len(jobIDs) = 0
      BY <2>1, <3>1 DEF Collected
    <3>3. /\ Len(userIDs') = row /\ DOMAIN userIDs' = 1..row
          /\ \A i \in 1..row : userIDs'[i] = IF i = row THEN User.email ELSE userIDs[i]
      BY <1>1, <2>3, <3>1, <3>2
    <3>4. \A i \in DOMAIN userIDs' : userIDs'[i] = UserRows[i].email
      BY <1>1, <2>1, <3>1, <3>2, <3>3 DEF Collected, User
    <3>5. /\ \A n \in DOMAIN UserRows : UserDone(n)' <=> UserDone(n) \/ n = row
          /\ IF row < Len(UserRows) THEN AtUsers' /\ row' = row + 1
                                    ELSE row = Len(UserRows) /\ ~AtUsers' /\ AtJobs' /\ row' = 1
      BY <1>1, <2>3, <3>1, NextUserMoves
    <3>6. \A n \in DOMAIN UserRows : UserDone(n)' => users'[UserRows[n].email] # "absent"
      <4>1. ASSUME NEW n \in DOMAIN UserRows, UserDone(n)
            PROVE  users'[UserRows[n].email] # "absent"
        <5>1. users[UserRows[n].email] # "absent" /\ UserRows[n].email \in Emails
          BY <2>1, <4>1 DEF Collected, Emails
        <5> QED
          BY <5>1, UsersStay
      <4> QED
        BY <2>3, <3>5, <4>1 DEF User
    <3>7. ASSUME NEW n \in DOMAIN JobRows PROVE ~JobDone(n)'
      BY <3>5, TablesTyped DEF JobDone
    <3>8. /\ Len(userIDs') = IF AtUsers' THEN row' - 1 ELSE Len(UserRows)
          /\ Len(jobIDs') = IF AtUsers' THEN 0 ELSE IF AtJobs' THEN row' - 1 ELSE Len(JobRows)
      <4>1. Len(jobIDs') = 0 /\ row \in Nat
        BY <3>1, <3>2
      <4>2. CASE row < Len(UserRows)
        BY <3>3, <3>5, <4>1, <4>2
      <4>3. CASE ~(row < Len(UserRows))
        <5>1. row = Len(UserRows) /\ ~AtUsers' /\ AtJobs' /\ row' = 1
          BY <3>5, <4>3
        <5>2. Len(userIDs') = Len(UserRows)
          BY <3>3, <5>1
        <5>3. row' - 1 = 0
          BY <5>1
        <5> QED
          BY <4>1, <5>1, <5>2, <5>3
      <4> QED
        BY <4>2, <4>3
    <3>9. \A i \in DOMAIN jobIDs' : jobIDs'[i][1] = JobRows[i]
      BY <2>1, <3>1 DEF Collected
    <3> QED
      BY <3>4, <3>6, <3>7, <3>8, <3>9 DEF Collected
  <2> QED
    BY <1>3, <2>2, <2>3, UserCollected
<1>4. CASE FindJob \/ InsertJob
  <2>1. Collected
    BY <1>4, JobCollected DEF IInv, Running, AtJobs
  <2>2. CASE AtJobs' /\ row' = row /\ jobIDs' = jobIDs
    <3>1. AtJobs /\ UNCHANGED lists
      BY <1>4, <2>2, JobCollected DEF lists
    <3> QED
      BY <2>1, <2>2, <3>1, CollectedFrame DEF AtUsers, AtJobs
  <2>3. ASSUME NEW k, NextJob, jobs'[Source] > 0, jobIDs' = Append(jobIDs, <<Source, k>>)
        PROVE  Collected'
    <3>1. AtJobs /\ ~AtUsers /\ userIDs' = userIDs /\ row \in 1..Len(JobRows)
      BY <1>1, <1>4, JobCollected, TablesTyped, Apart DEF InRange
    <3>2. Len(userIDs) = Len(UserRows) /\ Len(jobIDs) = row - 1
      BY <2>1, <3>1 DEF Collected
    <3>3. /\ Len(jobIDs') = row /\ DOMAIN jobIDs' = 1..row
          /\ \A i \in 1..row : jobIDs'[i] = IF i = row THEN <<Source, k>> ELSE jobIDs[i]
      BY <1>1, <2>3, <3>1, <3>2
    <3>4. \A i \in DOMAIN jobIDs' : jobIDs'[i][1] = JobRows[i]
      BY <1>1, <2>1, <3>1, <3>2, <3>3 DEF Collected, Source
    <3>5. /\ \A n \in DOMAIN JobRows : JobDone(n)' <=> JobDone(n) \/ n = row
          /\ ~AtUsers'
          /\ IF row < Len(JobRows) THEN AtJobs' /\ row' = row + 1
                                   ELSE row = Len(JobRows) /\ ~AtJobs' /\ row' = 1
      BY <1>1, <2>3, <3>1, NextJobMoves
    <3>6. \A n \in DOMAIN JobRows : JobDone(n)' => jobs'[JobRows[n]] > 0
      <4>1. ASSUME NEW n \in DOMAIN JobRows, JobDone(n) PROVE jobs'[JobRows[n]] > 0
        <5>1. jobs[JobRows[n]] > 0 /\ JobRows[n] \in Sources
          BY <2>1, <4>1 DEF Collected, Sources
        <5>2. /\ jobs[JobRows[n]] \in Nat /\ jobs'[JobRows[n]] \in Nat
              /\ jobs[JobRows[n]] <= jobs'[JobRows[n]]
          BY <5>1, JobsGrow
        <5> QED
          BY <5>1, <5>2
      <4> QED
        BY <2>3, <3>5, <4>1 DEF Source
    <3>7. ASSUME NEW n \in DOMAIN UserRows PROVE users'[UserRows[n].email] # "absent"
      <4>1. users[UserRows[n].email] # "absent" /\ UserRows[n].email \in Emails
        BY <2>1, <3>1 DEF Collected, Emails, UserDone
      <4> QED
        BY <4>1, UsersStay
    <3>8. /\ Len(userIDs') = IF AtUsers' THEN row' - 1 ELSE Len(UserRows)
          /\ Len(jobIDs') = IF AtUsers' THEN 0 ELSE IF AtJobs' THEN row' - 1 ELSE Len(JobRows)
      <4>1. Len(userIDs') = Len(UserRows) /\ row \in Nat
        BY <3>1, <3>2
      <4>2. CASE row < Len(JobRows)
        BY <3>3, <3>5, <4>1, <4>2
      <4>3. CASE ~(row < Len(JobRows))
        BY <3>3, <3>5, <4>1, <4>3
      <4> QED
        BY <4>2, <4>3
    <3>9. \A i \in DOMAIN userIDs' : userIDs'[i] = UserRows[i].email
      BY <2>1, <3>1 DEF Collected
    <3> QED
      BY <3>4, <3>6, <3>7, <3>8, <3>9 DEF Collected
  <2> QED
    BY <1>4, <2>2, <2>3, JobCollected
<1>5. CASE ~(Start \/ FindUser \/ InsertUser \/ InsertProfile \/ FindJob \/ InsertJob)
  <2>1. lost' = lost /\ Running /\ UNCHANGED lists
    BY <1>5 DEF Next, SeedStep, SeedApplication, SeedSavedJob, Crash, Register, Change, Withdraw,
      vars, Running
  <2>2. Collected
    BY <2>1 DEF IInv
  <2>3. CASE SeedApplication \/ SeedSavedJob
    <3>1. ~AtUsers /\ ~AtJobs /\ ~AtUsers' /\ ~AtJobs'
      BY <2>3 DEF SeedApplication, SeedSavedJob, Advance, AtUsers, AtJobs
    <3> QED
      BY <2>1, <2>2, <3>1, CollectedFrame
  <2>4. CASE ~SeedApplication /\ ~SeedSavedJob
    <3>1. UNCHANGED <<pc, row>>
      BY <1>5, <2>4 DEF Next, SeedStep, Crash, Register, Change, Withdraw, vars, Running
    <3>2. (AtUsers' <=> AtUsers) /\ (AtJobs' <=> AtJobs)
      BY <3>1 DEF AtUsers, AtJobs
    <3> QED
      BY <2>1, <2>2, <3>1, <3>2, CollectedFrame
  <2> QED
    BY <2>3, <2>4
<1> QED
  BY <1>2, <1>3, <1>4, <1>5

-----------------------------------------------------------------------------
\* What a step leaves of the flags: only Start forgets, and nothing forgets a
\* shift.
LEMMA FlagsStay ==
  ASSUME [Next]_vars, IInv
  PROVE  /\ shifted => shifted'
         /\ ~disturbed' => ~disturbed \/ Start
<1>1. Fault \/ NoFault => (disturbed => disturbed')
  BY DEF Fault, NoFault
<1>2. CASE FindUser \/ FindJob \/ InsertProfile
  BY <1>1, <1>2 DEF FindUser, FindJob, InsertProfile
<1>3. CASE SeedApplication \/ SeedSavedJob
  <2>1. (Fault \/ NoFault) /\ (shifted' = (shifted \/ lost) \/ shifted' = shifted)
    BY <1>3 DEF SeedApplication, SeedSavedJob
  <2>2. shifted => shifted'
    BY <2>1, Zenon
  <2> QED
    BY <1>1, <2>1, <2>2, Zenon
<1>4. CASE InsertUser \/ InsertJob
  <2>1. (Fault \/ NoFault \/ disturbed' = TRUE) /\ shifted' = shifted
    BY <1>4 DEF InsertUser, InsertJob
  <2> QED
    BY <1>1, <2>1
<1>5. CASE Start
  BY <1>5 DEF Start
<1>6. CASE UNCHANGED vars \/ Crash \/ (\E e \in Emails : Register(e))
             \/ (\E p \in Pairs : Change(p) \/ Withdraw(p))
  BY <1>6 DEF Crash, Register, Change, Withdraw, vars
<1> QED
  BY <1>2, <1>3, <1>4, <1>5, <1>6 DEF Next, SeedStep

\* A run that has left nothing out knows the positions within the tables, and
\* finds there what the tables mean.
LEMMA NamedMeans ==
  ASSUME IInv, pc \in {"application", "saved"}, ~lost, NEW p \in Nat \X Nat
  PROVE  /\ Known(p) <=> InTables(p)
         /\ Known(p) => Means(p, Named(p))
<1>1. Collected /\ ~AtUsers /\ ~AtJobs
  BY DEF IInv, Running, AtUsers, AtJobs
<1>2. Len(userIDs) = Len(UserRows) /\ Len(jobIDs) = Len(JobRows)
  BY <1>1 DEF Collected
<1>3. ASSUME Known(p) PROVE Means(p, Named(p))
  <2>1. /\ Named(p)[1] = userIDs[p[1] + 1] /\ Named(p)[2] = jobIDs[p[2] + 1]
        /\ p[1] + 1 \in DOMAIN userIDs /\ p[2] + 1 \in DOMAIN jobIDs
    BY <1>3, NamedTyped
  <2> QED
    BY <1>1, <2>1 DEF Collected, Means
<1> QED
  BY <1>2, <1>3 DEF Known, InTables

\* In a run in which nothing has gone wrong, a row of the table of pairs is
\* written when its turn is over.
LEMMA RowWritten ==
  ASSUME IInv, [Next]_vars, ~disturbed'
  PROVE  /\ SeedApplication /\ InTables(ApplicationRows[row]) =>
              \E q \in Pairs : apps'[q] # "none" /\ Means(ApplicationRows[row], q)
         /\ SeedSavedJob /\ InTables(SavedRows[row]) =>
              \E q \in saved' : Means(SavedRows[row], q)
<1>1. ASSUME SeedApplication, InTables(ApplicationRows[row])
      PROVE  \E q \in Pairs : apps'[q] # "none" /\ Means(ApplicationRows[row], q)
  <2> DEFINE p == ApplicationRows[row]
  <2>1. p \in Nat \X Nat
    BY <1>1 DEF SeedApplication, IInv, InRange
  <2>2. ~Start /\ pc = "application"
    BY <1>1 DEF Start, SeedApplication
  <2>3. ~lost
    BY <2>2, FlagsStay DEF IInv
  <2>4. Known(p) /\ Means(p, Named(p)) /\ Named(p) \in Pairs
    BY <1>1, <2>1, <2>2, <2>3, NamedMeans, NamedTyped
  <2>5. ~Fault
    BY DEF Fault
  <2>6. WriteApplication(Named(p))
    BY <1>1, <2>4, <2>5 DEF SeedApplication
  <2>7. apps'[Named(p)] # "none"
    BY <2>4, <2>6 DEF WriteApplication, IInv, TypeOK
  <2> QED
    BY <2>4, <2>7
<1>2. ASSUME SeedSavedJob, InTables(SavedRows[row])
      PROVE  \E q \in saved' : Means(SavedRows[row], q)
  <2> DEFINE p == SavedRows[row]
  <2>1. p \in Nat \X Nat
    BY <1>2 DEF SeedSavedJob, IInv, InRange
  <2>2. ~Start /\ pc = "saved"
    BY <1>2 DEF Start, SeedSavedJob
  <2>3. ~lost
    BY <2>2, FlagsStay DEF IInv
  <2>4. Known(p) /\ Means(p, Named(p))
    BY <1>2, <2>1, <2>2, <2>3, NamedMeans
  <2>5. ~Fault
    BY DEF Fault
  <2>6. saved' = saved \cup {Named(p)}
    BY <1>2, <2>4, <2>5 DEF SeedSavedJob
  <2> QED
    BY <2>4, <2>6
<1> QED
  BY <1>1, <1>2

\* What was written for a row stays, in a run in which nothing goes wrong.
LEMMA WrittenStays ==
  ASSUME IInv, [Next]_vars, ~disturbed', NEW p
  PROVE  /\ (\E q \in Pairs : apps[q] # "none" /\ Means(p, q))
              => \E q \in Pairs : apps'[q] # "none" /\ Means(p, q)
         /\ (\E q \in saved : Means(p, q)) => \E q \in saved' : Means(p, q)
<1>1. \A q \in Pairs : apps[q] # "none" => apps'[q] # "none"
  BY ApplicationsChange
<1>2. saved \subseteq saved'
  BY SavedGrow
<1> QED
  BY <1>1, <1>2

LEMMA WrittenKept == ASSUME IInv, [Next]_vars, Running', ~disturbed' PROVE Written'
<1>1. CASE Start
  BY <1>1 DEF Start, Written, ApplicationDone
<1>2. CASE ~Start
  <2>1. Running
    BY <1>2 DEF Next, SeedStep, FindUser, InsertUser, InsertProfile, FindJob, InsertJob,
      SeedApplication, SeedSavedJob, Crash, Register, Change, Withdraw, vars, Running
  <2>2. Written
    BY <1>2, <2>1, FlagsStay DEF IInv
  <2>3. row \in Nat \ {0} /\ InRange
    BY DEF IInv, TypeOK
  <2>4. ASSUME NEW n \in DOMAIN ApplicationRows, ApplicationDone(n)', ~ApplicationDone(n)
        PROVE  SeedApplication /\ n = row
    <3>1. n \in 1..Len(ApplicationRows) /\ n \in Nat
      BY TablesTyped
    <3>2. CASE SeedApplication
      <4>1. /\ row \in 1..Len(ApplicationRows) /\ pc = "application"
            /\ Advance("application", "saved", Len(ApplicationRows))
        BY <2>3, <3>2, TablesTyped DEF SeedApplication, InRange
      <4> QED
        BY <2>4, <3>1, <3>2, <4>1, TablesTyped DEF Advance, ApplicationDone
    <3>3. CASE SeedSavedJob
      BY <2>4, <3>3 DEF SeedSavedJob, ApplicationDone
    <3>4. CASE FindUser \/ InsertUser \/ InsertProfile
      <4>1. pc' \notin {"application", "saved"}
        BY <3>4 DEF FindUser, InsertUser, InsertProfile, LeaveUserOut, NextUser, Advance
      <4> QED
        BY <2>4, <4>1 DEF ApplicationDone
    <3>5. CASE FindJob \/ InsertJob
      <4>1. pc' # "saved" /\ (pc' = "application" => row' = 1)
        BY <3>5 DEF FindJob, InsertJob, NextJob, Advance
      <4> QED
        BY <2>4, <3>1, <4>1 DEF ApplicationDone
    <3>6. CASE ~SeedStep
      <4>1. UNCHANGED <<pc, row>>
        BY <1>2, <3>6 DEF Next, Crash, Register, Change, Withdraw, vars, Running
      <4> QED
        BY <2>4, <4>1 DEF ApplicationDone
    <3> QED
      BY <3>2, <3>3, <3>4, <3>5, <3>6 DEF SeedStep
  <2>5. ASSUME NEW n \in DOMAIN SavedRows, pc' = "saved", n < row', ~(pc = "saved" /\ n < row)
        PROVE  SeedSavedJob /\ n = row
    <3>1. n \in 1..Len(SavedRows) /\ n \in Nat
      BY TablesTyped
    <3>2. CASE SeedSavedJob
      <4>1. row' = row + 1 /\ pc = "saved"
        BY <2>5, <3>2 DEF SeedSavedJob, Advance
      <4> QED
        BY <2>3, <2>5, <3>1, <3>2, <4>1
    <3>3. CASE SeedApplication
      <4>1. row' = 1
        BY <2>5, <3>3 DEF SeedApplication, Advance
      <4> QED
        BY <2>5, <3>1, <4>1
    <3>4. CASE FindUser \/ InsertUser \/ InsertProfile \/ FindJob \/ InsertJob
      BY <2>5, <3>4 DEF FindUser, InsertUser, InsertProfile, FindJob, InsertJob, LeaveUserOut,
        NextUser, NextJob, Advance
    <3>5. CASE ~SeedStep
      <4>1. UNCHANGED <<pc, row>>
        BY <1>2, <3>5 DEF Next, Crash, Register, Change, Withdraw, vars, Running
      <4> QED
        BY <2>5, <4>1
    <3> QED
      BY <3>2, <3>3, <3>4, <3>5 DEF SeedStep
  <2>6. ASSUME NEW n \in DOMAIN ApplicationRows, ApplicationDone(n)', InTables(ApplicationRows[n])
        PROVE  \E q \in Pairs : apps'[q] # "none" /\ Means(ApplicationRows[n], q)
    <3>1. CASE ApplicationDone(n)
      BY <2>2, <2>6, <3>1, WrittenStays DEF Written
    <3>2. CASE ~ApplicationDone(n)
      BY <2>4, <2>6, <3>2, RowWritten
    <3> QED
      BY <3>1, <3>2
  <2>7. ASSUME NEW n \in DOMAIN SavedRows, pc' = "saved", n < row', InTables(SavedRows[n])
        PROVE  \E q \in saved' : Means(SavedRows[n], q)
    <3>1. CASE pc = "saved" /\ n < row
      BY <2>2, <2>7, <3>1, WrittenStays DEF Written
    <3>2. CASE ~(pc = "saved" /\ n < row)
      BY <2>5, <2>7, <3>2, RowWritten
    <3> QED
      BY <3>1, <3>2
  <2> QED
    BY <2>6, <2>7 DEF Written, InTables, Means
<1> QED
  BY <1>1, <1>2

LEMMA ProfilesKept == ASSUME IInv, [Next]_vars PROVE Profiles'
<1> DEFINE mine == User.email
<1>1. /\ Profiles
      /\ users \in [Emails -> {"absent", "seeded", "registered"}]
      /\ profiles \subseteq Emails /\ partial \subseteq Emails
  BY DEF IInv, TypeOK
<1>2. pc = "profile" => mine \in Emails
  BY RowTyped DEF IInv, AtUsers
<1>3. CASE FindUser
  <2>1. pc # "profile" /\ pc' # "profile" /\ UNCHANGED <<users, profiles, partial>>
    BY <1>3 DEF FindUser, tables, NextUser, Advance
  <2> QED
    BY <1>1, <2>1 DEF Profiles, Owns
<1>4. CASE InsertUser
  <2>1. /\ mine \in Emails /\ pc = "insertUser" /\ profiles' = profiles
        /\ row \in DOMAIN UserRows
    BY <1>4, RowTyped DEF InsertUser, IInv, AtUsers, InRange
  <2>2. NextUser => pc' # "profile"
    BY DEF NextUser, Advance
  <2>3. CASE users' = users
    <3>1. pc' # "profile" /\ partial' = partial
      <4>1. users[mine] # "absent" \/ users'[mine] # "seeded"
        BY <2>3
      <4>2. users[mine] = "absent" => [users EXCEPT ![mine] = "seeded"][mine] = "seeded"
        BY <1>1, <2>1
      <4> QED
        BY <1>4, <2>2, <2>3, <4>1, <4>2 DEF InsertUser, LeaveUserOut
    <3> QED
      BY <1>1, <2>1, <2>3, <3>1 DEF Profiles, Owns
  <2>4. CASE users' # users
    <3>1. users[mine] = "absent" /\ users' = [users EXCEPT ![mine] = "seeded"]
      BY <1>4, <2>4 DEF InsertUser
    <3>2. mine \notin profiles /\ mine \notin partial /\ ~Owns(mine)
      BY <1>1, <2>1, <3>1 DEF Profiles, Owns
    <3>3. \/ User.role = "developer" /\ pc' = "profile" /\ row' = row /\ partial' = partial
          \/ User.role # "developer" /\ pc' # "profile" /\ partial' = partial
          \/ pc' # "profile" /\ partial' = partial \cup {mine}
      BY <1>4, <2>2, <2>4 DEF InsertUser, LeaveUserOut
    <3>4. \A e \in Emails : e # mine => users'[e] = users[e]
      BY <1>1, <2>1, <3>1
    <3>5. users'[mine] = "seeded"
      BY <1>1, <2>1, <3>1
    <3>6. Developer(mine) => User.role = "developer"
      BY <2>1 DEF Developer, User
    <3>7. pc' = "profile" => User' = User
      BY <3>3 DEF User
    <3>8. ASSUME NEW e \in Emails PROVE Owns(e)' <=> Owns(e)
      <4>1. CASE e = mine
        <5>1. ~Owns(e)'
          BY <3>3, <3>5, <3>6, <3>7, <4>1 DEF Owns
        <5> QED
          BY <3>2, <4>1, <5>1
      <4>2. CASE e # mine
        BY <2>1, <3>3, <3>4, <3>7, <4>2 DEF Owns
      <4> QED
        BY <4>1, <4>2
    <3>9. \A e \in partial' : users'[e] = "seeded"
      BY <1>1, <3>3, <3>4, <3>5 DEF Profiles
    <3>10. pc' = "profile" => users'[User'.email] = "seeded" /\ User'.role = "developer"
                               /\ User'.email \notin partial'
      BY <3>2, <3>3, <3>5, <3>7
    <3> QED
      BY <1>1, <2>1, <3>8, <3>9, <3>10 DEF Profiles
  <2> QED
    BY <2>3, <2>4
<1>5. CASE InsertProfile
  <2>1. /\ pc = "profile" /\ users' = users /\ pc' # "profile" /\ mine \in Emails
        /\ row \in DOMAIN UserRows
    BY <1>2, <1>5 DEF InsertProfile, NextUser, Advance, IInv, InRange, AtUsers
  <2>2. users[mine] = "seeded" /\ User.role = "developer" /\ mine \notin partial
    BY <1>1, <2>1 DEF Profiles
  <2>3. Developer(mine)
    BY <2>1, <2>2 DEF Developer, User
  <2>4. mine \notin profiles
    BY <1>1, <2>1, <2>2 DEF Profiles, Owns
  <2>5. \/ profiles' = profiles \cup {mine} /\ partial' = partial
        \/ profiles' = profiles /\ partial' = partial \cup {mine}
    BY <1>5 DEF InsertProfile
  <2>6. ASSUME NEW e \in Emails PROVE e \in profiles' <=> Owns(e)'
    <3>1. CASE e = mine
      BY <2>1, <2>2, <2>3, <2>4, <2>5, <3>1 DEF Owns, Developer
    <3>2. CASE e # mine
      <4>1. Owns(e)' <=> Owns(e)
        BY <2>1, <2>5, <3>2 DEF Owns
      <4> QED
        BY <1>1, <2>5, <3>2, <4>1 DEF Profiles
    <3> QED
      BY <3>1, <3>2
  <2>7. \A e \in partial' : users'[e] = "seeded"
    BY <1>1, <2>1, <2>2, <2>5 DEF Profiles
  <2> QED
    BY <2>1, <2>6, <2>7 DEF Profiles
<1>6. CASE FindJob \/ InsertJob \/ SeedApplication \/ SeedSavedJob \/ Start
  <2>1. pc # "profile" /\ pc' # "profile" /\ UNCHANGED <<users, profiles, partial>>
    BY <1>6 DEF FindJob, InsertJob, SeedApplication, SeedSavedJob, Start, tables, NextJob, Advance
  <2> QED
    BY <1>1, <2>1 DEF Profiles, Owns
<1>7. CASE Crash
  <2>1. /\ pc' = "off" /\ users' = users /\ profiles' = profiles
        /\ partial' = IF pc = "profile" THEN partial \cup {mine} ELSE partial
    BY <1>7 DEF Crash, tables
  <2>2. pc = "profile" => users[mine] = "seeded" /\ mine \notin profiles
    BY <1>1, <1>2 DEF Profiles, Owns
  <2>3. \A e \in Emails : Owns(e)' <=> Owns(e)
    BY <1>1, <1>2, <2>1, <2>2 DEF Owns
  <2>4. \A e \in partial' : users'[e] = "seeded"
    BY <1>1, <2>1, <2>2 DEF Profiles
  <2> QED
    BY <1>1, <2>1, <2>3, <2>4 DEF Profiles
<1>8. ASSUME NEW d \in Emails, Register(d) PROVE Profiles'
  <2>1. /\ users[d] = "absent" /\ users' = [users EXCEPT ![d] = "registered"]
        /\ profiles' = profiles \cup {d} /\ UNCHANGED <<pc, row, partial>>
    BY <1>8 DEF Register
  <2>2. pc = "profile" => mine # d
    BY <1>1, <2>1 DEF Profiles
  <2>3. \A e \in Emails : users'[e] = IF e = d THEN "registered" ELSE users[e]
    BY <1>1, <2>1
  <2>4. User' = User
    BY <2>1 DEF User
  <2>5. ASSUME NEW e \in Emails PROVE Owns(e)' <=> (Owns(e) \/ e = d)
    BY <2>1, <2>3, <2>4 DEF Owns
  <2>6. \A e \in partial' : users'[e] = "seeded"
    <3>1. d \notin partial
      BY <1>1, <2>1 DEF Profiles
    <3> QED
      BY <1>1, <2>1, <2>3, <3>1 DEF Profiles
  <2>7. pc' = "profile" => users'[User'.email] = "seeded" /\ User'.role = "developer"
                             /\ User'.email \notin partial'
    BY <1>1, <1>2, <2>1, <2>2, <2>3, <2>4 DEF Profiles
  <2> QED
    BY <1>1, <2>1, <2>5, <2>6, <2>7 DEF Profiles
<1>9. CASE UNCHANGED vars \/ \E p \in Pairs : Change(p) \/ Withdraw(p)
  <2>1. UNCHANGED <<users, profiles, partial, pc, row>>
    BY <1>9 DEF Change, Withdraw, vars, tables
  <2>2. User' = User
    BY <2>1 DEF User
  <2>3. \A e \in Emails : Owns(e)' <=> Owns(e)
    BY <2>1, <2>2 DEF Owns
  <2> QED
    BY <1>1, <2>1, <2>2, <2>3 DEF Profiles
<1> QED
  BY <1>3, <1>4, <1>5, <1>6, <1>7, <1>8, <1>9 DEF Next, SeedStep

LEMMA PositionsKept == ASSUME IInv, [Next]_vars PROVE PositionsMeanTheirRows'
<1> SUFFICES ASSUME ~shifted' PROVE
      /\ \A q \in Pairs : apps'[q] # "none"
           => \E n \in DOMAIN ApplicationRows :
                InTables(ApplicationRows[n]) /\ Means(ApplicationRows[n], q)
      /\ \A q \in saved' :
           \E n \in DOMAIN SavedRows : InTables(SavedRows[n]) /\ Means(SavedRows[n], q)
  BY DEF PositionsMeanTheirRows, InTables, Means
<1>1. ~shifted /\ PositionsMeanTheirRows
  BY FlagsStay DEF IInv
<1>2. CASE SeedApplication /\ Known(ApplicationRows[row]) /\ shifted' = (shifted \/ lost)
  <2>1. row \in DOMAIN ApplicationRows /\ ApplicationRows[row] \in Nat \X Nat /\ ~lost
        /\ pc = "application"
    BY <1>2 DEF SeedApplication, IInv, InRange
  <2>2. InTables(ApplicationRows[row]) /\ Means(ApplicationRows[row], Named(ApplicationRows[row]))
    BY <1>2, <2>1, NamedMeans
  <2>3. saved' = saved
    BY <1>2 DEF SeedApplication
  <2> QED
    BY <1>1, <2>1, <2>2, <2>3, ApplicationsChange DEF PositionsMeanTheirRows
<1>3. CASE SeedSavedJob /\ Known(SavedRows[row]) /\ shifted' = (shifted \/ lost)
  <2>1. row \in DOMAIN SavedRows /\ SavedRows[row] \in Nat \X Nat /\ ~lost /\ pc = "saved"
    BY <1>3 DEF SeedSavedJob, IInv, InRange
  <2>2. InTables(SavedRows[row]) /\ Means(SavedRows[row], Named(SavedRows[row]))
    BY <1>3, <2>1, NamedMeans
  <2>3. saved' = saved \/ saved' = saved \cup {Named(SavedRows[row])}
    BY SavedGrow
  <2>4. apps' = apps
    BY <1>3 DEF SeedSavedJob
  <2> QED
    BY <1>1, <2>1, <2>2, <2>3, <2>4 DEF PositionsMeanTheirRows
<1>4. CASE saved' = saved /\ \A q \in Pairs : apps'[q] # "none" => apps[q] # "none"
  BY <1>1, <1>4 DEF PositionsMeanTheirRows
<1> QED
  BY <1>2, <1>3, <1>4, ApplicationsChange, SavedGrow

LEMMA UsersFirstKept == ASSUME IInv, [Next]_vars PROVE UsersFirst'
<1> SUFFICES ASSUME ~shifted', saved' # {} \/ \E q \in Pairs : apps'[q] # "none"
             PROVE  pc' # "profile" /\ \A e \in Emails : users'[e] # "absent"
  BY DEF UsersFirst
<1>1. ~shifted
  BY FlagsStay
<1>2. pc # "profile" /\ \A e \in Emails : users[e] # "absent"
  <2>1. CASE saved # {} \/ \E q \in Pairs : apps[q] # "none"
    BY <1>1, <2>1 DEF IInv, UsersFirst
  <2>2. CASE ~(saved # {} \/ \E q \in Pairs : apps[q] # "none")
    <3>1. pc \in {"application", "saved"} /\ shifted' = (shifted \/ lost)
      BY <2>2, ApplicationsChange, SavedGrow DEF SeedApplication, SeedSavedJob
    <3>2. Collected /\ ~AtUsers
      BY <3>1 DEF IInv, Running, AtUsers
    <3>3. \A n \in DOMAIN UserRows : users[UserRows[n].email] # "absent"
      BY <3>2 DEF Collected, UserDone
    <3> QED
      BY <3>1, <3>3 DEF Emails
  <2> QED
    BY <2>1, <2>2
<1>3. \A e \in Emails : users'[e] # "absent"
  BY <1>2, UsersStay
<1>4. pc' # "profile"
  <2>1. CASE InsertUser
    <3>1. users[User.email] # "absent"
      BY <1>2, <2>1, RowTyped DEF InsertUser, IInv, AtUsers
    <3> QED
      BY <2>1, <3>1 DEF InsertUser, LeaveUserOut, NextUser, Advance
  <2>2. CASE ~InsertUser
    BY <1>2, <2>2 DEF Next, SeedStep, Start, FindUser, InsertProfile, FindJob, InsertJob,
      SeedApplication, SeedSavedJob, Crash, Register, Change, Withdraw, vars, NextUser, NextJob,
      Advance
  <2> QED
    BY <2>1, <2>2
<1> QED
  BY <1>3, <1>4

LEMMA StepKeeps == IInv /\ [Next]_vars => IInv'
<1> SUFFICES ASSUME IInv, [Next]_vars PROVE IInv'
  OBVIOUS
<1>1. TypeOK' /\ InRange' /\ Copies'
  BY TypeKept, RangeKept, CopiesKept
<1>2. /\ (lost => disturbed)'
      /\ (Running /\ ~lost => Collected)' /\ (Running /\ ~disturbed => Written)'
  BY LostDisturbs, CollectedKept, WrittenKept
<1>3. Profiles' /\ PositionsMeanTheirRows' /\ UsersFirst'
  BY ProfilesKept, PositionsKept, UsersFirstKept
<1> QED
  BY <1>1, <1>2, <1>3 DEF IInv

LEMMA Invariance == Spec => []IInv
BY InitHolds, StepKeeps, PTL DEF Spec

-----------------------------------------------------------------------------
\* Every reachable state is well typed.
THEOREM TypeCorrect == Spec => []TypeOK
<1>1. IInv => TypeOK
  BY DEF IInv
<1> QED
  BY <1>1, Invariance, PTL

\* However often the seeder is run, stopped or failing, and whatever users do
\* meanwhile: until a run that has left a row out of its lists writes pairs,
\* every pair in the tables is of the user and the job the table means.
THEOREM Positions == Spec => []PositionsMeanTheirRows
<1>1. IInv => PositionsMeanTheirRows
  BY DEF IInv
<1> QED
  BY <1>1, Invariance, PTL

\* A job has no more copies than one and the statements that failed.
THEOREM CopiesFollowFaults == Spec => []CopiesNeedFaults
<1>1. IInv => CopiesNeedFaults
  BY DEF IInv, Copies
<1> QED
  BY <1>1, Invariance, PTL

\* The users without a profile are those whose run was stopped or failing
\* between the two INSERTs, and they stay so.
THEOREM ProfilesStayMissing == Spec => []ProfilesAreNotRepaired
<1>1. IInv => ProfilesAreNotRepaired
  <2> SUFFICES ASSUME IInv PROVE ProfilesAreNotRepaired
    OBVIOUS
  <2> DEFINE written(m) ==
        /\ users[UserRows[m].email] = "seeded"
        /\ UserRows[m].role = "developer"
        /\ UserRows[m].email \notin partial
        /\ ~(pc = "profile" /\ m = row)
  <2>1. profiles \subseteq Emails /\ Profiles
    BY DEF IInv, TypeOK
  <2>2. pc = "profile" => row \in DOMAIN UserRows
    BY DEF IInv, InRange, AtUsers
  <2>3. ASSUME NEW e \in Emails
        PROVE  Owns(e) <=> \/ users[e] = "registered"
                           \/ \E m \in DOMAIN UserRows : UserRows[m].email = e /\ written(m)
    <3>1. PICK n \in DOMAIN UserRows : UserRows[n].email = e
      BY DEF Emails
    <3>2. \A m \in DOMAIN UserRows : UserRows[m].email = e => m = n
      BY <3>1
    <3>3. Developer(e) <=> UserRows[n].role = "developer"
      BY <3>1, <3>2 DEF Developer
    <3>4. pc = "profile" => (e = User.email <=> n = row)
      BY <2>2, <3>1, <3>2 DEF User
    <3> QED
      BY <3>1, <3>2, <3>3, <3>4 DEF Owns
  <2>4. \A e \in Emails : e \in profiles <=>
          users[e] = "registered" \/ \E m \in DOMAIN UserRows : UserRows[m].email = e /\ written(m)
    BY <2>1, <2>3 DEF Profiles
  <2>5. \A n \in DOMAIN UserRows : UserRows[n].email \in Emails
    BY DEF Emails
  <2>6. profiles = {e \in Emails : users[e] = "registered"} \cup
                   {UserRows[n].email : n \in {m \in DOMAIN UserRows : written(m)}}
    BY <2>1, <2>4, <2>5
  <2> QED
    BY <2>6 DEF ProfilesAreNotRepaired
<1> QED
  BY <1>1, Invariance, PTL

\* The last statement of a run in which nothing went wrong.
LEMMA LastStatement ==
  ASSUME IInv, [Next]_vars, SeedSavedJob, pc' = "off", ~disturbed'
  PROVE  Seeded'
<1>1. ~Start /\ pc = "saved" /\ UNCHANGED <<users, jobs, apps>>
  BY DEF Start, SeedSavedJob
<1>2. ~disturbed /\ ~lost
  BY <1>1, FlagsStay DEF IInv
<1>3. Collected /\ Written /\ ~AtUsers /\ ~AtJobs
  BY <1>1, <1>2 DEF IInv, Running, AtUsers, AtJobs
<1>4. \A e \in Emails : users'[e] # "absent"
  BY <1>1, <1>3 DEF Collected, UserDone, Emails
<1>5. \A s \in Sources : jobs'[s] > 0
  BY <1>1, <1>3 DEF Collected, JobDone, Sources
<1>6. ASSUME NEW n \in DOMAIN ApplicationRows, InTables(ApplicationRows[n])
      PROVE  \E q \in Pairs : apps'[q] # "none" /\ Means(ApplicationRows[n], q)
  BY <1>1, <1>3, <1>6 DEF Written, ApplicationDone
<1>7. ASSUME NEW n \in DOMAIN SavedRows, InTables(SavedRows[n])
      PROVE  \E q \in saved' : Means(SavedRows[n], q)
  <2>1. row = Len(SavedRows)
    <3>1. row \in 1..Len(SavedRows)
      BY <1>1, TablesTyped DEF IInv, InRange
    <3>2. ~(row < Len(SavedRows))
      BY DEF SeedSavedJob, Advance
    <3> QED
      BY <3>1, <3>2, TablesTyped, LastOrNot
  <2>2. CASE n < row
    BY <1>1, <1>3, <1>7, <2>2, WrittenStays DEF Written
  <2>3. CASE n = row
    BY <1>7, <2>3, RowWritten
  <2>4. n < row \/ n = row
    BY <2>1, TablesTyped, LastOrNot
  <2> QED
    BY <2>2, <2>3, <2>4
<1> QED
  BY <1>4, <1>5, <1>6, <1>7 DEF Seeded, InTables, Means

\* A run in which nothing goes wrong leaves everything there, for tables of
\* any length and after any history of broken runs.
THEOREM RunsComplete == Spec => RunCompletes
<1>1. IInv /\ [Next]_vars => [SeedSavedJob /\ pc' = "off" /\ ~disturbed' => Seeded']_vars
  BY LastStatement
<1> QED
  BY <1>1, Invariance, PTL DEF Spec, RunCompletes

\* Where every job is there once, an id in the list is the one id there is.
LEMMA OneId ==
  ASSUME IInv, pc \in {"application", "saved"}, ~lost, \A s \in Sources : jobs[s] = 1,
         NEW p \in Nat \X Nat, Known(p),
         NEW q \in Pairs, Means(p, q), apps[q] # "none" \/ q \in saved
  PROVE  q = Named(p)
<1>1. Named(p) \in Pairs /\ Means(p, Named(p))
  BY NamedMeans, NamedTyped
<1>2. Named(p)[1] = q[1] /\ Named(p)[2][1] = q[2][1]
  BY <1>1 DEF Means
<1>3. /\ q[2][1] \in Sources /\ q[2][2] \in 1 .. MaxFaults + 1
      /\ Named(p)[2][2] \in 1 .. MaxFaults + 1
  BY <1>1 DEF Pairs, JobIds
<1>4. q[2][2] <= 1
  BY <1>3 DEF IInv, Copies
<1>5. Named(p)[2][2] <= 1
  <2>1. Named(p)[2] = jobIDs[p[2] + 1] /\ p[2] + 1 \in DOMAIN jobIDs
    BY NamedTyped
  <2> QED
    BY <1>2, <1>3, <2>1 DEF IInv, Copies
<1>6. q[2][2] = Named(p)[2][2]
  BY <1>3, <1>4, <1>5
<1>7. \A b, c \in Pairs : b[1] = c[1] /\ b[2][1] = c[2][1] /\ b[2][2] = c[2][2] => b = c
  <2>1. \A b \in Pairs : b = <<b[1], b[2]>> /\ b[2] \in JobIds
    BY DEF Pairs
  <2>2. \A j \in JobIds : j = <<j[1], j[2]>>
    BY DEF JobIds
  <2> SUFFICES ASSUME NEW b \in Pairs, NEW c \in Pairs,
                      b[1] = c[1], b[2][1] = c[2][1], b[2][2] = c[2][2]
               PROVE  b = c
    OBVIOUS
  <2>3. b[2] = c[2]
    BY <2>1, <2>2
  <2> QED
    BY <2>1, <2>3
<1> QED
  BY <1>1, <1>2, <1>6, <1>7

LEMMA NothingToWrite ==
  ASSUME IInv, SeedStep, ~disturbed', ~shifted, Seeded, \A s \in Sources : jobs[s] = 1
  PROVE  UNCHANGED tables
<1>1. ~Start /\ [Next]_vars
  BY DEF Next, SeedStep, Start, FindUser, InsertUser, InsertProfile, FindJob, InsertJob,
    SeedApplication, SeedSavedJob
<1>2. ~disturbed /\ ~lost /\ ~Fault
  BY <1>1, FlagsStay DEF IInv, Fault
<1>3. CASE FindUser \/ FindJob
  BY <1>3 DEF FindUser, FindJob
<1>4. ~InsertUser
  <2> SUFFICES ASSUME InsertUser PROVE FALSE
    OBVIOUS
  <2>1. users[User.email] # "absent"
    BY RowTyped DEF Seeded, InsertUser, IInv, AtUsers
  <2> QED
    BY <1>2, <2>1 DEF InsertUser
<1>5. ~InsertProfile
  <2>1. \E q \in Pairs : apps[q] # "none"
    BY DEF Seeded
  <2> QED
    BY <2>1 DEF IInv, UsersFirst, InsertProfile
<1>6. ~InsertJob
  <2> SUFFICES ASSUME InsertJob PROVE FALSE
    OBVIOUS
  <2>1. Source \in Sources /\ pc = "insertJob"
    BY RowTyped DEF InsertJob, IInv, AtJobs
  <2>2. jobs[Source] = 0
    BY <1>2, <2>1 DEF IInv, Copies
  <2> QED
    BY <2>1, <2>2
<1>7. CASE SeedApplication
  <2> DEFINE p == ApplicationRows[row]
  <2>1. p \in Nat \X Nat /\ pc = "application" /\ row \in DOMAIN ApplicationRows
    BY <1>7 DEF SeedApplication, IInv, InRange
  <2>2. Known(p) => apps[Named(p)] # "none"
    <3> SUFFICES ASSUME Known(p) PROVE apps[Named(p)] # "none"
      OBVIOUS
    <3>1. InTables(p)
      BY <1>2, <2>1, NamedMeans
    <3>2. PICK q \in Pairs : apps[q] # "none" /\ Means(p, q)
      BY <2>1, <3>1 DEF Seeded
    <3> QED
      BY <1>2, <2>1, <3>2, OneId
  <2>3. apps' = apps
    BY <1>7, <2>2 DEF SeedApplication, WriteApplication
  <2> QED
    BY <1>7, <2>3 DEF SeedApplication, tables
<1>8. CASE SeedSavedJob
  <2> DEFINE p == SavedRows[row]
  <2>1. p \in Nat \X Nat /\ pc = "saved" /\ row \in DOMAIN SavedRows
    BY <1>8 DEF SeedSavedJob, IInv, InRange
  <2>2. Known(p) => Named(p) \in saved
    <3> SUFFICES ASSUME Known(p) PROVE Named(p) \in saved
      OBVIOUS
    <3>1. InTables(p)
      BY <1>2, <2>1, NamedMeans
    <3>2. PICK q \in saved : Means(p, q)
      BY <2>1, <3>1 DEF Seeded
    <3>3. q \in Pairs
      BY <3>2 DEF IInv, TypeOK
    <3> QED
      BY <1>2, <2>1, <3>2, <3>3, OneId
  <2>3. saved' = saved
    <3>1. saved' = saved \/ (Known(p) /\ saved' = saved \cup {Named(p)})
      BY <1>8 DEF SeedSavedJob
    <3>2. \A x \in saved : saved \cup {x} = saved
      OBVIOUS
    <3> QED
      BY <2>2, <3>1, <3>2, Zenon
  <2> QED
    BY <1>8, <2>3 DEF SeedSavedJob, tables
<1> QED
  BY <1>3, <1>4, <1>5, <1>6, <1>7, <1>8 DEF SeedStep

\* Once everything is there, once, a run in which nothing goes wrong changes
\* no table.
THEOREM RerunsWriteNothing == Spec => RerunWritesNothing
<1>1. IInv /\ [Next]_vars =>
        [SeedStep /\ ~disturbed' /\ ~shifted /\ Seeded /\ (\A s \in Sources : jobs[s] = 1)
           => UNCHANGED tables]_vars
  BY NothingToWrite
<1> QED
  BY <1>1, Invariance, PTL DEF Spec, RerunWritesNothing

=============================================================================
