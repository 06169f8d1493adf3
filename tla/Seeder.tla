------------------------------- MODULE Seeder -------------------------------
(***************************************************************************)
(* The seeder (cmd/seed/main.go): a program of its own that writes demo    *)
(* users, jobs, applications and saved jobs, each as a statement that      *)
(* commits by itself, while the API may be running.  It can be run again,  *)
(* and must be after it was stopped half way.  Applications and saved jobs *)
(* name users and jobs by their position in two lists of ids the run       *)
(* collects; a row that could not be written is left out of the list.      *)
(*                                                                         *)
(* A user's id is told by its e-mail, which is unique and never deleted.   *)
(* jobs.source_id is not unique: a job's id is its source id with a number *)
(* that tells copies apart.                                                *)
(***************************************************************************)
EXTENDS Naturals, Sequences

CONSTANTS
  UserRows,         \* sequence of [email, role]: the table users
  JobRows,          \* sequence of source ids: the table jobs
  ApplicationRows,  \* sequence of <<userIdx, jobIdx>>, from 0: the table applications
  SavedRows,        \* sequence of <<userIdx, jobIdx>>: the table pairs
  MaxFaults,        \* bound: statements that fail
  MaxRuns           \* bound: runs of the seeder

\* Positions within the tables, as all are that the program has.
InTables(p) == p[1] < Len(UserRows) /\ p[2] < Len(JobRows)

\* No two rows of a table are alike, and the tables are not empty.
ASSUME SeederAssumption ==
  /\ {Len(UserRows), Len(JobRows), Len(ApplicationRows), Len(SavedRows)} \subseteq Nat \ {0}
  /\ DOMAIN UserRows = 1..Len(UserRows) /\ DOMAIN JobRows = 1..Len(JobRows)
  /\ DOMAIN ApplicationRows = 1..Len(ApplicationRows) /\ DOMAIN SavedRows = 1..Len(SavedRows)
  /\ \A n \in DOMAIN UserRows : UserRows[n].role \in {"admin", "developer"}
  /\ \A m, n \in DOMAIN UserRows : UserRows[m].email = UserRows[n].email => m = n
  /\ \A m, n \in DOMAIN JobRows : JobRows[m] = JobRows[n] => m = n
  /\ \A n \in DOMAIN ApplicationRows : ApplicationRows[n] \in Nat \X Nat
  /\ \A n \in DOMAIN SavedRows : SavedRows[n] \in Nat \X Nat
  /\ \E n \in DOMAIN ApplicationRows : InTables(ApplicationRows[n])
  /\ MaxFaults \in Nat /\ MaxRuns \in Nat

Emails == {UserRows[n].email : n \in DOMAIN UserRows}
Sources == {JobRows[n] : n \in DOMAIN JobRows}
JobIds == Sources \X (1 .. MaxFaults + 1)
Pairs == Emails \X JobIds

VARIABLES
  users,     \* users[e]: "absent", "seeded" or "registered"
  profiles,  \* e-mails of the users with a profile
  jobs,      \* jobs[s]: rows of the jobs table with source id s
  apps,      \* apps[p]: "none", "seeded", or "edited" by its user
  saved,     \* pairs in saved_jobs
  pc, row,   \* the run: what it does next, on which row of its table
  userIDs, jobIDs,   \* the lists it has collected
  faults, runs,      \* statements that failed, runs begun
  disturbed, \* history: a statement of this run failed, or a user withdrew meanwhile
  lost,      \* history: this run left a user or a job out of its lists
  partial,   \* history: users whose profile was not written when they were inserted
  shifted    \* history: a run that had left one out went on to write pairs

tables == <<users, profiles, jobs, apps, saved>>
lists == <<userIDs, jobIDs>>
vars == <<tables, pc, row, lists, faults, runs, disturbed, lost, partial, shifted>>

Init ==
  /\ users = [e \in Emails |-> "absent"]
  /\ profiles = {}
  /\ jobs = [s \in Sources |-> 0]
  /\ apps = [p \in Pairs |-> "none"]
  /\ saved = {}
  /\ pc = "off" /\ row = 1
  /\ userIDs = <<>> /\ jobIDs = <<>>
  /\ faults = 0 /\ runs = 0
  /\ disturbed = FALSE /\ lost = FALSE /\ partial = {} /\ shifted = FALSE

Running == pc # "off"
User == UserRows[row]
Source == JobRows[row]

\* A statement of the run fails.
Fault ==
  /\ faults < MaxFaults
  /\ faults' = faults + 1
  /\ disturbed' = TRUE

NoFault == UNCHANGED <<faults, disturbed>>

\* On to the next row of the table, or to the first of the next table.
Advance(table, next, length) ==
  IF row < length THEN pc' = table /\ row' = row + 1 ELSE pc' = next /\ row' = 1

NextUser == Advance("user", "job", Len(UserRows))
NextJob == Advance("job", "application", Len(JobRows))

\* Mutant of Collect: the id drawn for the profile.
CollectProfile(id) == userIDs' = Append(userIDs, "id of the profile")

Collect(id) == userIDs' = Append(userIDs, id)

CollectJob(id) == jobIDs' = Append(jobIDs, id)

\* The error of an INSERT is logged, and the row has no place in the list.
LeaveUserOut == lost' = TRUE /\ NextUser /\ UNCHANGED userIDs

-----------------------------------------------------------------------------
\* Everything before the first table: the pool, its Ping and the hash may fail.
Start ==
  /\ pc = "off" /\ runs < MaxRuns
  /\ runs' = runs + 1
  /\ pc' = "user" /\ row' = 1
  /\ userIDs' = <<>> /\ jobIDs' = <<>>
  /\ disturbed' = FALSE /\ lost' = FALSE
  /\ UNCHANGED <<tables, faults, partial, shifted>>

\* Mutant of FindUser: the id of a user who is there is not collected.
ForgetUser ==
  /\ pc = "user"
  /\ NoFault
  /\ \/ users[User.email] # "absent" /\ NextUser
     \/ users[User.email] = "absent" /\ pc' = "insertUser" /\ UNCHANGED row
  /\ UNCHANGED <<tables, lists, runs, lost, partial, shifted>>

\* The error of the SELECT is thrown away: it looks as if there were no user.
FindUser ==
  /\ pc = "user"
  /\ \/ /\ users[User.email] # "absent"
        /\ Collect(User.email) /\ NextUser /\ NoFault
     \/ /\ \/ users[User.email] = "absent" /\ NoFault
           \/ users[User.email] # "absent" /\ Fault
        /\ pc' = "insertUser"
        /\ UNCHANGED <<row, userIDs>>
  /\ UNCHANGED <<tables, jobIDs, runs, lost, partial, shifted>>

\* Mutant of InsertUser: the role is not looked at.
InsertAnyUser ==
  /\ pc = "insertUser"
  /\ users[User.email] = "absent"
  /\ users' = [users EXCEPT ![User.email] = "seeded"]
  /\ pc' = "profile" /\ NoFault
  /\ UNCHANGED <<row, profiles, jobs, apps, saved, lists, runs, lost, partial, shifted>>

\* The unique e-mail refuses a user that is there by now; a failed INSERT may
\* have been committed all the same.
InsertUser ==
  /\ pc = "insertUser"
  /\ \/ /\ users[User.email] = "absent"
        /\ users' = [users EXCEPT ![User.email] = "seeded"]
        /\ \/ NoFault /\ User.role = "developer" /\ pc' = "profile"
              /\ UNCHANGED <<row, userIDs, lost, partial>>
           \/ NoFault /\ User.role # "developer" /\ Collect(User.email) /\ NextUser
              /\ UNCHANGED <<lost, partial>>
           \/ Fault /\ LeaveUserOut /\ partial' = partial \cup {User.email}
     \/ /\ users[User.email] # "absent" /\ disturbed' = TRUE /\ LeaveUserOut
        /\ UNCHANGED <<users, faults, partial>>
     \/ Fault /\ LeaveUserOut /\ UNCHANGED <<users, partial>>
  /\ UNCHANGED <<profiles, jobs, apps, saved, jobIDs, runs, shifted>>

InsertProfile ==
  /\ pc = "profile"
  /\ \/ profiles' = profiles \cup {User.email} /\ (NoFault \/ Fault) /\ UNCHANGED partial
     \/ Fault /\ partial' = partial \cup {User.email} /\ UNCHANGED profiles
  /\ Collect(User.email) /\ NextUser
  /\ UNCHANGED <<users, jobs, apps, saved, jobIDs, runs, lost, shifted>>

-----------------------------------------------------------------------------
\* Mutant of FindJob: nobody looks.
FindNoJob ==
  /\ pc = "job"
  /\ pc' = "insertJob"
  /\ NoFault
  /\ UNCHANGED <<tables, row, lists, runs, lost, partial, shifted>>

\* Of several copies the SELECT returns any.
FindJob ==
  /\ pc = "job"
  /\ \/ /\ \E k \in 1 .. jobs[Source] : CollectJob(<<Source, k>>)
        /\ NextJob /\ NoFault
     \/ /\ \/ jobs[Source] = 0 /\ NoFault
           \/ jobs[Source] > 0 /\ Fault
        /\ pc' = "insertJob"
        /\ UNCHANGED <<row, jobIDs>>
  /\ UNCHANGED <<tables, userIDs, runs, lost, partial, shifted>>

InsertJob ==
  /\ pc = "insertJob"
  /\ NextJob
  /\ \/ /\ jobs' = [jobs EXCEPT ![Source] = @ + 1]
        /\ \/ NoFault /\ CollectJob(<<Source, jobs[Source] + 1>>) /\ UNCHANGED lost
           \/ Fault /\ lost' = TRUE /\ UNCHANGED jobIDs
     \/ Fault /\ lost' = TRUE /\ UNCHANGED <<jobs, jobIDs>>
  /\ UNCHANGED <<users, profiles, apps, saved, userIDs, runs, partial, shifted>>

-----------------------------------------------------------------------------
\* Positions beyond the lists are passed over.  The mutant passes over the
\* last one too.
KnownBeforeLast(p) == p[1] + 1 < Len(userIDs) /\ p[2] + 1 < Len(jobIDs)

Known(p) == p[1] < Len(userIDs) /\ p[2] < Len(jobIDs)

Named(p) == <<userIDs[p[1] + 1], jobIDs[p[2] + 1]>>

\* ON CONFLICT DO NOTHING.
WriteApplication(p) ==
  apps' = IF apps[p] = "none" THEN [apps EXCEPT ![p] = "seeded"] ELSE apps

SeedApplication ==
  /\ pc = "application"
  /\ Advance("application", "saved", Len(ApplicationRows))
  /\ LET p == ApplicationRows[row] IN
     \/ Known(p) /\ WriteApplication(Named(p)) /\ (NoFault \/ Fault)
        /\ shifted' = (shifted \/ lost)
     \/ Known(p) /\ Fault /\ UNCHANGED <<apps, shifted>>
     \/ ~Known(p) /\ NoFault /\ UNCHANGED <<apps, shifted>>
  /\ UNCHANGED <<users, profiles, jobs, saved, lists, runs, lost, partial>>

SeedSavedJob ==
  /\ pc = "saved"
  /\ Advance("saved", "off", Len(SavedRows))
  /\ LET p == SavedRows[row] IN
     \/ Known(p) /\ saved' = saved \cup {Named(p)} /\ (NoFault \/ Fault)
        /\ shifted' = (shifted \/ lost)
     \/ Known(p) /\ Fault /\ UNCHANGED <<saved, shifted>>
     \/ ~Known(p) /\ NoFault /\ UNCHANGED <<saved, shifted>>
  /\ UNCHANGED <<users, profiles, jobs, apps, lists, runs, lost, partial>>

\* The process is killed.
Crash ==
  /\ Running
  /\ pc' = "off" /\ row' = 1
  /\ partial' = IF pc = "profile" THEN partial \cup {User.email} ELSE partial
  /\ UNCHANGED <<tables, lists, faults, runs, disturbed, lost, shifted>>

-----------------------------------------------------------------------------
(* The API beside it: registration (Registration), the users' own changes  *)
(* of their applications (Applications).                                   *)

Register(e) ==
  /\ users[e] = "absent"
  /\ users' = [users EXCEPT ![e] = "registered"]
  /\ profiles' = profiles \cup {e}
  /\ UNCHANGED <<jobs, apps, saved, pc, row, lists, faults, runs, disturbed, lost, partial, shifted>>

Change(p) ==
  /\ apps[p] = "seeded"
  /\ apps' = [apps EXCEPT ![p] = "edited"]
  /\ UNCHANGED <<users, profiles, jobs, saved, pc, row, lists, faults, runs, disturbed, lost, partial, shifted>>

Withdraw(p) ==
  /\ apps[p] # "none"
  /\ apps' = [apps EXCEPT ![p] = "none"]
  /\ disturbed' = TRUE
  /\ UNCHANGED <<users, profiles, jobs, saved, pc, row, lists, faults, runs, lost, partial, shifted>>

-----------------------------------------------------------------------------
SeedStep ==
  \/ FindUser \/ InsertUser \/ InsertProfile
  \/ FindJob \/ InsertJob
  \/ SeedApplication \/ SeedSavedJob

Next ==
  \/ Start \/ SeedStep \/ Crash
  \/ \E e \in Emails : Register(e)
  \/ \E p \in Pairs : Change(p) \/ Withdraw(p)

Spec == Init /\ [][Next]_vars

-----------------------------------------------------------------------------
TypeOK ==
  /\ users \in [Emails -> {"absent", "seeded", "registered"}]
  /\ profiles \subseteq Emails
  /\ jobs \in [Sources -> 0 .. MaxFaults + 1]
  /\ apps \in [Pairs -> {"none", "seeded", "edited"}]
  /\ saved \subseteq Pairs
  /\ pc \in {"off", "user", "insertUser", "profile", "job", "insertJob", "application", "saved"}
  /\ row \in Nat \ {0}
  /\ userIDs \in Seq(Emails) /\ jobIDs \in Seq(JobIds)
  /\ faults \in 0 .. MaxFaults /\ runs \in 0 .. MaxRuns
  /\ {disturbed, lost, shifted} \subseteq BOOLEAN
  /\ partial \subseteq Emails

\* What the tables of the program mean: users by e-mail, jobs by source id.
Means(p, q) == q[1] = UserRows[p[1] + 1].email /\ q[2][1] = JobRows[p[2] + 1]

\* Applications and saved jobs name users and jobs by position only.  They
\* still reach the user and the job they mean, in every run and after any
\* number of broken ones, unless a run has left a row out of its lists and
\* gone on (main.go:188, 694): from there on every later position is wrong.
PositionsMeanTheirRows ==
  ~shifted =>
    /\ \A q \in Pairs : apps[q] # "none"
         => \E n \in DOMAIN ApplicationRows :
              InTables(ApplicationRows[n]) /\ Means(ApplicationRows[n], q)
    /\ \A q \in saved :
         \E n \in DOMAIN SavedRows : InTables(SavedRows[n]) /\ Means(SavedRows[n], q)

\* Everything the tables ask for is there.
Seeded ==
  /\ \A e \in Emails : users[e] # "absent"
  /\ \A s \in Sources : jobs[s] > 0
  /\ \A n \in DOMAIN ApplicationRows : InTables(ApplicationRows[n])
       => \E q \in Pairs : apps[q] # "none" /\ Means(ApplicationRows[n], q)
  /\ \A n \in DOMAIN SavedRows : InTables(SavedRows[n])
       => \E q \in saved : Means(SavedRows[n], q)

\* A run in which nothing goes wrong completes whatever earlier runs left,
\* wherever they were stopped and whatever failed in them.
RunCompletes ==
  [][SeedSavedJob /\ pc' = "off" /\ ~disturbed' => Seeded']_vars

\* Once everything is there, once, a further run writes nothing, as long as
\* none of its statements fails.
RerunWritesNothing ==
  [][SeedStep /\ ~disturbed' /\ ~shifted /\ Seeded /\ (\A s \in Sources : jobs[s] = 1)
       => UNCHANGED tables]_vars

\* The one exception to RunCompletes: a profile is written in the run that
\* inserts its user or never.  A run stopped or failing between the two
\* INSERTs leaves a user without a profile, and no later run repairs it.
ProfilesAreNotRepaired ==
  profiles =
    {e \in Emails : users[e] = "registered"} \cup
    {UserRows[n].email : n \in {m \in DOMAIN UserRows :
       /\ users[UserRows[m].email] = "seeded"
       /\ UserRows[m].role = "developer"
       /\ UserRows[m].email \notin partial
       /\ ~(pc = "profile" /\ m = row)}}

\* jobs.source_id is not unique: a SELECT that fails for a job that is there
\* makes a second copy of it.  There are no other copies.
CopiesNeedFaults == \A s \in Sources : jobs[s] <= faults + 1

=============================================================================
