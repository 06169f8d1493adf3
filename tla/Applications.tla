---------------------------- MODULE Applications ----------------------------
(***************************************************************************)
(* The apply tracker: internal/service/application_service.go over the     *)
(* applications table (internal/repository/postgres/application_repo.go,   *)
(* migrations/000001_init_schema.up.sql).  UpdateStatus and Delete check   *)
(* the owner in one query and write in a second one, with no transaction   *)
(* around them, so requests interleave between the two.  One action is one *)
(* SQL statement with the code up to the next one.                         *)
(*                                                                         *)
(* A statement may fail without effect, or commit and still report an      *)
(* error (connection lost, request context cancelled).                     *)
(***************************************************************************)
EXTENDS Naturals

CONSTANTS
  Users,      \* authenticated users: the subject of the JWT
  Jobs,       \* rows of the jobs table (jobs are never removed from it)
  Apps,       \* values uuid.New can draw for an application
  Requests,   \* requests the server may handle at one time
  NoJob,      \* a well-formed job id with no row
  NoUser, NoApp, NoRow

Statuses == {"saved", "applied", "interview", "offer", "rejected"}

ASSUME ApplicationsAssumption ==
  /\ NoJob \notin Jobs
  /\ NoUser \notin Users
  /\ NoApp \notin Apps
  /\ NoRow \notin [user : Users, job : Jobs, status : Statuses]

VARIABLES
  rows,   \* rows[a]: the row whose id is a, or NoRow
  used,   \* ids drawn so far
  req     \* req[r]: local state of request r

vars == <<rows, used, req>>

Row == [user : Users, job : Jobs, status : Statuses]

Idle == [pc |-> "idle", op |-> "none", user |-> NoUser, app |-> NoApp,
         status |-> "saved", list |-> {}, code |-> 0]

RequestState ==
  [pc     : {"idle", "write", "reply"},
   op     : {"none", "create", "list", "update", "delete"},
   user   : Users \cup {NoUser},
   app    : Apps \cup {NoApp},
   status : Statuses \cup {"bogus"},    \* the status asked for
   list   : SUBSET Apps,                \* the rows of a list reply
   code   : {0, 200, 201, 400, 403, 404, 500}]

Init ==
  /\ rows = [a \in Apps |-> NoRow]
  /\ used = {}
  /\ req = [r \in Requests |-> Idle]

Begin(r, op, u, a, status, list, pc, code) ==
  req' = [req EXCEPT ![r] = [pc |-> pc, op |-> op, user |-> u, app |-> a,
                             status |-> status, list |-> list, code |-> code]]

Reply(r, code) == req' = [req EXCEPT ![r].pc = "reply", ![r].code = code]

\* An UPDATE or DELETE by id: it touches the row if there is one, and no row
\* is not an error.  After an error it may or may not have been committed.
Write(a, row, ok) ==
  \/ rows' = IF rows[a] = NoRow THEN rows ELSE [rows EXCEPT ![a] = row]
  \/ ~ok /\ UNCHANGED rows

-----------------------------------------------------------------------------
\* Mutant of NewId: an id is free again once its row is gone.
FreeId(a) == rows[a] = NoRow

NewId(a) == a \notin used      \* uuid.New

\* The INSERT: foreign key on jobs, UNIQUE(user_id, job_id).
Insertable(u, j) ==
  /\ j \in Jobs
  /\ \A a \in Apps : rows[a] # NoRow => ~(rows[a].user = u /\ rows[a].job = j)

Create(r, u, j) ==
  /\ req[r].pc = "idle"
  /\ \/ \E a \in Apps, code \in {201, 500} :
          /\ NewId(a)
          /\ Insertable(u, j)
          /\ used' = used \cup {a}
          /\ rows' = [rows EXCEPT ![a] = [user |-> u, job |-> j, status |-> "saved"]]
          /\ Begin(r, "create", u, a, "saved", {}, "reply", code)
     \/ /\ Begin(r, "create", u, NoApp, "saved", {}, "reply", 500)
        /\ UNCHANGED <<rows, used>>

\* Mutant of List: no WHERE user_id = $1.
ListAll(r, u) ==
  /\ req[r].pc = "idle"
  /\ Begin(r, "list", u, NoApp, "saved", {a \in Apps : rows[a] # NoRow}, "reply", 200)
  /\ UNCHANGED <<rows, used>>

\* One query; an error that ends the rows early is not looked at, so the
\* list may be cut short.
List(r, u) ==
  /\ req[r].pc = "idle"
  /\ \/ \E S \in SUBSET {a \in Apps : rows[a] # NoRow} :
          /\ \A a \in S : rows[a].user = u
          /\ Begin(r, "list", u, NoApp, "saved", S, "reply", 200)
     \/ Begin(r, "list", u, NoApp, "saved", {}, "reply", 500)
  /\ UNCHANGED <<rows, used>>

(* UpdateStatus and Delete: GetByID and the owner check ...                *)

MayWrite(u, a) == rows[a].user = u

Refuse(r, op, u, a, code) == Begin(r, op, u, a, "saved", {}, "reply", code)

CheckUpdate(r, u, a, status) ==
  /\ req[r].pc = "idle"
  /\ \/ Refuse(r, "update", u, a, 500)       \* the query failed, or there is no row
     \/ rows[a] # NoRow /\ ~MayWrite(u, a) /\ Refuse(r, "update", u, a, 403)
     \/ /\ rows[a] # NoRow /\ MayWrite(u, a)
        /\ \/ status \notin Statuses /\ Refuse(r, "update", u, a, 400)
           \/ status \in Statuses /\ Begin(r, "update", u, a, status, {}, "write", 0)
  /\ UNCHANGED <<rows, used>>

CheckDelete(r, u, a) ==
  /\ req[r].pc = "idle"
  /\ \/ Refuse(r, "delete", u, a, 500)       \* the query failed
     \/ rows[a] = NoRow /\ Refuse(r, "delete", u, a, 404)
     \/ rows[a] # NoRow /\ ~MayWrite(u, a) /\ Refuse(r, "delete", u, a, 403)
     \/ /\ rows[a] # NoRow /\ MayWrite(u, a)
        /\ Begin(r, "delete", u, a, "saved", {}, "write", 0)
  /\ UNCHANGED <<rows, used>>

(* ... and the write, by id alone.                                         *)

\* Mutant of WriteStatus: the application as it was read is stored whole, by an
\* INSERT ... ON CONFLICT DO UPDATE.
UpsertStatus(r) ==
  /\ req[r].pc = "write"
  /\ req[r].op = "update"
  /\ \E j \in Jobs :
       rows' = [rows EXCEPT ![req[r].app] =
                  [user |-> req[r].user, job |-> j, status |-> req[r].status]]
  /\ Reply(r, 200)
  /\ UNCHANGED used

WriteStatus(r) ==
  /\ req[r].pc = "write"
  /\ req[r].op = "update"
  /\ \E ok \in BOOLEAN :
       /\ Write(req[r].app, [rows[req[r].app] EXCEPT !.status = req[r].status], ok)
       /\ \/ ok /\ Reply(r, 200)
          \/ ~ok /\ Reply(r, 500)
  /\ UNCHANGED used

WriteDelete(r) ==
  /\ req[r].pc = "write"
  /\ req[r].op = "delete"
  /\ \/ Write(req[r].app, NoRow, TRUE) /\ Reply(r, 200)
     \/ Write(req[r].app, NoRow, FALSE) /\ Reply(r, 500)
  /\ UNCHANGED used

Answer(r) ==
  /\ req[r].pc = "reply"
  /\ req' = [req EXCEPT ![r] = Idle]
  /\ UNCHANGED <<rows, used>>

\* The server dies with every request in it; the table stays.
Crash ==
  /\ \E r \in Requests : req[r] # Idle
  /\ req' = [r \in Requests |-> Idle]
  /\ UNCHANGED <<rows, used>>

-----------------------------------------------------------------------------
\* An id nobody has drawn yet cannot be in a request; one whose row is gone can.
Submit(r) ==
  \E u \in Users :
    \/ \E j \in Jobs \cup {NoJob} : Create(r, u, j)
    \/ List(r, u)
    \/ \E a \in used, status \in Statuses \cup {"bogus"} : CheckUpdate(r, u, a, status)
    \/ \E a \in used : CheckDelete(r, u, a)

Next ==
  \/ \E r \in Requests : Submit(r) \/ WriteStatus(r) \/ WriteDelete(r) \/ Answer(r)
  \/ Crash

Spec == Init /\ [][Next]_vars

-----------------------------------------------------------------------------
TypeOK ==
  /\ rows \in [Apps -> Row \cup {NoRow}]
  /\ used \subseteq Apps
  /\ req \in [Requests -> RequestState]

\* Between the owner check and the write the row may be deleted, and a new
\* row may be created, but never under the same id: a row that exists changes
\* or disappears only through a request of its owner that named it
\* (README.md:15, "Своими заявками управляешь только ты").
OnlyTheOwnerChanges ==
  [][\A a \in Apps :
       rows[a] # NoRow /\ rows'[a] # rows[a]
         => \E r \in Requests :
              req'[r] # req[r] /\ req[r].app = a /\ req[r].user = rows[a].user]_vars

\* A list that is being sent names no row that is, by now, someone else's.
ListsShowOwnRows ==
  \A r \in Requests : \A a \in req[r].list :
    rows[a] # NoRow => rows[a].user = req[r].user

\* Once a delete has answered 200 or 404 the id stays gone: a concurrent
\* update that passed its check earlier does not bring the row back.
DeletedStaysDeleted ==
  \A r \in Requests :
    req[r].pc = "reply" /\ req[r].op = "delete" /\ req[r].code \in {200, 404}
      => rows[req[r].app] = NoRow

\* The row of an id as the life of a key: created once, for one owner.
Phase(a) == IF rows[a] # NoRow THEN "live" ELSE IF a \in used THEN "dead" ELSE "unused"

Life == INSTANCE OneLife WITH
  Holders <- Users, Keys <- Apps, Nobody <- NoUser,
  phase <- [a \in Apps |-> Phase(a)],
  holder <- [a \in Apps |-> IF rows[a] = NoRow THEN NoUser ELSE rows[a].user]

\* An application id is created once, keeps its owner as long as its row
\* exists, and is not created again after the row is gone.
IdHasOneLife == Life!Spec

=============================================================================
