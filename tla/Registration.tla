---------------------------- MODULE Registration ----------------------------
(***************************************************************************)
(* Registration (internal/service/auth_service.go, Register): the e-mail   *)
(* is looked up in one query; the user and the profile are then inserted   *)
(* in one transaction (internal/repository/postgres/user_repo.go).  The    *)
(* unique index on users.email makes an INSERT wait for an open            *)
(* transaction that inserted the same e-mail, and fail if that commits.    *)
(*                                                                         *)
(* Any statement may fail, and so may bcrypt; a COMMIT may report an error *)
(* whether or not it was done.                                             *)
(***************************************************************************)
EXTENDS Naturals

CONSTANTS
  Emails,
  Ids,        \* values uuid.New can draw for a user
  Requests,   \* requests the server may handle at one time
  NoEmail, NoId

ASSUME RegistrationAssumption ==
  /\ NoEmail \notin Emails
  /\ NoId \notin Ids

VARIABLES
  users,     \* users[i]: the e-mail of the committed users row i, or NoEmail
  profiles,  \* user ids of the committed developer_profiles rows
  used,      \* ids drawn so far
  req        \* req[r]: local state of request r

vars == <<users, profiles, used, req>>

Idle == [pc |-> "idle", email |-> NoEmail, id |-> NoId, holds |-> FALSE, code |-> 0]

\* holds: an open transaction of the request has inserted its e-mail.
RequestState ==
  [pc    : {"idle", "user", "profile", "commit", "rollback", "reply"},
   email : Emails \cup {NoEmail},
   id    : Ids \cup {NoId},
   holds : BOOLEAN,
   code  : {0, 201, 409, 500}]

Init ==
  /\ users = [i \in Ids |-> NoEmail]
  /\ profiles = {}
  /\ used = {}
  /\ req = [r \in Requests |-> Idle]

Registered(e) == \E i \in Ids : users[i] = e

\* Another open transaction has inserted e: the index makes the INSERT wait.
Locked(r, e) == \E q \in Requests \ {r} : req[q].holds /\ req[q].email = e

Goto(r, pc) == req' = [req EXCEPT ![r].pc = pc]

\* The deferred Rollback ends the transaction before the handler answers 500.
Fail(r) == req' = [req EXCEPT ![r].pc = "rollback", ![r].code = 500]

-----------------------------------------------------------------------------
Lookup(r, e) ==
  /\ req[r].pc = "idle"
  /\ \/ /\ Registered(e)
        /\ req' = [req EXCEPT ![r] = [Idle EXCEPT !.pc = "reply", !.email = e, !.code = 409]]
        /\ UNCHANGED used
     \/ /\ ~Registered(e)
        /\ \E i \in Ids \ used :
             /\ used' = used \cup {i}
             /\ req' = [req EXCEPT ![r] = [Idle EXCEPT !.pc = "user", !.email = e, !.id = i]]
     \/ \* the query, bcrypt or Begin failed
        /\ req' = [req EXCEPT ![r] = [Idle EXCEPT !.pc = "reply", !.email = e, !.code = 500]]
        /\ UNCHANGED used
  /\ UNCHANGED <<users, profiles>>

\* Mutants of InsertUser: no unique index; a statement that commits by itself;
\* an INSERT that is tried until the e-mail is free.
InsertAnyway(r) ==
  /\ req[r].pc = "user"
  /\ req' = [req EXCEPT ![r].pc = "profile", ![r].holds = TRUE]
  /\ UNCHANGED <<users, profiles, used>>

InsertAlone(r) ==
  /\ req[r].pc = "user"
  /\ \/ ~Registered(req[r].email) /\ Goto(r, "profile")
        /\ users' = [users EXCEPT ![req[r].id] = req[r].email]
     \/ Registered(req[r].email) /\ Fail(r) /\ UNCHANGED users
  /\ UNCHANGED <<profiles, used>>

InsertPatiently(r) ==
  /\ req[r].pc = "user"
  /\ ~Locked(r, req[r].email) /\ ~Registered(req[r].email)
  /\ req' = [req EXCEPT ![r].pc = "profile", ![r].holds = TRUE]
  /\ UNCHANGED <<users, profiles, used>>

\* The unique index refuses an e-mail that is there by now.
InsertUser(r) ==
  /\ req[r].pc = "user"
  /\ ~Locked(r, req[r].email)
  /\ \/ /\ ~Registered(req[r].email)
        /\ req' = [req EXCEPT ![r].pc = "profile", ![r].holds = TRUE]
     \/ Fail(r)
  /\ UNCHANGED <<users, profiles, used>>

\* The client has gone, and with it the context of the waiting INSERT: nothing
\* in the code makes this happen, so no fairness is assumed of it.
CancelInsert(r) ==
  /\ req[r].pc = "user"
  /\ Locked(r, req[r].email)
  /\ Fail(r)
  /\ UNCHANGED <<users, profiles, used>>

InsertProfile(r) ==
  /\ req[r].pc = "profile"
  /\ Goto(r, "commit") \/ Fail(r)
  /\ UNCHANGED <<users, profiles, used>>

\* Mutant of Commit: its error is not looked at.
CommitBlindly(r) ==
  /\ req[r].pc = "commit"
  /\ req' = [req EXCEPT ![r].pc = "reply", ![r].holds = FALSE, ![r].code = 201]
  /\ \/ /\ users' = [users EXCEPT ![req[r].id] = req[r].email]
        /\ profiles' = profiles \cup {req[r].id}
     \/ UNCHANGED <<users, profiles>>
  /\ UNCHANGED used

Commit(r) ==
  /\ req[r].pc = "commit"
  /\ \/ /\ users' = [users EXCEPT ![req[r].id] = req[r].email]
        /\ profiles' = profiles \cup {req[r].id}
        /\ req' \in {[req EXCEPT ![r].pc = "reply", ![r].holds = FALSE, ![r].code = code] :
                       code \in {201, 500}}
     \/ Fail(r) /\ UNCHANGED <<users, profiles>>
  /\ UNCHANGED used

Rollback(r) ==
  /\ req[r].pc = "rollback"
  /\ req' = [req EXCEPT ![r].pc = "reply", ![r].holds = FALSE]
  /\ UNCHANGED <<users, profiles, used>>

Answer(r) ==
  /\ req[r].pc = "reply"
  /\ req' = [req EXCEPT ![r] = Idle]
  /\ UNCHANGED <<users, profiles, used>>

\* The server dies; Postgres rolls its open transactions back.
Crash ==
  /\ \E r \in Requests : req[r] # Idle
  /\ req' = [r \in Requests |-> Idle]
  /\ UNCHANGED <<users, profiles, used>>

-----------------------------------------------------------------------------
Handle(r) ==
  InsertUser(r) \/ InsertProfile(r) \/ Commit(r) \/ Rollback(r) \/ Answer(r)

Next ==
  \/ \E r \in Requests :
       Handle(r) \/ CancelInsert(r) \/ \E e \in Emails : Lookup(r, e)
  \/ Crash

Spec == Init /\ [][Next]_vars

\* Handlers that are not waiting go on; Postgres serves those that wait for
\* one another's transaction in turn, so none is passed over for ever.
FairSpec ==
  Spec /\ \A r \in Requests : WF_vars(Handle(r)) /\ SF_vars(InsertUser(r))

-----------------------------------------------------------------------------
TypeOK ==
  /\ users \in [Ids -> Emails \cup {NoEmail}]
  /\ profiles \subseteq Ids
  /\ used \subseteq Ids
  /\ req \in [Requests -> RequestState]

\* Two registrations of one e-mail may both have found it free; the table
\* still ends up with one account for it.
OneAccountPerEmail ==
  \A i, j \in Ids : users[i] = users[j] /\ users[i] # NoEmail => i = j

\* No account without a profile and no profile without an account, whatever
\* statement fails and whenever the process dies.
AccountsAreWhole == \A i \in Ids : users[i] # NoEmail <=> i \in profiles

\* Who was answered 201 owns the account of the e-mail it gave: its password
\* logs in, and no concurrent registration has taken its place.
CreatedIsOwned ==
  \A r \in Requests :
    req[r].pc = "reply" /\ req[r].code = 201
      => \A i \in Ids : users[i] = req[r].email <=> i = req[r].id

\* Every registration ends: waiting for another's transaction is not for ever,
\* though no client need give up and nothing in the code limits the wait.
RegistrationEnds == \A r \in Requests : req[r].pc # "idle" ~> req[r].pc = "idle"

=============================================================================
