------------------------- MODULE RegistrationProofs -------------------------
(***************************************************************************)
(* What Registration promises for any e-mails, ids and number of requests: *)
(* one account per e-mail, each with its profile, and a 201 only for the   *)
(* owner of the account.  The argument is the unique index: an e-mail held *)
(* by an open transaction is neither committed nor held by another.        *)
(***************************************************************************)
EXTENDS Registration, TLAPS

USE RegistrationAssumption

Open(s) == s.pc \in {"user", "profile", "commit"}

\* What the local state of a request says of the tables.
Sound(s) ==
  /\ Open(s) => s.email \in Emails /\ s.id \in used /\ users[s.id] = NoEmail
  /\ s.pc \in {"profile", "commit"} => s.holds
  /\ s.holds => /\ s.pc \in {"profile", "commit", "rollback"}
                /\ s.email \in Emails /\ ~Registered(s.email)
  /\ s.pc = "rollback" => s.code = 500
  /\ s.pc = "reply" /\ s.code = 201
       => s.email \in Emails /\ s.id \in Ids /\ users[s.id] = s.email

\* Two requests draw different ids and hold different e-mails.
Apart(s, t) ==
  /\ Open(s) /\ Open(t) => s.id # t.id
  /\ s.holds /\ t.holds => s.email # t.email

IInv ==
  /\ TypeOK
  /\ OneAccountPerEmail
  /\ AccountsAreWhole
  /\ \A i \in Ids : users[i] # NoEmail => i \in used
  /\ \A r \in Requests : Sound(req[r])
  /\ \A q, r \in Requests : q # r => Apart(req[q], req[r])

LEMMA IdleSound == Idle \in RequestState /\ Sound(Idle) /\ \A s : Apart(Idle, s) /\ Apart(s, Idle)
BY DEF Idle, RequestState, Sound, Open, Apart

LEMMA InitHolds == Init => IInv
<1> SUFFICES ASSUME Init PROVE IInv
  OBVIOUS
<1>1. \A r \in Requests : req[r] = Idle
  BY DEF Init
<1>2. \A q, r \in Requests : Sound(req[r]) /\ Apart(req[q], req[r])
  BY <1>1, IdleSound
<1>3. req \in [Requests -> RequestState]
  BY IdleSound DEF Init
<1> QED
  BY <1>2, <1>3 DEF Init, IInv, TypeOK, OneAccountPerEmail, AccountsAreWhole

\* A step of one request that leaves the tables alone.
LEMMA QuietStep ==
  ASSUME IInv, NEW r \in Requests, NEW s \in RequestState,
         req' = [req EXCEPT ![r] = s],
         UNCHANGED <<users, profiles>>, used \subseteq used', used' \subseteq Ids,
         Sound(s)', \A q \in Requests \ {r} : Apart(s, req[q]) /\ Apart(req[q], s)
  PROVE  IInv'
<1>1. req' \in [Requests -> RequestState]
  BY DEF IInv, TypeOK
<1>2. /\ req'[r] = s
      /\ \A q \in Requests \ {r} : req'[q] = req[q]
  BY DEF IInv, TypeOK
<1>3. ASSUME NEW q \in Requests \ {r} PROVE Sound(req[q])'
  <2>1. Sound(req[q])
    BY DEF IInv
  <2> QED
    BY <2>1, <1>2 DEF Sound, Registered
<1>4. Sound(req[r])'
  BY <1>2 DEF Sound, Registered
<1>5. \A p, q \in Requests : p # q => Apart(req'[p], req'[q])
  BY <1>2 DEF IInv
<1>6. TypeOK'
  BY <1>1 DEF IInv, TypeOK
<1>7. OneAccountPerEmail' /\ AccountsAreWhole' /\ \A i \in Ids : users'[i] # NoEmail => i \in used'
  BY DEF IInv, OneAccountPerEmail, AccountsAreWhole
<1>8. \A q \in Requests : Sound(req[q])'
  BY <1>3, <1>4
<1>9. \A p, q \in Requests : p # q => Apart(req[p], req[q])'
  BY <1>5 DEF Apart, Open
<1> QED
  BY <1>6, <1>7, <1>8, <1>9 DEF IInv

Steps == {"idle", "user", "profile", "commit", "rollback", "reply"}
Codes == {0, 201, 409, 500}

LEMMA FieldSet ==
  ASSUME NEW s \in RequestState
  PROVE  /\ \A pc \in Steps : [s EXCEPT !.pc = pc] \in RequestState
         /\ \A b \in BOOLEAN : [s EXCEPT !.holds = b] \in RequestState
         /\ \A c \in Codes : [s EXCEPT !.code = c] \in RequestState
<1>1. \A t \in RequestState, pc \in Steps : [t EXCEPT !.pc = pc] \in RequestState
  BY DEF RequestState, Steps
<1>2. \A t \in RequestState, b \in BOOLEAN : [t EXCEPT !.holds = b] \in RequestState
  BY DEF RequestState
<1>3. \A t \in RequestState, c \in Codes : [t EXCEPT !.code = c] \in RequestState
  BY DEF RequestState, Codes
<1> QED
  BY <1>1, <1>2, <1>3

\* Several fields at once.
LEMMA FieldsSet ==
  ASSUME NEW s \in RequestState
  PROVE  /\ [s EXCEPT !.pc = "profile", !.holds = TRUE] \in RequestState
         /\ [s EXCEPT !.pc = "reply", !.holds = FALSE] \in RequestState
         /\ [s EXCEPT !.pc = "rollback", !.code = 500] \in RequestState
<1>1. ASSUME NEW pc \in Steps, NEW b \in BOOLEAN
      PROVE  [s EXCEPT !.pc = pc, !.holds = b] \in RequestState
  <2>1. [s EXCEPT !.pc = pc] \in RequestState
    BY FieldSet
  <2>2. [[s EXCEPT !.pc = pc] EXCEPT !.holds = b] \in RequestState
    BY <2>1, FieldSet
  <2> QED
    BY <2>2
<1>2. ASSUME NEW pc \in Steps, NEW c \in Codes
      PROVE  [s EXCEPT !.pc = pc, !.code = c] \in RequestState
  <2>1. [s EXCEPT !.pc = pc] \in RequestState
    BY FieldSet
  <2>2. [[s EXCEPT !.pc = pc] EXCEPT !.code = c] \in RequestState
    BY <2>1, FieldSet
  <2> QED
    BY <2>2
<1>3. [s EXCEPT !.pc = "profile", !.holds = TRUE] \in RequestState
  BY <1>1 DEF Steps
<1>4. [s EXCEPT !.pc = "reply", !.holds = FALSE] \in RequestState
  BY <1>1 DEF Steps
<1>5. [s EXCEPT !.pc = "rollback", !.code = 500] \in RequestState
  BY <1>2 DEF Steps, Codes
<1> QED
  BY <1>3, <1>4, <1>5

LEMMA ReplySet ==
  ASSUME NEW s \in RequestState, NEW c \in Codes
  PROVE  [s EXCEPT !.pc = "reply", !.holds = FALSE, !.code = c] \in RequestState
<1>1. [s EXCEPT !.pc = "reply", !.holds = FALSE] \in RequestState
  BY FieldsSet
<1>2. \A t \in RequestState : [t EXCEPT !.code = c] \in RequestState
  BY FieldSet
<1>3. [[s EXCEPT !.pc = "reply", !.holds = FALSE] EXCEPT !.code = c] \in RequestState
  BY <1>1, <1>2
<1> QED
  BY <1>3

-----------------------------------------------------------------------------
\* Local states that a request may take without a look at the others: it
\* draws no id, and holds its e-mail only if it did before.
LEMMA Continue ==
  ASSUME IInv, NEW r \in Requests, NEW s \in RequestState,
         req' = [req EXCEPT ![r] = s], UNCHANGED <<users, profiles, used>>, Sound(s),
         Open(s) => Open(req[r]) /\ s.id = req[r].id,
         s.holds => req[r].holds /\ s.email = req[r].email
  PROVE  IInv'
<1>1. Sound(s)'
  BY DEF Sound, Registered
<1>2. \A q \in Requests \ {r} : Apart(s, req[q]) /\ Apart(req[q], s)
  <2> TAKE q \in Requests \ {r}
  <2>1. Apart(req[r], req[q]) /\ Apart(req[q], req[r])
    BY DEF IInv
  <2> QED
    BY <2>1 DEF Apart
<1>3. used \subseteq used' /\ used' \subseteq Ids
  BY DEF IInv, TypeOK
<1> QED
  BY <1>1, <1>2, <1>3, QuietStep

LEMMA LookupKeeps ==
  ASSUME IInv, NEW r \in Requests, NEW e \in Emails, Lookup(r, e) PROVE IInv'
<1>1. ASSUME NEW code \in {409, 500}, UNCHANGED used,
             req' = [req EXCEPT ![r] = [Idle EXCEPT !.pc = "reply", !.email = e, !.code = code]]
      PROVE  IInv'
  <2> DEFINE s == [Idle EXCEPT !.pc = "reply", !.email = e, !.code = code]
  <2>1. s \in RequestState /\ ~s.holds /\ s.pc = "reply" /\ s.code = code
    BY DEF Idle, RequestState
  <2>2. req' = [req EXCEPT ![r] = s] /\ UNCHANGED <<users, profiles, used>>
    BY <1>1 DEF Lookup
  <2> HIDE DEF s
  <2>3. Sound(s) /\ ~Open(s)
    BY <2>1 DEF Sound, Open
  <2> QED
    BY <2>1, <2>2, <2>3, Continue
<1>2. ASSUME ~Registered(e), NEW i \in Ids \ used, used' = used \cup {i},
             req' = [req EXCEPT ![r] = [Idle EXCEPT !.pc = "user", !.email = e, !.id = i]]
      PROVE  IInv'
  <2> DEFINE s == [Idle EXCEPT !.pc = "user", !.email = e, !.id = i]
  <2>1. s \in RequestState /\ ~s.holds /\ s.pc = "user" /\ s.email = e /\ s.id = i
    BY DEF Idle, RequestState
  <2>2. req' = [req EXCEPT ![r] = s] /\ UNCHANGED <<users, profiles>>
    BY <1>2 DEF Lookup
  <2> HIDE DEF s
  <2>3. users[i] = NoEmail
    BY DEF IInv
  <2>4. Sound(s)'
    BY <1>2, <2>1, <2>2, <2>3 DEF Sound, Open
  <2>5. ASSUME NEW q \in Requests \ {r} PROVE Apart(s, req[q]) /\ Apart(req[q], s)
    <3>1. Sound(req[q])
      BY DEF IInv
    <3> QED
      BY <2>1, <3>1 DEF Sound, Apart
  <2>6. used \subseteq used' /\ used' \subseteq Ids
    BY <1>2 DEF IInv, TypeOK
  <2> QED
    BY <2>1, <2>2, <2>4, <2>5, <2>6, QuietStep
<1> QED
  BY <1>1, <1>2 DEF Lookup

\* The deferred Rollback is on its way.
LEMMA FailKeeps ==
  ASSUME IInv, NEW r \in Requests, req[r].pc \in {"user", "profile", "commit"}, Fail(r),
         UNCHANGED <<users, profiles, used>>
  PROVE  IInv'
<1>1. req[r] \in RequestState /\ Sound(req[r])
  BY DEF IInv, TypeOK
<1>2. PICK s \in RequestState : s = [req[r] EXCEPT !.pc = "rollback", !.code = 500]
  <2>1. [req[r] EXCEPT !.pc = "rollback", !.code = 500] \in RequestState
    BY <1>1, FieldsSet
  <2> QED
    BY <2>1, Zenon
<1>3. s.pc = "rollback" /\ s.code = 500 /\ s.email = req[r].email /\ s.holds = req[r].holds
  BY <1>1, <1>2 DEF RequestState
<1>4. req' = [req EXCEPT ![r] = s]
  BY <1>2 DEF Fail
<1>5. Sound(s) /\ ~Open(s)
  BY <1>1, <1>3 DEF Sound, Open
<1>6. s.holds => req[r].holds /\ s.email = req[r].email
  BY <1>3
<1> QED
  BY <1>4, <1>5, <1>6, Continue

LEMMA InsertUserKeeps ==
  ASSUME IInv, NEW r \in Requests, InsertUser(r) PROVE IInv'
<1>1. CASE Fail(r)
  BY <1>1, FailKeeps DEF InsertUser
<1>2. ASSUME ~Locked(r, req[r].email), ~Registered(req[r].email),
             req' = [req EXCEPT ![r].pc = "profile", ![r].holds = TRUE]
      PROVE  IInv'
  <2>1. req[r] \in RequestState /\ Sound(req[r]) /\ req[r].pc = "user"
    BY DEF IInv, TypeOK, InsertUser
  <2>2. PICK s \in RequestState : s = [req[r] EXCEPT !.pc = "profile", !.holds = TRUE]
    BY <2>1, FieldsSet
  <2>3. req' = [req EXCEPT ![r] = s]
    BY <1>2, <2>2
  <2>4. UNCHANGED <<users, profiles, used>>
    BY DEF InsertUser
  <2>8. s.pc = "profile" /\ s.holds /\ s.email = req[r].email /\ s.id = req[r].id
    BY <2>1, <2>2 DEF RequestState
  <2>5. Sound(s)'
    BY <1>2, <2>1, <2>4, <2>8 DEF Sound, Open, Registered
  <2>6. ASSUME NEW q \in Requests \ {r} PROVE Apart(s, req[q]) /\ Apart(req[q], s)
    <3>1. Apart(req[r], req[q]) /\ Apart(req[q], req[r])
      BY DEF IInv
    <3>2. req[q].holds => req[q].email # s.email
      BY <1>2, <2>8 DEF Locked
    <3> QED
      BY <2>1, <2>8, <3>1, <3>2 DEF Apart, Open
  <2>7. used \subseteq used' /\ used' \subseteq Ids
    BY <2>4 DEF IInv, TypeOK
  <2> QED
    BY <2>2, <2>3, <2>4, <2>5, <2>6, <2>7, QuietStep
<1> QED
  BY <1>1, <1>2 DEF InsertUser

LEMMA InsertProfileKeeps ==
  ASSUME IInv, NEW r \in Requests, InsertProfile(r) PROVE IInv'
<1>1. CASE Fail(r)
  BY <1>1, FailKeeps DEF InsertProfile
<1>2. CASE Goto(r, "commit")
  <2>1. req[r] \in RequestState /\ Sound(req[r]) /\ req[r].pc = "profile"
    BY DEF IInv, TypeOK, InsertProfile
  <2>2. PICK s \in RequestState : s = [req[r] EXCEPT !.pc = "commit"]
    BY <2>1, FieldSet DEF Steps
  <2>3. /\ s.pc = "commit" /\ s.holds = req[r].holds
        /\ s.email = req[r].email /\ s.id = req[r].id
    BY <2>1, <2>2 DEF RequestState
  <2>4. req' = [req EXCEPT ![r] = s] /\ UNCHANGED <<users, profiles, used>>
    BY <1>2, <2>2 DEF Goto, InsertProfile
  <2>5. Sound(s)
    BY <2>1, <2>3 DEF Sound, Open
  <2> QED
    BY <2>1, <2>3, <2>4, <2>5, Continue DEF Open
<1> QED
  BY <1>1, <1>2 DEF InsertProfile

LEMMA RollbackKeeps ==
  ASSUME IInv, NEW r \in Requests, Rollback(r) PROVE IInv'
<1>1. req[r] \in RequestState /\ Sound(req[r]) /\ req[r].pc = "rollback"
  BY DEF IInv, TypeOK, Rollback
<1>2. PICK s \in RequestState : s = [req[r] EXCEPT !.pc = "reply", !.holds = FALSE]
  BY <1>1, FieldsSet
<1>3. s.pc = "reply" /\ ~s.holds /\ s.code = req[r].code
  BY <1>1, <1>2 DEF RequestState
<1>4. req' = [req EXCEPT ![r] = s] /\ UNCHANGED <<users, profiles, used>>
  BY <1>2 DEF Rollback
<1>5. Sound(s) /\ ~Open(s)
  BY <1>1, <1>3 DEF Sound, Open
<1> QED
  BY <1>2, <1>3, <1>4, <1>5, Continue

LEMMA AnswerKeeps ==
  ASSUME IInv, NEW r \in Requests, Answer(r) PROVE IInv'
<1>1. req' = [req EXCEPT ![r] = Idle] /\ UNCHANGED <<users, profiles, used>>
  BY DEF Answer
<1>2. ~Open(Idle) /\ ~Idle.holds
  BY DEF Idle, Open
<1> QED
  BY <1>1, <1>2, IdleSound, Continue

LEMMA CrashKeeps == ASSUME IInv, Crash PROVE IInv'
<1>1. \A r \in Requests : req'[r] = Idle
  BY DEF Crash
<1>2. \A q, r \in Requests : Sound(req[r])' /\ Apart(req[q], req[r])'
  BY <1>1 DEF Idle, Sound, Open, Apart
<1>3. req' \in [Requests -> RequestState]
  BY IdleSound DEF Crash
<1> QED
  BY <1>2, <1>3 DEF Crash, IInv, TypeOK, OneAccountPerEmail, AccountsAreWhole

-----------------------------------------------------------------------------
LEMMA SoundAfter ==
  ASSUME NEW r \in Requests, NEW s, req'[r] = s, Sound(s)' PROVE Sound(req[r])'
BY DEF Sound, Registered

\* The COMMIT is done: the row of a new id carries an e-mail nobody has.
LEMMA CommitDone ==
  ASSUME IInv, NEW r \in Requests, req[r].pc = "commit", UNCHANGED used,
         users' = [users EXCEPT ![req[r].id] = req[r].email],
         profiles' = profiles \cup {req[r].id},
         NEW c \in Codes,
         req' = [req EXCEPT ![r].pc = "reply", ![r].holds = FALSE, ![r].code = c]
  PROVE  IInv'
<1>1. req[r] \in RequestState /\ Sound(req[r]) /\ Open(req[r])
  BY DEF IInv, TypeOK, Open
<1>2. PICK i \in used : i = req[r].id
  BY <1>1 DEF Sound
<1>3. PICK e \in Emails : e = req[r].email
  BY <1>1 DEF Sound
<1>4. i \in Ids /\ users[i] = NoEmail /\ ~Registered(e)
  BY <1>1, <1>2, <1>3 DEF Sound, IInv, TypeOK
<1>5. PICK s \in RequestState : s = [req[r] EXCEPT !.pc = "reply", !.holds = FALSE, !.code = c]
  <2>1. [req[r] EXCEPT !.pc = "reply", !.holds = FALSE, !.code = c] \in RequestState
    BY <1>1, ReplySet
  <2> QED
    BY <2>1, Zenon
<1>6. s.pc = "reply" /\ ~s.holds /\ s.email = e /\ s.id = i
  BY <1>1, <1>2, <1>3, <1>5 DEF RequestState
<1>7. req' = [req EXCEPT ![r] = s]
  <2>1. req \in [Requests -> RequestState]
    BY DEF IInv, TypeOK
  <2> QED
    BY <1>5, <2>1
<1>8. /\ req' \in [Requests -> RequestState]
      /\ req'[r] = s
      /\ \A q \in Requests \ {r} : req'[q] = req[q]
  <2>1. req \in [Requests -> RequestState]
    BY DEF IInv, TypeOK
  <2> QED
    BY <1>7, <2>1
<1>9. /\ users' \in [Ids -> Emails \cup {NoEmail}]
      /\ users'[i] = e
      /\ \A j \in Ids \ {i} : users'[j] = users[j]
  BY <1>2, <1>3, <1>4 DEF IInv, TypeOK
<1>10. profiles' = profiles \cup {i}
  BY <1>2
<1>11. TypeOK'
  BY <1>4, <1>8, <1>9, <1>10 DEF IInv, TypeOK
<1>12. OneAccountPerEmail'
  BY <1>4, <1>9 DEF IInv, OneAccountPerEmail, Registered
<1>13. AccountsAreWhole'
  BY <1>4, <1>9, <1>10 DEF IInv, AccountsAreWhole
<1>14. \A j \in Ids : users'[j] # NoEmail => j \in used'
  BY <1>9 DEF IInv
<1>15. Sound(req[r])'
  BY <1>4, <1>6, <1>8, <1>9 DEF Sound, Open
<1>16. ASSUME NEW q \in Requests \ {r} PROVE Sound(req[q])'
  <2>1. PICK t \in RequestState : t = req[q] /\ t = req'[q]
    BY <1>8 DEF IInv, TypeOK
  <2>2. Sound(t) /\ Apart(req[r], t)
    <3>1. Sound(req[q]) /\ Apart(req[r], req[q])
      BY DEF IInv
    <3> QED
      BY <2>1, <3>1, Zenon
  <2>3. Open(t) => t.id # i
    BY <1>1, <1>2, <2>2 DEF Apart
  <2>4. t.holds => t.email # e
    BY <1>1, <1>3, <2>2 DEF Apart, Sound, Open
  <2>5. t.pc = "reply" /\ t.code = 201 => t.id # i
    BY <1>4, <2>2 DEF Sound
  <2>6. Sound(t)'
    BY <1>4, <1>9, <2>2, <2>3, <2>4, <2>5 DEF Sound, Open, Registered, IInv, TypeOK
  <2> QED
    BY <2>1, <2>6, SoundAfter
<1>17. \A q \in Requests : Sound(req[q])'
  BY <1>15, <1>16
<1>18. \A p, q \in Requests : p # q => Apart(req[p], req[q])'
  <2>1. \A p, q \in Requests : p # q => Apart(req'[p], req'[q])
    BY <1>6, <1>8 DEF IInv, Apart, Open
  <2> QED
    BY <2>1 DEF Apart, Open
<1> QED
  BY <1>11, <1>12, <1>13, <1>14, <1>17, <1>18 DEF IInv

LEMMA CommitKeeps ==
  ASSUME IInv, NEW r \in Requests, Commit(r) PROVE IInv'
<1>1. CASE Fail(r) /\ UNCHANGED <<users, profiles>>
  BY <1>1, FailKeeps DEF Commit
<1>2. CASE ~(Fail(r) /\ UNCHANGED <<users, profiles>>)
  <2>1. PICK c \in Codes :
          req' = [req EXCEPT ![r].pc = "reply", ![r].holds = FALSE, ![r].code = c]
    <3>1. PICK c \in {201, 500} :
            req' = [req EXCEPT ![r].pc = "reply", ![r].holds = FALSE, ![r].code = c]
      BY <1>2 DEF Commit
    <3>2. c \in Codes
      BY DEF Codes
    <3> QED
      BY <3>1, <3>2
  <2>2. /\ users' = [users EXCEPT ![req[r].id] = req[r].email]
        /\ profiles' = profiles \cup {req[r].id}
    BY <1>2 DEF Commit
  <2>3. req[r].pc = "commit" /\ UNCHANGED used
    BY DEF Commit
  <2> QED
    BY <2>1, <2>2, <2>3, CommitDone
<1> QED
  BY <1>1, <1>2

LEMMA StepKeeps == IInv /\ [Next]_vars => IInv'
<1> SUFFICES ASSUME IInv, [Next]_vars PROVE IInv'
  OBVIOUS
<1>1. CASE UNCHANGED vars
  BY <1>1 DEF IInv, TypeOK, OneAccountPerEmail, AccountsAreWhole, Sound, Apart, Open,
    Registered, vars
<1>2. ASSUME NEW r \in Requests, Handle(r) PROVE IInv'
  BY <1>2, InsertUserKeeps, InsertProfileKeeps, CommitKeeps, RollbackKeeps, AnswerKeeps
  DEF Handle
<1>3. ASSUME NEW r \in Requests, NEW e \in Emails, Lookup(r, e) PROVE IInv'
  BY <1>3, LookupKeeps
<1>4. CASE Crash
  BY <1>4, CrashKeeps
<1>5. ASSUME NEW r \in Requests, CancelInsert(r) PROVE IInv'
  BY <1>5, FailKeeps DEF CancelInsert
<1> QED
  BY <1>1, <1>2, <1>3, <1>4, <1>5 DEF Next

LEMMA Invariance == Spec => []IInv
<1>1. Init => IInv
  BY InitHolds
<1>2. IInv /\ [Next]_vars => IInv'
  BY StepKeeps
<1> QED
  BY <1>1, <1>2, PTL DEF Spec

-----------------------------------------------------------------------------
\* Every reachable state is well typed.
THEOREM TypeCorrect == Spec => []TypeOK
<1>1. IInv => TypeOK
  BY DEF IInv
<1> QED
  BY <1>1, Invariance, PTL

\* Concurrent registrations of one e-mail leave one account for it.
THEOREM OneAccount == Spec => []OneAccountPerEmail
<1>1. IInv => OneAccountPerEmail
  BY DEF IInv
<1> QED
  BY <1>1, Invariance, PTL

\* Whatever fails and whenever the process dies, an account has its profile.
THEOREM WholeAccounts == Spec => []AccountsAreWhole
<1>1. IInv => AccountsAreWhole
  BY DEF IInv
<1> QED
  BY <1>1, Invariance, PTL

\* A 201 is for the owner of the e-mail's only account.
THEOREM OwnersAreTold == Spec => []CreatedIsOwned
<1>1. IInv => CreatedIsOwned
  <2> SUFFICES ASSUME IInv, NEW r \in Requests, req[r].pc = "reply", req[r].code = 201,
                      NEW i \in Ids
               PROVE  users[i] = req[r].email <=> i = req[r].id
    BY DEF CreatedIsOwned
  <2>1. /\ req[r].email \in Emails /\ req[r].id \in Ids
        /\ users[req[r].id] = req[r].email
    BY DEF IInv, Sound
  <2> QED
    BY <2>1 DEF IInv, OneAccountPerEmail
<1> QED
  BY <1>1, Invariance, PTL

=============================================================================
