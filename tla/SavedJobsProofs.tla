-------------------------- MODULE SavedJobsProofs --------------------------
(***************************************************************************)
(* What SavedJobs promises for any users, jobs and number of requests: the *)
(* answers tell what the table holds, totals match the pages they come     *)
(* with, whatever page and limit are asked for, and only administrators    *)
(* reach the handlers that write jobs.                                     *)
(***************************************************************************)
EXTENDS SavedJobs, FiniteSetTheorems, TLAPS

USE SavedJobsAssumption

Working == {"exists", "create", "delete", "select", "count"}
Points == {"idle", "reply"} \cup Working
Codes == {0, 200, 201, 204, 400, 401, 403, 404, 409, 500}

\* What the local state of a request says by itself: only calls of the service
\* get to a statement, and a handler that writes jobs was reached by an
\* administrator.
Fits(s) ==
  /\ s.pc \in Working => s.route = <<>> /\ s.user \in Users
  /\ s.pc = "reply" /\ s.route \in JobWrites /\ s.code = 200 => s.role = "admin"

\* What it says of the table.
UpToDate(s) ==
  /\ s.pc = "count" /\ s.exact
       => Cardinality(s.page) = PageLength(Cardinality(Own(s.user)), s.limit, s.offset)
  /\ s.pc = "reply" /\ s.code = 200 /\ s.user # NoUser /\ s.exact
       => Cardinality(s.page) = PageLength(s.total, s.limit, s.offset)

IInv ==
  /\ TypeOK
  /\ AnswersAddUp
  /\ \A r \in Requests : Fits(req[r]) /\ UpToDate(req[r])

-----------------------------------------------------------------------------
(* Local states.                                                           *)

LEMMA EmptyIsNoPair == ASSUME NEW S, NEW T PROVE <<>> \notin S \X T
<1>1. \A a, b : <<a, b>> # <<>>
  OBVIOUS
<1>2. \A x \in S \X T : x = <<x[1], x[2]>>
  OBVIOUS
<1> QED
  BY <1>1, <1>2, Zenon

LEMMA NoRoute == <<>> \notin JobWrites
BY EmptyIsNoPair, Zenon DEF JobWrites

LEMMA IdleFits == Idle \in RequestState /\ Fits(Idle) /\ UpToDate(Idle)
<1>1. Idle \in RequestState
  BY DEF Idle, RequestState, JobIds
<1>2. Idle.pc = "idle" /\ Idle.route = <<>>
  BY DEF Idle
<1> QED
  BY <1>1, <1>2, NoRoute DEF Fits, UpToDate, Working

LEMMA FieldSet ==
  ASSUME NEW s \in RequestState
  PROVE  /\ \A pc \in Points : [s EXCEPT !.pc = pc] \in RequestState
         /\ \A code \in Codes : [s EXCEPT !.code = code] \in RequestState
         /\ \A page \in SUBSET Jobs : [s EXCEPT !.page = page] \in RequestState
         /\ \A b \in BOOLEAN : [s EXCEPT !.exact = b] \in RequestState
         /\ \A n \in Nat : [s EXCEPT !.total = n] \in RequestState
         /\ \A route \in Routes : [s EXCEPT !.route = route] \in RequestState
         /\ \A role \in Roles \cup {"none"} : [s EXCEPT !.role = role] \in RequestState
         /\ \A u \in Users : [s EXCEPT !.user = u] \in RequestState
         /\ \A j \in JobIds : [s EXCEPT !.job = j] \in RequestState
         /\ \A n \in Nat \ {0} : [s EXCEPT !.limit = n] \in RequestState
         /\ \A n \in Nat : [s EXCEPT !.offset = n] \in RequestState
<1>1. \A t \in RequestState, pc \in Points : [t EXCEPT !.pc = pc] \in RequestState
  BY DEF RequestState, Points, Working
<1>2. \A t \in RequestState, code \in Codes : [t EXCEPT !.code = code] \in RequestState
  BY DEF RequestState, Codes
<1>3. \A t \in RequestState, page \in SUBSET Jobs : [t EXCEPT !.page = page] \in RequestState
  BY DEF RequestState
<1>4. \A t \in RequestState, b \in BOOLEAN : [t EXCEPT !.exact = b] \in RequestState
  BY DEF RequestState
<1>5. \A t \in RequestState, n \in Nat : [t EXCEPT !.total = n] \in RequestState
  BY DEF RequestState
<1>6. \A t \in RequestState, route \in Routes : [t EXCEPT !.route = route] \in RequestState
  BY SMTT(60) DEF RequestState
<1>7. \A t \in RequestState, role \in Roles \cup {"none"} : [t EXCEPT !.role = role] \in RequestState
  BY DEF RequestState
<1>8. \A t \in RequestState, u \in Users : [t EXCEPT !.user = u] \in RequestState
  BY DEF RequestState
<1>9. \A t \in RequestState, j \in JobIds : [t EXCEPT !.job = j] \in RequestState
  BY DEF RequestState
<1>10. \A t \in RequestState, n \in Nat \ {0} : [t EXCEPT !.limit = n] \in RequestState
  BY SMTT(60) DEF RequestState
<1>11. \A t \in RequestState, n \in Nat : [t EXCEPT !.offset = n] \in RequestState
  BY SMTT(60) DEF RequestState
<1> QED
  BY <1>1, <1>2, <1>3, <1>4, <1>5, <1>6, <1>7, <1>8, <1>9, <1>10, <1>11

\* The four ways a request goes on.
LEMMA ReplySet ==
  ASSUME NEW s \in RequestState, NEW code \in Codes
  PROVE  [s EXCEPT !.pc = "reply", !.code = code] \in RequestState
<1>1. [s EXCEPT !.pc = "reply"] \in RequestState
  BY FieldSet DEF Points
<1>2. [[s EXCEPT !.pc = "reply"] EXCEPT !.code = code] \in RequestState
  BY <1>1, FieldSet
<1> QED
  BY <1>2

LEMMA StaleSet ==
  ASSUME NEW s \in RequestState PROVE [s EXCEPT !.exact = FALSE] \in RequestState
BY FieldSet

LEMMA PageSet ==
  ASSUME NEW s \in RequestState, NEW page \in SUBSET Jobs, NEW b \in BOOLEAN
  PROVE  [s EXCEPT !.pc = "count", !.page = page, !.exact = b] \in RequestState
<1>1. [s EXCEPT !.pc = "count"] \in RequestState
  BY FieldSet DEF Points, Working
<1>2. [[s EXCEPT !.pc = "count"] EXCEPT !.page = page] \in RequestState
  BY <1>1, FieldSet
<1>3. [[[s EXCEPT !.pc = "count"] EXCEPT !.page = page] EXCEPT !.exact = b] \in RequestState
  BY <1>2, FieldSet
<1> QED
  BY <1>3

LEMMA TotalSet ==
  ASSUME NEW s \in RequestState, NEW code \in Codes, NEW n \in Nat
  PROVE  [s EXCEPT !.pc = "reply", !.code = code, !.total = n] \in RequestState
<1>1. [s EXCEPT !.pc = "reply", !.code = code] \in RequestState
  BY ReplySet
<1>2. [[s EXCEPT !.pc = "reply", !.code = code] EXCEPT !.total = n] \in RequestState
  BY <1>1, FieldSet
<1> QED
  BY <1>2

\* How a request or a call begins.
LEMMA AnsweredSet ==
  ASSUME NEW route \in Routes, NEW role \in Roles \cup {"none"}, NEW code \in Codes
  PROVE  /\ [Idle EXCEPT !.pc = "reply", !.route = route, !.code = code] \in RequestState
         /\ [Idle EXCEPT !.pc = "reply", !.route = route, !.role = role, !.code = code]
              \in RequestState
<1>1. [Idle EXCEPT !.pc = "reply"] \in RequestState
  BY IdleFits, FieldSet DEF Points
<1>2. [[Idle EXCEPT !.pc = "reply"] EXCEPT !.route = route] \in RequestState
  BY <1>1, FieldSet
<1>3. [[[Idle EXCEPT !.pc = "reply"] EXCEPT !.route = route] EXCEPT !.role = role] \in RequestState
  BY <1>2, FieldSet
<1>4. [[[Idle EXCEPT !.pc = "reply"] EXCEPT !.route = route] EXCEPT !.code = code] \in RequestState
  BY <1>2, FieldSet
<1>5. [[[[Idle EXCEPT !.pc = "reply"] EXCEPT !.route = route] EXCEPT !.role = role]
         EXCEPT !.code = code] \in RequestState
  BY <1>3, FieldSet
<1> QED
  BY <1>4, <1>5

LEMMA CalledSet ==
  ASSUME NEW entry \in Points, NEW u \in Users, NEW j \in JobIds
  PROVE  Entering(entry, u, j) \in RequestState
<1>1. [Idle EXCEPT !.pc = entry] \in RequestState
  BY IdleFits, FieldSet
<1>2. [[Idle EXCEPT !.pc = entry] EXCEPT !.user = u] \in RequestState
  BY <1>1, FieldSet
<1>3. [[[Idle EXCEPT !.pc = entry] EXCEPT !.user = u] EXCEPT !.job = j] \in RequestState
  BY <1>2, FieldSet
<1> QED
  BY <1>3 DEF Entering

\* The service's defaults leave a positive limit and an offset that is not
\* negative.
LEMMA ListedSet ==
  ASSUME NEW u \in Users, NEW page \in Numbers, NEW limit \in Numbers
  PROVE  Listing(u, page, limit) \in RequestState
<1>1. PICK size \in Nat \ {0} : size = Positive(limit, DefaultLimit)
  BY DEF Positive
<1>2. PICK n \in Nat : n = Positive(page, 1) - 1
  BY DEF Positive
<1>3. PICK offset \in Nat : offset = n * size
  OBVIOUS
<1>4. [Idle EXCEPT !.pc = "select"] \in RequestState
  BY IdleFits, FieldSet DEF Points, Working
<1>5. [[Idle EXCEPT !.pc = "select"] EXCEPT !.user = u] \in RequestState
  BY <1>4, FieldSet
<1>6. [[[Idle EXCEPT !.pc = "select"] EXCEPT !.user = u] EXCEPT !.limit = size] \in RequestState
  BY <1>5, FieldSet
<1>7. [[[[Idle EXCEPT !.pc = "select"] EXCEPT !.user = u] EXCEPT !.limit = size]
         EXCEPT !.offset = offset] \in RequestState
  BY <1>6, FieldSet
<1>8. [Idle EXCEPT !.pc = "select", !.user = u, !.limit = size, !.offset = offset]
        \in RequestState
  BY <1>7
<1>9. Listing(u, page, limit)
        = [Idle EXCEPT !.pc = "select", !.user = u, !.limit = size, !.offset = offset]
  BY <1>1, <1>2, <1>3 DEF Listing
<1> QED
  BY <1>8, <1>9

-----------------------------------------------------------------------------
(* Steps.                                                                  *)

LEMMA InitHolds == Init => IInv
<1> SUFFICES ASSUME Init PROVE IInv
  OBVIOUS
<1>1. \A r \in Requests : req[r] = Idle
  BY DEF Init
<1>2. \A r \in Requests : Fits(req[r]) /\ UpToDate(req[r])
  BY <1>1, IdleFits
<1>3. req \in [Requests -> RequestState]
  BY IdleFits DEF Init
<1>4. AnswersAddUp
  BY DEF Init, AnswersAddUp
<1> QED
  BY <1>2, <1>3, <1>4 DEF Init, IInv, TypeOK

\* A request goes on and nothing is written.
LEMMA ReadStep ==
  ASSUME IInv, NEW r \in Requests, NEW s \in RequestState, Fits(s), UpToDate(s),
         req' = [req EXCEPT ![r] = s], UNCHANGED <<saved, ledger, unsure>>
  PROVE  IInv'
<1>1. /\ req' \in [Requests -> RequestState]
      /\ req'[r] = s
      /\ \A q \in Requests \ {r} : req'[q] = req[q]
  BY DEF IInv, TypeOK
<1>2. ASSUME NEW q \in Requests PROVE Fits(req[q])' /\ UpToDate(req[q])'
  <2>1. PICK t : t = req'[q] /\ Fits(t) /\ UpToDate(t)
    <3>1. Fits(req[q]) /\ UpToDate(req[q])
      BY DEF IInv
    <3> QED
      BY <1>1, <3>1
  <2>2. Fits(req[q])'
    BY <2>1 DEF Fits
  <2>3. UpToDate(req[q])'
    BY <2>1 DEF UpToDate, Own
  <2> QED
    BY <2>2, <2>3
<1>3. TypeOK' /\ AnswersAddUp'
  BY <1>1 DEF IInv, TypeOK, AnswersAddUp
<1> QED
  BY <1>2, <1>3 DEF IInv

\* The other requests when rows of user u are written.
LEMMA Others ==
  ASSUME IInv, NEW q \in Requests, NEW u, \A v : v # u => Own(v)' = Own(v),
         NEW t, t = IF req[q].user = u THEN [req[q] EXCEPT !.exact = FALSE] ELSE req[q]
  PROVE  t \in RequestState /\ Fits(t) /\ UpToDate(t)'
<1>1. req[q] \in RequestState /\ Fits(req[q]) /\ UpToDate(req[q])
  BY DEF IInv, TypeOK
<1>2. CASE req[q].user = u
  <2>1. t = [req[q] EXCEPT !.exact = FALSE]
    BY <1>2
  <2>2. t \in RequestState
    BY <1>1, <2>1, StaleSet
  <2>3. /\ t.pc = req[q].pc /\ t.route = req[q].route /\ t.user = req[q].user
        /\ t.code = req[q].code /\ t.role = req[q].role /\ ~t.exact
    BY <1>1, <2>1 DEF RequestState
  <2>4. Fits(t)
    BY <1>1, <2>3 DEF Fits
  <2>5. UpToDate(t)'
    BY <2>3 DEF UpToDate
  <2> QED
    BY <2>2, <2>4, <2>5
<1>3. CASE req[q].user # u
  <2>1. t = req[q]
    BY <1>3
  <2>2. t \in RequestState /\ Fits(t) /\ UpToDate(t) /\ t.user # u
    BY <1>1, <1>3, <2>1
  <2>3. Own(t.user)' = Own(t.user)
    BY <2>2
  <2>4. UpToDate(t)'
    BY <2>2, <2>3 DEF UpToDate
  <2> QED
    BY <2>2, <2>4
<1> QED
  BY <1>2, <1>3

\* A row of user p[1] appears or disappears; req' is given request by request.
LEMMA TableStep ==
  ASSUME IInv, NEW p \in Users \X Jobs, saved' = saved \cup {p} \/ saved' = saved \ {p},
         unsure' \subseteq Pairs, ledger' \in [Pairs -> Int], AnswersAddUp',
         DOMAIN req' = Requests, req' = [q \in Requests |-> req'[q]],
         \A q \in Requests : req'[q] \in RequestState /\ Fits(req'[q]) /\ UpToDate(req[q])'
  PROVE  IInv'
<1>1. saved' \subseteq Users \X Jobs
  BY DEF IInv, TypeOK
<1>2. req' \in [Requests -> RequestState]
  OBVIOUS
<1>3. ASSUME NEW q \in Requests PROVE Fits(req[q])'
  <2>1. PICK t : t = req'[q] /\ Fits(t)
    OBVIOUS
  <2> QED
    BY <2>1 DEF Fits
<1> QED
  BY <1>1, <1>2, <1>3 DEF IInv, TypeOK

\* Only the lists of the row's user change.
LEMMA OwnElsewhere ==
  ASSUME NEW p \in Users \X Jobs, saved' = saved \cup {p} \/ saved' = saved \ {p},
         NEW v, v # p[1]
  PROVE  Own(v)' = Own(v)
<1>1. \A j \in Jobs : <<v, j>> # p
  OBVIOUS
<1>2. \A j \in Jobs : <<v, j>> \in saved' <=> <<v, j>> \in saved
  BY <1>1
<1> QED
  BY <1>2 DEF Own

LEMMA UpToDateAfter ==
  ASSUME NEW q \in Requests, NEW t, req'[q] = t, UpToDate(t)' PROVE UpToDate(req[q])'
BY DEF UpToDate, Own

\* Create and Delete, once they have touched the table.
LEMMA WriteStep ==
  ASSUME IInv, NEW r \in Requests, req[r].pc \in {"create", "delete"},
         NEW p \in Users \X Jobs, p = Pair(r),
         saved' = saved \cup {p} \/ saved' = saved \ {p},
         NEW code \in Codes \ {200}, Wrote(r, p, code),
         unsure' \subseteq Pairs, ledger' \in [Pairs -> Int], AnswersAddUp'
  PROVE  IInv'
<1>1. \A v : v # p[1] => Own(v)' = Own(v)
  BY OwnElsewhere
<1>2. req[r] \in RequestState /\ Fits(req[r])
  BY DEF IInv, TypeOK
<1>3. ASSUME NEW q \in Requests \ {r}
      PROVE  req'[q] \in RequestState /\ Fits(req'[q]) /\ UpToDate(req[q])'
  <2>1. PICK t : t = req'[q]
    OBVIOUS
  <2>2. t = IF req[q].user = p[1] THEN [req[q] EXCEPT !.exact = FALSE] ELSE req[q]
    BY <2>1 DEF Wrote
  <2>3. t \in RequestState /\ Fits(t) /\ UpToDate(t)'
    BY <1>1, <2>2, Others
  <2> QED
    BY <2>1, <2>3, UpToDateAfter
<1>4. req'[r] \in RequestState /\ Fits(req'[r]) /\ UpToDate(req[r])'
  <2>1. PICK t \in RequestState : t = [req[r] EXCEPT !.pc = "reply", !.code = code]
    <3>1. [req[r] EXCEPT !.pc = "reply", !.code = code] \in RequestState
      BY <1>2, ReplySet
    <3> QED
      BY <3>1
  <2>2. t = req'[r]
    BY <2>1 DEF Wrote
  <2>3. t.pc = "reply" /\ t.code = code /\ t.route = req[r].route
    BY <1>2, <2>1 DEF RequestState
  <2>4. t.route = <<>>
    BY <1>2, <2>3 DEF Fits, Working
  <2>5. Fits(t)
    BY <2>3, <2>4, NoRoute DEF Fits, Working
  <2>6. UpToDate(t)'
    BY <2>3 DEF UpToDate
  <2> QED
    BY <2>2, <2>5, <2>6, UpToDateAfter
<1>5. DOMAIN req' = Requests /\ req' = [q \in Requests |-> req'[q]]
  BY DEF Wrote
<1>6. \A q \in Requests : req'[q] \in RequestState /\ Fits(req'[q]) /\ UpToDate(req[q])'
  BY <1>3, <1>4
<1> QED
  BY <1>5, <1>6, TableStep

\* The ledger after a write of pair p that is acknowledged, or not.
LEMMA LedgerAfter ==
  ASSUME IInv, NEW p \in Pairs, NEW n \in {1, -1}, UNCHANGED unsure, Tally(p, n),
         n = 1 => p \notin saved /\ saved' = saved \cup {p},
         n = -1 => p \in saved /\ saved' = saved \ {p}
  PROVE  ledger' \in [Pairs -> Int] /\ AnswersAddUp' /\ unsure' \subseteq Pairs
<1>1. ledger' \in [Pairs -> Int]
  BY DEF Tally, IInv, TypeOK
<1>2. \A q \in Pairs \ {p} : ledger'[q] = ledger[q] /\ (q \in saved' <=> q \in saved)
  BY DEF Tally, IInv, TypeOK
<1>3. p \notin unsure => ledger'[p] = ledger[p] + n
  BY DEF Tally, IInv, TypeOK
<1>4. AnswersAddUp'
  BY <1>2, <1>3 DEF IInv, TypeOK, AnswersAddUp
<1> QED
  BY <1>1, <1>4 DEF IInv, TypeOK

LEMMA LedgerClosed ==
  ASSUME IInv, NEW p \in Pairs, UNCHANGED ledger, unsure' = unsure \cup {p},
         saved' = saved \cup {p} \/ saved' = saved \ {p}
  PROVE  ledger' \in [Pairs -> Int] /\ AnswersAddUp' /\ unsure' \subseteq Pairs
BY DEF IInv, TypeOK, AnswersAddUp

-----------------------------------------------------------------------------
(* Actions.                                                                *)

LEMMA ProductPair ==
  ASSUME NEW S, NEW T, NEW x \in S \X T PROVE \E a \in S, b \in T : x = <<a, b>>
OBVIOUS

LEMMA GroupsApart == AdminOnly \cap Public = {}
<1>1. ASSUME NEW route \in AdminOnly PROVE route \notin Public
  <2>1. PICK m \in {"POST", "PUT", "DELETE"}, path \in {"/jobs", "/jobs/{id}"} :
          route = <<m, path>>
    BY DEF AdminOnly
  <2> QED
    BY <2>1 DEF Public
<1> QED
  BY <1>1

\* A route that writes jobs is in the administrators' group and in no other.
LEMMA WritesAreAdmins == \A route \in Routes \cap JobWrites : route \in AdminOnly
<1> SUFFICES ASSUME NEW route \in Routes, route \in JobWrites PROVE route \in AdminOnly
  OBVIOUS
<1> DEFINE Methods == {"POST", "PUT", "DELETE"}
           Paths == {"/jobs", "/jobs/{id}"}
<1>1. route \in Methods \X Paths
  BY DEF JobWrites
<1> HIDE DEF Methods, Paths
<1>2. PICK m \in Methods, path \in Paths : route = <<m, path>>
  BY <1>1, ProductPair
<1>3. route \notin Public
  BY <1>2 DEF Methods, Paths, Public
<1>4. route \notin Authenticated
  BY <1>2 DEF Methods, Paths, Authenticated, SavedRoutes
<1> QED
  BY <1>3, <1>4 DEF Routes, AdminOnly

LEMMA ReceivedFits ==
  ASSUME NEW route \in Routes, NEW h \in Headers,
         NEW s \in Received(route, h)
  PROVE  s \in RequestState /\ Fits(s) /\ UpToDate(s)
<1>1. h.token \in Tokens /\ Admit(route, h) \in {0, 401, 403}
  BY DEF Headers, Admit
<1>2. h.token.role \in Roles
  BY <1>1 DEF Tokens
<1>3. TokenRole(h) \in Roles \cup {"none"}
  BY <1>2 DEF TokenRole
<1>7. Admit(route, h) \in Codes /\ 200 \in Codes /\ 401 \in Codes
  BY <1>1 DEF Codes
<1>4. CASE Admit(route, h) # 0
  <2>1. s = [Idle EXCEPT !.pc = "reply", !.route = route, !.code = Admit(route, h)]
    BY <1>4 DEF Received
  <2>2. s.pc = "reply" /\ s.route = route /\ s.code = Admit(route, h) /\ s.user = NoUser
    BY <2>1 DEF Idle
  <2>3. s \in RequestState
    BY <1>3, <1>7, <2>1, AnsweredSet
  <2> QED
    BY <1>4, <1>1, <2>2, <2>3 DEF Fits, UpToDate, Working
<1>5. CASE Admit(route, h) = 0 /\ route \notin SavedRoutes
  <2>1. s = [Idle EXCEPT !.pc = "reply", !.route = route, !.role = TokenRole(h), !.code = 200]
    BY <1>5 DEF Received
  <2>2. s.pc = "reply" /\ s.route = route /\ s.role = TokenRole(h) /\ s.user = NoUser
    BY <2>1 DEF Idle
  <2>3. s \in RequestState
    <3>1. PICK code \in Codes : code = 200
      BY <1>7
    <3>2. PICK role \in Roles \cup {"none"} : role = TokenRole(h)
      BY <1>3
    <3>3. [Idle EXCEPT !.pc = "reply", !.route = route, !.role = role, !.code = code]
            \in RequestState
      BY AnsweredSet
    <3> QED
      BY <2>1, <3>1, <3>2, <3>3
  <2>4. route \in JobWrites => TokenRole(h) = "admin"
    BY <1>5, GroupsApart, WritesAreAdmins DEF Admit, TokenRole
  <2> QED
    BY <1>5, <2>2, <2>3, <2>4 DEF Fits, UpToDate, Working
<1>6. CASE Admit(route, h) = 0 /\ route \in SavedRoutes
  <2>1. ~AssertUUID(ContextUserID(h))
    BY DEF AssertUUID, ContextUserID
  <2>2. s = [Idle EXCEPT !.pc = "reply", !.route = route, !.role = TokenRole(h), !.code = 401]
    BY <1>6, <2>1 DEF Received
  <2>3. s.pc = "reply" /\ s.code = 401
    BY <2>2 DEF Idle
  <2>4. s \in RequestState
    <3>1. PICK code \in Codes : code = 401
      BY <1>7
    <3>2. PICK role \in Roles \cup {"none"} : role = TokenRole(h)
      BY <1>3
    <3>3. [Idle EXCEPT !.pc = "reply", !.route = route, !.role = role, !.code = code]
            \in RequestState
      BY AnsweredSet
    <3> QED
      BY <2>2, <3>1, <3>2, <3>3
  <2> QED
    BY <2>3, <2>4 DEF Fits, UpToDate, Working
<1> QED
  BY <1>4, <1>5, <1>6

LEMMA ArrivalKeeps ==
  ASSUME IInv, NEW r \in Requests, NEW s \in RequestState, Fits(s), UpToDate(s), Arrive(r, s)
  PROVE  IInv'
BY ReadStep DEF Arrive

LEMMA HttpKeeps ==
  ASSUME IInv, NEW r \in Requests, NEW route \in Routes, NEW h \in Headers,
         Http(r, route, h)
  PROVE  IInv'
<1>1. PICK s \in Received(route, h) : Arrive(r, s)
  BY DEF Http
<1>2. s \in RequestState /\ Fits(s) /\ UpToDate(s)
  BY ReceivedFits
<1> QED
  BY <1>1, <1>2, ArrivalKeeps

LEMMA CallKeeps ==
  ASSUME IInv, NEW r \in Requests, NEW entry \in {"exists", "delete"},
         NEW u \in Users, NEW j \in JobIds, Call(r, entry, u, j)
  PROVE  IInv'
<1>1. PICK s \in RequestState : s = Entering(entry, u, j)
  BY CalledSet DEF Points, Working
<1>2. s.pc = entry /\ s.route = <<>> /\ s.user = u
  BY <1>1 DEF Entering, Idle
<1>3. Fits(s) /\ UpToDate(s)
  BY <1>2, NoRoute DEF Fits, UpToDate, Working
<1> QED
  BY <1>1, <1>3, ArrivalKeeps DEF Call

LEMMA CallListKeeps ==
  ASSUME IInv, NEW r \in Requests, NEW u \in Users, NEW page \in Numbers, NEW limit \in Numbers,
         CallList(r, u, page, limit)
  PROVE  IInv'
<1>1. PICK s \in RequestState : s = Listing(u, page, limit)
  BY ListedSet
<1>2. s.pc = "select" /\ s.route = <<>> /\ s.user = u
  BY <1>1 DEF Listing, Idle
<1>3. Fits(s) /\ UpToDate(s)
  BY <1>2, NoRoute DEF Fits, UpToDate, Working
<1> QED
  BY <1>1, <1>3, ArrivalKeeps DEF CallList

\* A statement answers with an error, or without a write.
LEMMA ReplyKeeps ==
  ASSUME IInv, NEW r \in Requests, req[r].pc \in Working, NEW code \in Codes \ {200},
         Reply(r, code), UNCHANGED <<saved, ledger, unsure>>
  PROVE  IInv'
<1>1. req[r] \in RequestState /\ Fits(req[r])
  BY DEF IInv, TypeOK
<1>2. PICK s \in RequestState : s = [req[r] EXCEPT !.pc = "reply", !.code = code]
  <2>1. [req[r] EXCEPT !.pc = "reply", !.code = code] \in RequestState
    BY <1>1, ReplySet
  <2> QED
    BY <2>1
<1>3. s.pc = "reply" /\ s.code = code /\ s.route = req[r].route
  BY <1>1, <1>2 DEF RequestState
<1>4. s.route = <<>>
  BY <1>1, <1>3 DEF Fits
<1>5. Fits(s) /\ UpToDate(s)
  BY <1>3, <1>4, NoRoute DEF Fits, UpToDate, Working
<1>6. req' = [req EXCEPT ![r] = s]
  BY <1>2 DEF Reply
<1> QED
  BY <1>5, <1>6, ReadStep

LEMMA ErrorCodes == {201, 204, 404, 409, 500} \subseteq Codes \ {200}
BY DEF Codes

LEMMA ExistsKeeps == ASSUME IInv, NEW r \in Requests, Exists(r) PROVE IInv'
<1>1. req[r].pc = "exists" /\ UNCHANGED <<saved, ledger, unsure>>
  BY DEF Exists
<1>2. CASE Reply(r, 409) \/ Reply(r, 500)
  BY <1>1, <1>2, ReplyKeeps, ErrorCodes DEF Working
<1>3. CASE req' = [req EXCEPT ![r].pc = "create"]
  <2>1. req[r] \in RequestState /\ Fits(req[r])
    BY DEF IInv, TypeOK
  <2>2. PICK s \in RequestState : s = [req[r] EXCEPT !.pc = "create"]
    BY <2>1, FieldSet DEF Points, Working
  <2>3. s.pc = "create" /\ s.route = req[r].route /\ s.user = req[r].user
    BY <2>1, <2>2 DEF RequestState
  <2>4. Fits(s) /\ UpToDate(s)
    BY <1>1, <2>1, <2>3, NoRoute DEF Fits, UpToDate, Working
  <2>5. req' = [req EXCEPT ![r] = s]
    BY <1>3, <2>2
  <2> QED
    BY <1>1, <2>4, <2>5, ReadStep
<1> QED
  BY <1>2, <1>3 DEF Exists

\* The pair of a request that is at its write.
LEMMA PairTyped ==
  ASSUME IInv, NEW r \in Requests, req[r].pc \in Working
  PROVE  Pair(r) \in Pairs /\ (req[r].job \in Jobs => Pair(r) \in Users \X Jobs)
<1>1. req[r].user \in Users
  BY DEF IInv, Fits
<1>2. req[r].job \in JobIds
  BY DEF IInv, TypeOK, RequestState
<1> QED
  BY <1>1, <1>2 DEF Pair, Pairs

LEMMA CreateKeeps == ASSUME IInv, NEW r \in Requests, Create(r) PROVE IInv'
<1>1. req[r].pc = "create"
  BY DEF Create
<1>2. CASE Reply(r, 500) /\ UNCHANGED <<saved, ledger, unsure>>
  BY <1>1, <1>2, ReplyKeeps, ErrorCodes DEF Working
<1>3. CASE ~(Reply(r, 500) /\ UNCHANGED <<saved, ledger, unsure>>)
  <2>1. Pair(r) \notin saved /\ req[r].job \in Jobs /\ saved' = saved \cup {Pair(r)}
    BY <1>3 DEF Create
  <2>2. PICK p \in Users \X Jobs : p = Pair(r)
    BY <1>1, <2>1, PairTyped DEF Working
  <2>3. p \in Pairs /\ p \notin saved /\ saved' = saved \cup {p}
    BY <1>1, <2>1, <2>2, PairTyped DEF Working
  <2>4. CASE Tally(Pair(r), 1) /\ Wrote(r, Pair(r), 201) /\ UNCHANGED unsure
    <3>1. ledger' \in [Pairs -> Int] /\ AnswersAddUp' /\ unsure' \subseteq Pairs
      BY <2>2, <2>3, <2>4, LedgerAfter
    <3> QED
      BY <1>1, <2>2, <2>3, <2>4, <3>1, WriteStep, ErrorCodes
  <2>5. CASE unsure' = unsure \cup {Pair(r)} /\ Wrote(r, Pair(r), 500) /\ UNCHANGED ledger
    <3>1. ledger' \in [Pairs -> Int] /\ AnswersAddUp' /\ unsure' \subseteq Pairs
      BY <2>2, <2>3, <2>5, LedgerClosed
    <3> QED
      BY <1>1, <2>2, <2>3, <2>5, <3>1, WriteStep, ErrorCodes
  <2> QED
    BY <1>3, <2>4, <2>5 DEF Create
<1> QED
  BY <1>2, <1>3

LEMMA DeleteKeeps == ASSUME IInv, NEW r \in Requests, Delete(r) PROVE IInv'
<1>1. req[r].pc = "delete"
  BY DEF Delete
<1>2. CASE (Reply(r, 404) \/ Reply(r, 500)) /\ UNCHANGED <<saved, ledger, unsure>>
  BY <1>1, <1>2, ReplyKeeps, ErrorCodes DEF Working
<1>3. CASE ~((Reply(r, 404) \/ Reply(r, 500)) /\ UNCHANGED <<saved, ledger, unsure>>)
  <2>1. Pair(r) \in saved /\ saved' = saved \ {Pair(r)}
    BY <1>3 DEF Delete
  <2>2. PICK p \in Users \X Jobs : p = Pair(r)
    BY <2>1 DEF IInv, TypeOK
  <2>3. p \in Pairs /\ p \in saved /\ saved' = saved \ {p}
    BY <1>1, <2>1, <2>2, PairTyped DEF Working
  <2>4. CASE Tally(Pair(r), -1) /\ Wrote(r, Pair(r), 204) /\ UNCHANGED unsure
    <3>1. ledger' \in [Pairs -> Int] /\ AnswersAddUp' /\ unsure' \subseteq Pairs
      BY <2>2, <2>3, <2>4, LedgerAfter
    <3> QED
      BY <1>1, <2>2, <2>3, <2>4, <3>1, WriteStep, ErrorCodes
  <2>5. CASE unsure' = unsure \cup {Pair(r)} /\ Wrote(r, Pair(r), 500) /\ UNCHANGED ledger
    <3>1. ledger' \in [Pairs -> Int] /\ AnswersAddUp' /\ unsure' \subseteq Pairs
      BY <2>2, <2>3, <2>5, LedgerClosed
    <3> QED
      BY <1>1, <2>2, <2>3, <2>5, <3>1, WriteStep, ErrorCodes
  <2> QED
    BY <1>3, <2>4, <2>5 DEF Delete
<1> QED
  BY <1>2, <1>3

LEMMA SelectKeeps == ASSUME IInv, NEW r \in Requests, Select(r) PROVE IInv'
<1>1. req[r].pc = "select" /\ UNCHANGED <<saved, ledger, unsure>>
  BY DEF Select
<1>2. req[r] \in RequestState /\ Fits(req[r])
  BY DEF IInv, TypeOK
<1>3. CASE Reply(r, 500)
  BY <1>1, <1>3, ReplyKeeps, ErrorCodes DEF Working
<1> DEFINE full == PageLength(Cardinality(Own(req[r].user)), req[r].limit, req[r].offset)
<1>4. ASSUME NEW page \in SUBSET Own(req[r].user),
             req' = [req EXCEPT ![r].pc = "count", ![r].page = page,
                                ![r].exact = (Cardinality(page) = full)]
      PROVE  IInv'
  <2>1. PICK b \in BOOLEAN : b = (Cardinality(page) = full)
    OBVIOUS
  <2>2. page \in SUBSET Jobs
    BY DEF Own
  <2>3. PICK s \in RequestState : s = [req[r] EXCEPT !.pc = "count", !.page = page, !.exact = b]
    <3>1. [req[r] EXCEPT !.pc = "count", !.page = page, !.exact = b] \in RequestState
      BY <1>2, <2>2, PageSet
    <3> QED
      BY <3>1
  <2>4. /\ s.pc = "count" /\ s.page = page /\ s.exact = b
        /\ s.route = req[r].route /\ s.user = req[r].user
        /\ s.limit = req[r].limit /\ s.offset = req[r].offset
    BY <1>2, <2>3 DEF RequestState
  <2>5. Fits(s)
    BY <1>1, <1>2, <2>4, NoRoute DEF Fits, Working
  <2>6. UpToDate(s)
    BY <2>1, <2>4 DEF UpToDate
  <2>7. req' = [req EXCEPT ![r] = s]
    BY <1>4, <2>1, <2>3
  <2> QED
    BY <1>1, <2>5, <2>6, <2>7, ReadStep
<1> QED
  BY <1>3, <1>4 DEF Select

LEMMA CountKeeps == ASSUME IInv, NEW r \in Requests, Count(r) PROVE IInv'
<1>1. req[r].pc = "count" /\ UNCHANGED <<saved, ledger, unsure>>
  BY DEF Count
<1>2. req[r] \in RequestState /\ Fits(req[r]) /\ UpToDate(req[r])
  BY DEF IInv, TypeOK
<1>3. CASE Reply(r, 500)
  BY <1>1, <1>3, ReplyKeeps, ErrorCodes DEF Working
<1>4. CASE req' = [req EXCEPT ![r].pc = "reply", ![r].code = 200,
                              ![r].total = Cardinality(Own(req[r].user))]
  <2>1. PICK n \in Nat : n = Cardinality(Own(req[r].user))
    <3>1. IsFiniteSet(Own(req[r].user))
      BY FS_Subset DEF Own
    <3> QED
      BY <3>1, FS_CardinalityType
  <2>2. PICK code \in Codes : code = 200
    BY DEF Codes
  <2>3. PICK s \in RequestState : s = [req[r] EXCEPT !.pc = "reply", !.code = code, !.total = n]
    <3>1. [req[r] EXCEPT !.pc = "reply", !.code = code, !.total = n] \in RequestState
      BY <1>2, TotalSet
    <3> QED
      BY <3>1
  <2>4. /\ s.pc = "reply" /\ s.total = n /\ s.page = req[r].page /\ s.exact = req[r].exact
        /\ s.route = req[r].route /\ s.user = req[r].user
        /\ s.limit = req[r].limit /\ s.offset = req[r].offset
    BY <1>2, <2>3 DEF RequestState
  <2>5. s.route = <<>>
    BY <1>1, <1>2, <2>4 DEF Fits, Working
  <2>6. Fits(s)
    BY <2>4, <2>5, NoRoute DEF Fits, Working
  <2>7. UpToDate(s)
    BY <1>1, <1>2, <2>1, <2>4 DEF UpToDate
  <2>8. req' = [req EXCEPT ![r] = s]
    BY <1>4, <2>1, <2>2, <2>3
  <2> QED
    BY <1>1, <2>6, <2>7, <2>8, ReadStep
<1> QED
  BY <1>3, <1>4 DEF Count

LEMMA AnswerKeeps == ASSUME IInv, NEW r \in Requests, Answer(r) PROVE IInv'
BY IdleFits, ReadStep DEF Answer

LEMMA SeedKeeps == ASSUME IInv, NEW p \in Users \X Jobs, Seed(p) PROVE IInv'
<1>1. p \in Pairs /\ p \notin saved /\ saved' = saved \cup {p}
  BY DEF Seed, Pairs, JobIds
<1>2. ledger' \in [Pairs -> Int] /\ AnswersAddUp' /\ unsure' \subseteq Pairs
  BY <1>1, LedgerAfter DEF Seed
<1>3. \A v : v # p[1] => Own(v)' = Own(v)
  BY <1>1, OwnElsewhere
<1>4. ASSUME NEW q \in Requests
      PROVE  req'[q] \in RequestState /\ Fits(req'[q]) /\ UpToDate(req[q])'
  <2>1. PICK t : t = req'[q]
    OBVIOUS
  <2>2. t = IF req[q].user = p[1] THEN [req[q] EXCEPT !.exact = FALSE] ELSE req[q]
    BY <2>1 DEF Seed
  <2>3. t \in RequestState /\ Fits(t) /\ UpToDate(t)'
    BY <1>3, <2>2, Others
  <2> QED
    BY <2>1, <2>3, UpToDateAfter
<1>5. DOMAIN req' = Requests /\ req' = [q \in Requests |-> req'[q]]
  BY DEF Seed
<1> QED
  BY <1>1, <1>2, <1>4, <1>5, TableStep

LEMMA StepKeeps == IInv /\ [Next]_vars => IInv'
<1> SUFFICES ASSUME IInv, [Next]_vars PROVE IInv'
  OBVIOUS
<1>1. CASE UNCHANGED vars
  BY <1>1 DEF IInv, TypeOK, AnswersAddUp, Fits, UpToDate, Own, vars
<1>2. ASSUME NEW r \in Requests, NEW h \in Headers, NEW route \in Routes, Http(r, route, h)
      PROVE  IInv'
  BY <1>2, HttpKeeps
<1>3. ASSUME NEW r \in Requests, NEW entry \in {"exists", "delete"},
             NEW u \in Users, NEW j \in JobIds, Call(r, entry, u, j)
      PROVE  IInv'
  BY <1>3, CallKeeps
<1>6. ASSUME NEW r \in Requests, NEW u \in Users, NEW page \in Numbers, NEW limit \in Numbers,
             CallList(r, u, page, limit)
      PROVE  IInv'
  BY <1>6, CallListKeeps
<1>4. ASSUME NEW r \in Requests, Step(r) PROVE IInv'
  BY <1>4, ExistsKeeps, CreateKeeps, DeleteKeeps, SelectKeeps, CountKeeps, AnswerKeeps DEF Step
<1>5. ASSUME NEW p \in Users \X Jobs, Seed(p) PROVE IInv'
  BY <1>5, SeedKeeps
<1> QED
  BY <1>1, <1>2, <1>3, <1>4, <1>5, <1>6 DEF Next

LEMMA Invariance == Spec => []IInv
<1>1. Init => IInv
  BY InitHolds
<1>2. IInv /\ [Next]_vars => IInv'
  BY StepKeeps
<1> QED
  BY <1>1, <1>2, PTL DEF Spec

-----------------------------------------------------------------------------
\* Every reachable state is well typed.
THEOREM TypeCorrect == Spec => []TypeOK
<1>1. IInv => TypeOK
  BY DEF IInv
<1> QED
  BY <1>1, Invariance, PTL

\* The acknowledged saves and removals of a pair are what the table shows,
\* for any number of concurrent requests.
THEOREM AnswersTellTheTable == Spec => []AnswersAddUp
<1>1. IInv => AnswersAddUp
  BY DEF IInv
<1> QED
  BY <1>1, Invariance, PTL

\* A list whose user's rows did not change while it was read has a page as
\* long as its total, limit and offset say, however many rows there are.
THEOREM TotalsMatch == Spec => []TotalMatchesPage
<1>1. IInv => TotalMatchesPage
  BY DEF IInv, UpToDate, TotalMatchesPage
<1> QED
  BY <1>1, Invariance, PTL

\* Whatever tokens arrive, a handler that writes jobs serves administrators.
THEOREM AdminsOnly == Spec => []OnlyAdminsWriteJobs
<1>1. IInv => OnlyAdminsWriteJobs
  BY DEF IInv, Fits, OnlyAdminsWriteJobs
<1> QED
  BY <1>1, Invariance, PTL

=============================================================================
