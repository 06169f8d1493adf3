------------------------- MODULE ApplicationsProofs -------------------------
(***************************************************************************)
(* Proofs about Applications, for any number of users, jobs, ids and       *)
(* concurrent requests.  The owner check and the write it guards are two   *)
(* statements; what makes the pair safe is that an id is never created     *)
(* twice and that no statement changes the owner of a row.  OwnerChecked   *)
(* is that argument as an invariant.                                       *)
(***************************************************************************)
EXTENDS Applications, TLAPS

\* A request that passed the owner check names an id that was drawn, and the
\* row under it, if it still exists, belongs to the request's user.
OwnerChecked ==
  \A r \in Requests :
    req[r].pc = "write"
      => /\ req[r].op \in {"update", "delete"}
         /\ req[r].app \in used
         /\ req[r].status \in Statuses
         /\ rows[req[r].app] # NoRow => rows[req[r].app].user = req[r].user

ListsAreDrawn == \A r \in Requests : req[r].list \subseteq used

RowsAreDrawn == \A a \in Apps : rows[a] # NoRow => a \in used

DeletedIsDrawn ==
  \A r \in Requests :
    req[r].pc = "reply" /\ req[r].op = "delete" /\ req[r].code \in {200, 404}
      => req[r].app \in used

Inv ==
  /\ TypeOK
  /\ RowsAreDrawn
  /\ ListsAreDrawn
  /\ OwnerChecked
  /\ DeletedIsDrawn
  /\ ListsShowOwnRows
  /\ DeletedStaysDeleted

LEMMA InitInv == Init => Inv
BY DEF Init, Inv, TypeOK, Idle, RequestState, Statuses, RowsAreDrawn, ListsAreDrawn,
       OwnerChecked, DeletedIsDrawn, ListsShowOwnRows, DeletedStaysDeleted

LEMMA CreateKeeps ==
  ASSUME Inv, NEW r \in Requests, NEW u \in Users, NEW j \in Jobs \cup {NoJob}, Create(r, u, j)
  PROVE  Inv'
<1> USE ApplicationsAssumption DEF Inv, TypeOK, Row, RequestState, Statuses
<1>1. TypeOK'
  <2>1. ASSUME Begin(r, "create", u, NoApp, "saved", {}, "reply", 500),
               UNCHANGED <<rows, used>>
        PROVE  TypeOK'
    BY <2>1 DEF Begin
  <2>2. ASSUME NEW a \in Apps, NEW code \in {201, 500}, Insertable(u, j),
               used' = used \cup {a},
               rows' = [rows EXCEPT ![a] = [user |-> u, job |-> j, status |-> "saved"]],
               Begin(r, "create", u, a, "saved", {}, "reply", code)
        PROVE  TypeOK'
    <3>1. rows' \in [Apps -> Row \cup {NoRow}]
      BY <2>2 DEF Insertable
    <3>2. req' \in [Requests -> RequestState]
      BY <2>2 DEF Begin
    <3> QED
      BY <2>2, <3>1, <3>2
  <2> QED
    BY <2>1, <2>2 DEF Create
<1>2. RowsAreDrawn'
  BY DEF Create, RowsAreDrawn
<1>3. ListsAreDrawn'
  BY DEF Create, Begin, ListsAreDrawn
<1>4. OwnerChecked'
  BY DEF Create, NewId, Begin, OwnerChecked
<1>5. DeletedIsDrawn'
  BY DEF Create, Begin, DeletedIsDrawn
<1>6. ListsShowOwnRows'
  BY DEF Create, NewId, Begin, ListsAreDrawn, ListsShowOwnRows
<1>7. DeletedStaysDeleted'
  BY DEF Create, NewId, Begin, DeletedIsDrawn, DeletedStaysDeleted
<1> QED
  BY <1>1, <1>2, <1>3, <1>4, <1>5, <1>6, <1>7

LEMMA ListKeeps ==
  ASSUME Inv, NEW r \in Requests, NEW u \in Users, List(r, u)
  PROVE  Inv'
<1> USE ApplicationsAssumption DEF Inv, TypeOK, Row, RequestState, Statuses
<1>1. TypeOK'
  BY DEF List, Begin
<1>2. RowsAreDrawn'
  BY DEF List, RowsAreDrawn
<1>3. ListsAreDrawn'
  BY DEF List, Begin, RowsAreDrawn, ListsAreDrawn, OwnerChecked
<1>4. OwnerChecked'
  BY DEF List, Begin, OwnerChecked
<1>5. DeletedIsDrawn'
  BY DEF List, Begin, DeletedIsDrawn
<1>6. ListsShowOwnRows'
  BY DEF List, Begin, ListsShowOwnRows
<1>7. DeletedStaysDeleted'
  BY DEF List, Begin, ListsShowOwnRows, DeletedStaysDeleted
<1> QED
  BY <1>1, <1>2, <1>3, <1>4, <1>5, <1>6, <1>7

LEMMA CheckUpdateKeeps ==
  ASSUME Inv, NEW r \in Requests, NEW u \in Users, NEW a \in used,
         NEW status \in Statuses \cup {"bogus"}, CheckUpdate(r, u, a, status)
  PROVE  Inv'
<1> USE ApplicationsAssumption DEF Inv, TypeOK, Row, RequestState, Statuses
<1>1. TypeOK'
  BY DEF CheckUpdate, Refuse, Begin
<1>2. RowsAreDrawn'
  BY DEF CheckUpdate, RowsAreDrawn
<1>3. ListsAreDrawn'
  BY DEF CheckUpdate, Refuse, Begin, ListsAreDrawn
<1>4. OwnerChecked'
  BY DEF CheckUpdate, Refuse, MayWrite, Begin, OwnerChecked
<1>5. DeletedIsDrawn'
  BY DEF CheckUpdate, Refuse, Begin, DeletedIsDrawn
<1>6. ListsShowOwnRows'
  BY DEF CheckUpdate, Refuse, Begin, ListsShowOwnRows
<1>7. DeletedStaysDeleted'
  BY DEF CheckUpdate, Refuse, Begin, DeletedStaysDeleted
<1> QED
  BY <1>1, <1>2, <1>3, <1>4, <1>5, <1>6, <1>7

LEMMA CheckDeleteKeeps ==
  ASSUME Inv, NEW r \in Requests, NEW u \in Users, NEW a \in used, CheckDelete(r, u, a)
  PROVE  Inv'
<1> USE ApplicationsAssumption DEF Inv, TypeOK, Row, RequestState, Statuses
<1>1. TypeOK'
  BY DEF CheckDelete, Refuse, Begin
<1>2. RowsAreDrawn'
  BY DEF CheckDelete, RowsAreDrawn
<1>3. ListsAreDrawn'
  BY DEF CheckDelete, Refuse, Begin, ListsAreDrawn
<1>4. OwnerChecked'
  BY DEF CheckDelete, Refuse, MayWrite, Begin, OwnerChecked
<1>5. DeletedIsDrawn'
  BY DEF CheckDelete, Refuse, Begin, DeletedIsDrawn
<1>6. ListsShowOwnRows'
  BY DEF CheckDelete, Refuse, Begin, ListsShowOwnRows
<1>7. DeletedStaysDeleted'
  BY DEF CheckDelete, Refuse, Begin, DeletedStaysDeleted
<1> QED
  BY <1>1, <1>2, <1>3, <1>4, <1>5, <1>6, <1>7

LEMMA WriteStatusKeeps ==
  ASSUME Inv, NEW r \in Requests, WriteStatus(r)
  PROVE  Inv'
<1> USE ApplicationsAssumption DEF Inv, TypeOK, Row, RequestState, Statuses
<1>1. TypeOK'
  <2>1. rows' \in [Apps -> Row \cup {NoRow}]
    <3>1. req[r].app \in used /\ req[r].status \in Statuses
      BY DEF WriteStatus, OwnerChecked
    <3>2. rows[req[r].app] # NoRow
            => [rows[req[r].app] EXCEPT !.status = req[r].status] \in Row
      BY <3>1
    <3> QED
      BY <3>1, <3>2 DEF WriteStatus, Write
  <2>2. req' \in [Requests -> RequestState]
    BY DEF WriteStatus, Reply
  <2> QED
    BY <2>1, <2>2 DEF WriteStatus
<1>2. RowsAreDrawn'
  BY DEF WriteStatus, Write, RowsAreDrawn
<1>3. ListsAreDrawn'
  BY DEF WriteStatus, Reply, ListsAreDrawn, DeletedIsDrawn
<1>4. OwnerChecked'
  BY DEF WriteStatus, Write, Reply, OwnerChecked
<1>5. DeletedIsDrawn'
  BY DEF WriteStatus, Reply, OwnerChecked, DeletedIsDrawn
<1>6. ListsShowOwnRows'
  BY DEF WriteStatus, Write, Reply, ListsShowOwnRows
<1>7. DeletedStaysDeleted'
  BY DEF WriteStatus, Write, Reply, ListsAreDrawn, DeletedIsDrawn, DeletedStaysDeleted
<1> QED
  BY <1>1, <1>2, <1>3, <1>4, <1>5, <1>6, <1>7

LEMMA WriteDeleteKeeps ==
  ASSUME Inv, NEW r \in Requests, WriteDelete(r)
  PROVE  Inv'
<1> USE ApplicationsAssumption DEF Inv, TypeOK, Row, RequestState, Statuses
<1>1. TypeOK'
  BY DEF WriteDelete, Write, Reply
<1>2. RowsAreDrawn'
  BY DEF WriteDelete, Write, RowsAreDrawn
<1>3. ListsAreDrawn'
  BY DEF WriteDelete, Write, Reply, ListsAreDrawn
<1>4. OwnerChecked'
  BY DEF WriteDelete, Write, Reply, OwnerChecked
<1>5. DeletedIsDrawn'
  BY DEF WriteDelete, Write, Reply, OwnerChecked, DeletedIsDrawn
<1>6. ListsShowOwnRows'
  BY DEF WriteDelete, Write, Reply, DeletedIsDrawn, ListsShowOwnRows
<1>7. DeletedStaysDeleted'
  BY DEF WriteDelete, Write, Reply, OwnerChecked, DeletedIsDrawn, DeletedStaysDeleted
<1> QED
  BY <1>1, <1>2, <1>3, <1>4, <1>5, <1>6, <1>7

LEMMA AnswerKeeps ==
  ASSUME Inv, NEW r \in Requests, Answer(r)
  PROVE  Inv'
<1> USE ApplicationsAssumption DEF Inv, TypeOK, Row, RequestState, Statuses
<1>1. TypeOK'
  BY DEF Answer, Idle
<1>2. RowsAreDrawn'
  BY DEF Answer, RowsAreDrawn
<1>3. ListsAreDrawn'
  BY DEF Answer, Idle, ListsAreDrawn
<1>4. OwnerChecked'
  BY DEF Answer, Idle, OwnerChecked
<1>5. DeletedIsDrawn'
  BY DEF Answer, Idle, DeletedIsDrawn
<1>6. ListsShowOwnRows'
  BY DEF Answer, Idle, ListsShowOwnRows
<1>7. DeletedStaysDeleted'
  BY DEF Answer, Idle, DeletedStaysDeleted
<1> QED
  BY <1>1, <1>2, <1>3, <1>4, <1>5, <1>6, <1>7

LEMMA CrashKeeps ==
  ASSUME Inv, Crash
  PROVE  Inv'
<1> USE ApplicationsAssumption DEF Inv, TypeOK, Row, RequestState, Statuses
<1>1. TypeOK'
  BY DEF Crash, Idle
<1>2. RowsAreDrawn'
  BY DEF Crash, RowsAreDrawn
<1>3. ListsAreDrawn'
  BY DEF Crash, Idle, ListsAreDrawn
<1>4. OwnerChecked'
  BY DEF Crash, Idle, OwnerChecked
<1>5. DeletedIsDrawn'
  BY DEF Crash, Idle, DeletedIsDrawn
<1>6. ListsShowOwnRows'
  BY DEF Crash, Idle, ListsShowOwnRows
<1>7. DeletedStaysDeleted'
  BY DEF Crash, Idle, DeletedStaysDeleted
<1> QED
  BY <1>1, <1>2, <1>3, <1>4, <1>5, <1>6, <1>7

\* Every action of Applications preserves the inductive invariant.
LEMMA NextInv == Inv /\ [Next]_vars => Inv'
<1> SUFFICES ASSUME Inv, [Next]_vars PROVE Inv'
  OBVIOUS
<1>1. CASE UNCHANGED vars
  BY <1>1
  DEF vars, Inv, TypeOK, RowsAreDrawn, ListsAreDrawn, OwnerChecked, DeletedIsDrawn,
      ListsShowOwnRows, DeletedStaysDeleted
<1>2. CASE Next
  BY <1>2, CreateKeeps, ListKeeps, CheckUpdateKeeps, CheckDeleteKeeps, WriteStatusKeeps,
     WriteDeleteKeeps, AnswerKeeps, CrashKeeps DEF Next, Submit
<1> QED
  BY <1>1, <1>2

LEMMA Invariance == Spec => []Inv
BY InitInv, NextInv, PTL DEF Spec

\* Every reachable state is well typed; in particular no status outside the
\* five ever reaches the table.
THEOREM TypeCorrect == Spec => []TypeOK
BY Invariance, PTL DEF Inv

\* A list never names a row of someone else.
THEOREM ListsAreOwn == Spec => []ListsShowOwnRows
BY Invariance, PTL DEF Inv

\* What a delete has reported as gone stays gone.
THEOREM DeletionIsFinal == Spec => []DeletedStaysDeleted
BY Invariance, PTL DEF Inv

-----------------------------------------------------------------------------
(* Action properties.                                                      *)

OwnerChange ==
  \A a \in Apps :
    rows[a] # NoRow /\ rows'[a] # rows[a]
      => \E r \in Requests :
           req'[r] # req[r] /\ req[r].app = a /\ req[r].user = rows[a].user

LEMMA WriterIsOwner ==
  ASSUME Inv, NEW r \in Requests, WriteStatus(r) \/ WriteDelete(r)
  PROVE  OwnerChange
<1> USE DEF Inv, TypeOK, RequestState
<1>1. /\ req[r].pc = "write"
      /\ \A a \in Apps \ {req[r].app} : rows'[a] = rows[a]
  BY DEF WriteStatus, WriteDelete, Write
<1>2. req'[r].pc = "reply"
  <2>1. Reply(r, 200) \/ Reply(r, 500)
    BY DEF WriteStatus, WriteDelete
  <2> QED
    BY <2>1 DEF Reply
<1>3. rows[req[r].app] # NoRow => rows[req[r].app].user = req[r].user
  BY <1>1 DEF OwnerChecked
<1> QED
  BY <1>1, <1>2, <1>3 DEF OwnerChange

LEMMA OwnerStep == Inv /\ [Next]_vars => [OwnerChange]_vars
<1> SUFFICES ASSUME Inv, Next PROVE OwnerChange
  BY DEF OwnerChange
<1>1. ASSUME NEW r \in Requests, Submit(r) PROVE OwnerChange
  <2>1. \A a \in Apps : rows[a] # NoRow => rows'[a] = rows[a]
    BY <1>1
    DEF Inv, TypeOK, RowsAreDrawn, Submit, Create, NewId, List, CheckUpdate, CheckDelete
  <2> QED
    BY <2>1 DEF OwnerChange
<1>2. ASSUME NEW r \in Requests, Answer(r) PROVE OwnerChange
  BY <1>2 DEF Answer, OwnerChange
<1>3. CASE Crash
  BY <1>3 DEF Crash, OwnerChange
<1> QED
  BY <1>1, <1>2, <1>3, WriterIsOwner DEF Next

\* A row changes or disappears only through a request of its owner that named
\* it, though the check and the write are separate statements.
THEOREM OwnerOnly == Spec => OnlyTheOwnerChanges
BY Invariance, OwnerStep, PTL DEF Spec, OnlyTheOwnerChanges, OwnerChange

-----------------------------------------------------------------------------
(* Applications implements OneLife, with the owner as the holder.          *)

Owner(a) == IF rows[a] = NoRow THEN NoUser ELSE rows[a].user

LEMMA SameLife ==
  ASSUME \A a \in Apps : Phase(a)' = Phase(a) /\ Owner(a)' = Owner(a)
  PROVE  UNCHANGED Life!vars
BY DEF Life!vars, Owner

LEMMA LifeStep == Inv /\ [Next]_vars => [Life!Next]_Life!vars
<1> SUFFICES ASSUME Inv, [Next]_vars PROVE [Life!Next]_Life!vars
  OBVIOUS
<1> USE ApplicationsAssumption DEF Inv, TypeOK, Row
<1>1. CASE rows' = rows /\ used' = used
  BY <1>1, SameLife DEF Phase, Owner
<1>2. ASSUME NEW r \in Requests, NEW u \in Users, NEW j \in Jobs \cup {NoJob}, Create(r, u, j)
      PROVE  [Life!Next]_Life!vars
  <2>1. ASSUME NEW a \in Apps, NewId(a), Insertable(u, j), used' = used \cup {a},
               rows' = [rows EXCEPT ![a] = [user |-> u, job |-> j, status |-> "saved"]]
        PROVE  Life!Grant(a, u)
    <3>1. j \in Jobs
      BY <2>1 DEF Insertable
    <3>2. Phase(a) = "unused" /\ Phase(a)' = "live" /\ Owner(a)' = u
      BY <2>1, <3>1 DEF NewId, RowsAreDrawn, Phase, Owner, Statuses
    <3>3. \A b \in Apps \ {a} : Phase(b)' = Phase(b) /\ Owner(b)' = Owner(b)
      BY <2>1 DEF Phase, Owner
    <3> QED
      BY <3>2, <3>3 DEF Life!Grant, Owner
  <2> QED
    BY <1>1, <1>2, <2>1 DEF Create, Life!Next
<1>3. ASSUME NEW r \in Requests, WriteStatus(r)
      PROVE  [Life!Next]_Life!vars
  <2>1. /\ used' = used
        /\ \/ rows' = rows
           \/ /\ rows[req[r].app] # NoRow
              /\ rows' = [rows EXCEPT ![req[r].app] =
                            [rows[req[r].app] EXCEPT !.status = req[r].status]]
    BY <1>3 DEF WriteStatus, Write
  <2>2. req[r].app \in Apps /\ req[r].status \in Statuses
    BY <1>3 DEF WriteStatus, OwnerChecked
  <2>3. \A a \in Apps : Phase(a)' = Phase(a) /\ Owner(a)' = Owner(a)
    BY <2>1, <2>2 DEF Phase, Owner
  <2> QED
    BY <2>3, SameLife
<1>4. ASSUME NEW r \in Requests, WriteDelete(r)
      PROVE  [Life!Next]_Life!vars
  <2>1. req[r].app \in used /\ used' = used
    BY <1>4 DEF WriteDelete, OwnerChecked
  <2>2. \/ rows' = rows
        \/ rows[req[r].app] # NoRow /\ rows' = [rows EXCEPT ![req[r].app] = NoRow]
    BY <1>4 DEF WriteDelete, Write
  <2> PICK a \in used : a = req[r].app
    BY <2>1
  <2>3. CASE rows[a] # NoRow /\ rows' = [rows EXCEPT ![a] = NoRow]
    <3>1. Phase(a) = "live" /\ Phase(a)' = "dead" /\ Owner(a)' = NoUser
      BY <2>1, <2>3 DEF Phase, Owner
    <3>2. \A b \in Apps \ {a} : Phase(b)' = Phase(b) /\ Owner(b)' = Owner(b)
      BY <2>1, <2>3 DEF Phase, Owner
    <3>3. Life!Retire({a})
      BY <3>1, <3>2 DEF Life!Retire, Owner
    <3> QED
      BY <3>3 DEF Life!Next
  <2> QED
    BY <1>1, <2>1, <2>2, <2>3
<1>5. ASSUME NEW r \in Requests, Submit(r)
      PROVE  [Life!Next]_Life!vars
  BY <1>1, <1>2, <1>5 DEF Submit, List, CheckUpdate, CheckDelete
<1> QED
  BY <1>1, <1>3, <1>4, <1>5 DEF Next, Answer, Crash, vars

\* The applications table keeps the promise of OneLife.
THEOREM OneLifeRefinement == Spec => IdHasOneLife
<1>1. Init => Life!Init
  BY DEF Init, Life!Init, Phase
<1> QED
  BY <1>1, LifeStep, Invariance, PTL DEF Spec, IdHasOneLife, Life!Spec

=============================================================================
