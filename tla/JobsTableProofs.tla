-------------------------- MODULE JobsTableProofs --------------------------
(***************************************************************************)
(* Who writes the jobs table and who lists it.  What JobFeed promises for  *)
(* any number of instances, listings, jobs and any length of the feed;     *)
(* then what JobCatalogue promises for all filters, requests and lengths   *)
(* of the table's history: a list is a page of one moment, and its total   *)
(* leads to every job.                                                     *)
(***************************************************************************)
EXTENDS JobFeed, JobCatalogue, FiniteSetTheorems, SequenceTheorems, TLAPS

USE JobFeedAssumption

\* A request for a listing is always for one of the feed.
OnFeed ==
  \A w \in Workers : worker[w].pc \in {"check", "insert"} =>
    worker[w].next \in DOMAIN worker[w].feed

Safe == TypeOK /\ OnFeed

LEMMA FeedTyped ==
  ASSUME NEW feed \in Feeds
  PROVE  /\ Len(feed) \in 0..MaxFeed
         /\ DOMAIN feed = 1..Len(feed)
         /\ \A i \in 1..Len(feed) : feed[i] \in Sources
<1>1. PICK n \in 0..MaxFeed : feed \in [1..n -> Sources]
  BY DEF Feeds
<1>2. Len(feed) = n
  BY <1>1
<1> QED
  BY <1>1, <1>2

LEMMA EmptyFeed == <<>> \in Feeds
<1>1. <<>> \in [1..0 -> Sources]
  OBVIOUS
<1> QED
  BY <1>1 DEF Feeds

LEMMA StartedTyped == Started \in WorkerState /\ Started.pc = "fetch"
  BY EmptyFeed DEF Started, WorkerState

\* The three ways a worker's step leaves it.
LEMMA WorkerMoves ==
  ASSUME Safe, NEW w \in Workers,
         NEW q \in WorkerState, worker' = [worker EXCEPT ![w] = q],
         q.pc \in {"check", "insert"} => q.next \in DOMAIN q.feed
  PROVE  worker' \in [Workers -> WorkerState] /\ OnFeed'
  BY DEF Safe, TypeOK, OnFeed

LEMMA GotoMoves ==
  ASSUME Safe, NEW w \in Workers, NEW pc \in {"fetch", "insert", "select", "stopped"},
         pc = "insert" => worker[w].pc = "check", Goto(w, pc)
  PROVE  /\ worker' \in [Workers -> WorkerState] /\ OnFeed'
         /\ worker'[w].pc = pc /\ worker'[w].feed = worker[w].feed
         /\ worker'[w].next = worker[w].next /\ worker'[w].missed = worker[w].missed
         /\ \A v \in Workers : v # w => worker'[v] = worker[v]
<1> DEFINE q == [worker[w] EXCEPT !.pc = pc]
<1>1. worker[w] \in WorkerState
  BY DEF Safe, TypeOK
<1>2. /\ q \in WorkerState /\ q.pc = pc /\ q.feed = worker[w].feed
      /\ q.next = worker[w].next /\ q.missed = worker[w].missed
  BY <1>1 DEF WorkerState
<1>3. worker' = [worker EXCEPT ![w] = q]
  BY DEF Goto, Safe, TypeOK
<1>4. q.pc \in {"check", "insert"} => q.next \in DOMAIN q.feed
  BY <1>2 DEF Safe, OnFeed
<1> HIDE DEF q
<1>5. worker' \in [Workers -> WorkerState] /\ OnFeed'
  BY <1>2, <1>3, <1>4, WorkerMoves
<1> QED
  BY <1>2, <1>3, <1>5 DEF Safe, TypeOK

LEMMA AdvanceMoves ==
  ASSUME Safe, NEW w \in Workers, NEW missed \in SUBSET Sources,
         worker[w].pc \in {"check", "insert"}, Advance(w, missed)
  PROVE  /\ worker' \in [Workers -> WorkerState] /\ OnFeed'
         /\ worker'[w].pc = IF worker[w].next + 1 > Len(worker[w].feed) THEN "select" ELSE "check"
         /\ worker'[w].feed = worker[w].feed /\ worker'[w].next = worker[w].next + 1
         /\ worker'[w].missed = worker[w].missed \cup missed
         /\ \A v \in Workers : v # w => worker'[v] = worker[v]
<1> DEFINE next == worker[w].next + 1
           pc == IF next > Len(worker[w].feed) THEN "select" ELSE "check"
           q == [worker[w] EXCEPT !.pc = pc, !.next = next, !.missed = @ \cup missed]
<1>1. worker[w] \in WorkerState
  BY DEF Safe, TypeOK
<1>2. /\ Len(worker[w].feed) \in 0..MaxFeed /\ DOMAIN worker[w].feed = 1..Len(worker[w].feed)
      /\ worker[w].feed \in Feeds
  BY <1>1, FeedTyped DEF WorkerState
<1>3. worker[w].next \in 1..Len(worker[w].feed)
  BY <1>2 DEF Safe, OnFeed
<1>4. next \in 1..(MaxFeed + 1) /\ (pc = "check" => next \in 1..Len(worker[w].feed))
      /\ pc \in {"select", "check"}
  BY <1>2, <1>3
<1>5. worker[w].missed \cup missed \in SUBSET Sources
  BY <1>1 DEF WorkerState
<1>6. worker' = [worker EXCEPT ![w] = q]
  BY DEF Advance, Safe, TypeOK
<1> HIDE DEF next, pc
<1>7. /\ q \in WorkerState /\ q.pc = pc /\ q.feed = worker[w].feed
      /\ q.next = next /\ q.missed = worker[w].missed \cup missed
  BY <1>1, <1>4, <1>5 DEF WorkerState
<1> HIDE DEF q
<1>8. q.pc \in {"check", "insert"} => q.next \in DOMAIN q.feed
  BY <1>2, <1>4, <1>7
<1>9. worker' \in [Workers -> WorkerState] /\ OnFeed'
  BY <1>6, <1>7, <1>8, WorkerMoves
<1> QED
  BY <1>6, <1>7, <1>9 DEF Safe, TypeOK, next, pc

LEMMA NonemptyFeed ==
  ASSUME NEW feed \in Feeds, feed # <<>>
  PROVE  1 \in DOMAIN feed
<1>1. PICK n \in 0..MaxFeed : feed \in [1..n -> Sources]
  BY DEF Feeds
<1>2. CASE n = 0
  <2>1. feed \in [1..0 -> Sources]
    BY <1>1, <1>2
  <2>2. feed = <<>>
    BY <2>1
  <2> QED
    BY <2>2
<1>3. CASE n > 0
  BY <1>1, <1>3
<1> QED
  BY <1>2, <1>3

\* Fetch and Restart put a worker into a state of its own.
LEMMA FetchMoves ==
  ASSUME Safe, NEW w \in Workers, Fetch(w)
  PROVE  \E feed \in Feeds :
           LET q == [pc |-> IF feed = <<>> THEN "select" ELSE "check",
                     feed |-> feed, next |-> 1, missed |-> {}]
           IN  q \in WorkerState /\ worker' = [worker EXCEPT ![w] = q]
<1>1. \A feed \in Feeds :
        [pc |-> IF feed = <<>> THEN "select" ELSE "check",
         feed |-> feed, next |-> 1, missed |-> {}] \in WorkerState
  BY DEF WorkerState
<1>2. CASE \E feed \in Feeds :
             worker' = [worker EXCEPT ![w] =
               [pc |-> IF feed = <<>> THEN "select" ELSE "check",
                feed |-> feed, next |-> 1, missed |-> {}]]
  BY <1>1, <1>2
<1>3. CASE worker' = [worker EXCEPT ![w] = [Started EXCEPT !.pc = "select"]]
  <2>1. \A e : [[pc |-> "fetch", feed |-> e, next |-> 1, missed |-> {}] EXCEPT !.pc = "select"] =
                 [pc |-> "select", feed |-> e, next |-> 1, missed |-> {}]
    OBVIOUS
  <2>2. [Started EXCEPT !.pc = "select"] =
          [pc |-> "select", feed |-> <<>>, next |-> 1, missed |-> {}]
    BY <2>1 DEF Started
  <2>3. (IF <<>> = <<>> THEN "select" ELSE "check") = "select"
    OBVIOUS
  <2> QED
    BY <1>1, <1>3, <2>2, <2>3, EmptyFeed, Zenon
<1> QED
  BY <1>2, <1>3 DEF Fetch

LEMMA InitSafe == Init => Safe
  BY StartedTyped DEF Init, Safe, TypeOK, OnFeed

LEMMA RowsWritten ==
  ASSUME TypeOK, NEW j \in Jobs
  PROVE  /\ \A s \in Sources \cup {NoSource} :
              [rows EXCEPT ![j] = [source |-> s, active |-> TRUE]] \in [Jobs -> Row \cup {NoRow}]
         /\ rows[j] # NoRow =>
              /\ [rows[j] EXCEPT !.active = TRUE] \in Row
              /\ [rows[j] EXCEPT !.active = FALSE] \in Row
<1>1. \A row \in Row : [row EXCEPT !.active = TRUE] \in Row
  BY DEF Row
<1>2. \A row \in Row : [row EXCEPT !.active = FALSE] \in Row
  BY DEF Row
<1>3. \A s \in Sources \cup {NoSource} : [source |-> s, active |-> TRUE] \in Row
  BY DEF Row
<1> QED
  BY <1>1, <1>2, <1>3 DEF TypeOK

LEMMA CurrentTyped ==
  ASSUME Safe, NEW w \in Workers, worker[w].pc \in {"check", "insert"}
  PROVE  Current(w) \in Sources
<1>1. worker[w].feed \in Feeds
  BY DEF Safe, TypeOK, WorkerState
<1> QED
  BY <1>1, FeedTyped DEF Safe, OnFeed, Current

LEMMA NextSafe == Safe /\ [Next]_vars => Safe'
<1> SUFFICES ASSUME Safe, [Next]_vars PROVE Safe'
  OBVIOUS
<1>1. ASSUME NEW w \in Workers, Fetch(w) PROVE Safe'
  <2>1. PICK feed \in Feeds :
          LET q == [pc |-> IF feed = <<>> THEN "select" ELSE "check",
                    feed |-> feed, next |-> 1, missed |-> {}]
          IN  q \in WorkerState /\ worker' = [worker EXCEPT ![w] = q]
    BY <1>1, FetchMoves
  <2> DEFINE q == [pc |-> IF feed = <<>> THEN "select" ELSE "check",
                   feed |-> feed, next |-> 1, missed |-> {}]
  <2>2. q.pc \in {"check", "insert"} => q.next \in DOMAIN q.feed
    BY NonemptyFeed
  <2>3. q \in WorkerState /\ worker' = [worker EXCEPT ![w] = q]
    BY <2>1
  <2> HIDE DEF q
  <2> QED
    BY <1>1, <2>2, <2>3, WorkerMoves DEF Fetch, Safe, TypeOK
<1>2. ASSUME NEW w \in Workers, Check(w) PROVE Safe'
  <2>1. worker[w].pc = "check" /\ Current(w) \in Sources
    BY <1>2, CurrentTyped DEF Check
  <2>2. Goto(w, "insert") \/ Advance(w, {}) \/ Advance(w, {Current(w)})
    BY <1>2 DEF Check
  <2>3. worker' \in [Workers -> WorkerState] /\ OnFeed'
    BY <2>1, <2>2, GotoMoves, AdvanceMoves
  <2> QED
    BY <1>2, <2>3 DEF Check, Safe, TypeOK
<1>3. ASSUME NEW w \in Workers, Insert(w) PROVE Safe'
  <2>1. worker[w].pc = "insert" /\ Current(w) \in Sources
    BY <1>3, CurrentTyped DEF Insert
  <2>2. Advance(w, {}) \/ Advance(w, {Current(w)})
    BY <1>3 DEF Insert
  <2>3. worker' \in [Workers -> WorkerState] /\ OnFeed'
    BY <2>1, <2>2, AdvanceMoves
  <2>4. rows' \in [Jobs -> Row \cup {NoRow}]
    <3>1. TypeOK
      BY DEF Safe
    <3>2. CASE UNCHANGED rows
      BY <3>1, <3>2 DEF TypeOK
    <3>3. CASE \E j \in Jobs :
                 rows' = [rows EXCEPT ![j] = [source |-> Current(w), active |-> TRUE]]
      <4>1. PICK j \in Jobs :
              rows' = [rows EXCEPT ![j] = [source |-> Current(w), active |-> TRUE]]
        BY <3>3
      <4>2. \A s \in Sources \cup {NoSource} :
              [rows EXCEPT ![j] = [source |-> s, active |-> TRUE]] \in [Jobs -> Row \cup {NoRow}]
        BY <3>1, RowsWritten
      <4>3. Current(w) \in Sources \cup {NoSource}
        BY <2>1
      <4> QED
        BY <4>1, <4>2, <4>3, Zenon
    <3> QED
      BY <1>3, <3>2, <3>3 DEF Insert
  <2> QED
    BY <1>3, <2>3, <2>4 DEF Insert, Safe, TypeOK
<1>4. ASSUME NEW w \in Workers, RunAgain(w) PROVE Safe'
  BY <1>4, GotoMoves DEF RunAgain, Safe, TypeOK
<1>5. ASSUME NEW w \in Workers, Stop(w) PROVE Safe'
  BY <1>5, GotoMoves DEF Stop, Safe, TypeOK
<1>6. ASSUME NEW w \in Workers, Restart(w) PROVE Safe'
  BY <1>6, WorkerMoves, StartedTyped DEF Restart, Safe, TypeOK
<1>7. ASSUME NEW w \in Workers, Tick(w) \/ Cancel(w) PROVE Safe'
  <2>1. cancelled' \in [Workers -> BOOLEAN] /\ tick' \in [Workers -> BOOLEAN]
    BY <1>7 DEF Tick, Cancel, Safe, TypeOK
  <2>2. UNCHANGED <<rows, worker>>
    BY <1>7 DEF Tick, Cancel
  <2> QED
    BY <2>1, <2>2 DEF Safe, TypeOK, OnFeed
<1>8. CASE AdminCreate
  <2>1. PICK j \in Jobs : rows' = [rows EXCEPT ![j] = [source |-> NoSource, active |-> TRUE]]
    BY <1>8 DEF AdminCreate
  <2>2. rows' \in [Jobs -> Row \cup {NoRow}]
    <3>1. \A s \in Sources \cup {NoSource} :
            [rows EXCEPT ![j] = [source |-> s, active |-> TRUE]] \in [Jobs -> Row \cup {NoRow}]
      BY RowsWritten DEF Safe
    <3> QED
      BY <2>1, <3>1, Zenon
  <2>3. UNCHANGED <<worker, cancelled, tick>>
    BY <1>8 DEF AdminCreate
  <2> QED
    BY <2>2, <2>3 DEF Safe, TypeOK, OnFeed
<1>9. ASSUME NEW j \in Jobs, AdminUpdate(j) \/ AdminDelete(j) PROVE Safe'
  <2>1. rows' \in [Jobs -> Row \cup {NoRow}]
    BY <1>9, RowsWritten DEF AdminUpdate, AdminDelete, Safe, TypeOK
  <2> QED
    BY <1>9, <2>1 DEF AdminUpdate, AdminDelete, Safe, TypeOK, OnFeed
<1>10. CASE UNCHANGED vars
  BY <1>10 DEF vars, Safe, TypeOK, OnFeed
<1> QED
  BY <1>1, <1>2, <1>3, <1>4, <1>5, <1>6, <1>7, <1>8, <1>9, <1>10 DEF Next, Aggregate

\* Every reachable state is well typed.
THEOREM TypeCorrect == Spec => []TypeOK
<1>1. Safe => TypeOK
  BY DEF Safe
<1> QED
  BY <1>1, InitSafe, NextSafe, PTL DEF Spec

-----------------------------------------------------------------------------
(* Which steps touch the copies of a listing.                              *)

LEMMA CopiesSame ==
  ASSUME UNCHANGED rows, NEW s \in Sources
  PROVE  Copies(s)' = Copies(s)
  BY DEF Copies

LEMMA AdminKeepsCopies ==
  ASSUME Safe, NEW s \in Sources,
         AdminCreate \/ \E j \in Jobs : AdminUpdate(j) \/ AdminDelete(j)
  PROVE  Copies(s)' = Copies(s) /\ UNCHANGED worker
<1>1. CASE AdminCreate
  <2>1. PICK j \in Jobs :
          rows[j] = NoRow /\ rows' = [rows EXCEPT ![j] = [source |-> NoSource, active |-> TRUE]]
    BY <1>1 DEF AdminCreate
  <2>2. [source |-> NoSource, active |-> TRUE].source = NoSource
    OBVIOUS
  <2> QED
    BY <1>1, <2>1, <2>2 DEF AdminCreate, Copies, Safe, TypeOK
<1>2. CASE \E j \in Jobs : AdminUpdate(j) \/ AdminDelete(j)
  <2>1. PICK j \in Jobs, active \in BOOLEAN :
          rows[j] # NoRow /\ rows' = [rows EXCEPT ![j] = [rows[j] EXCEPT !.active = active]]
    BY <1>2 DEF AdminUpdate, AdminDelete, Safe, TypeOK
  <2>2. \A row \in Row : [row EXCEPT !.active = active] \in Row
                         /\ [row EXCEPT !.active = active].source = row.source
    BY DEF Row
  <2>3. rows[j] \in Row
    BY <2>1 DEF Safe, TypeOK
  <2>4. [rows[j] EXCEPT !.active = active] # NoRow
        /\ [rows[j] EXCEPT !.active = active].source = rows[j].source
    BY <2>2, <2>3 DEF Row
  <2> QED
    BY <1>2, <2>1, <2>4 DEF AdminUpdate, AdminDelete, Copies, Safe, TypeOK
<1> QED
  BY <1>1, <1>2

\* What an insertion does to the copies: it adds one of the current listing,
\* or none.
LEMMA InsertAddsCopy ==
  ASSUME Safe, NEW w \in Workers, Insert(w), NEW s \in Sources
  PROVE  \/ Copies(s)' = Copies(s)
         \/ s = Current(w) /\ \E j \in Jobs : Copies(s)' = Copies(s) \cup {j}
<1>1. CASE UNCHANGED rows
  BY <1>1, CopiesSame
<1>2. CASE \E j \in Jobs :
             /\ rows[j] = NoRow
             /\ rows' = [rows EXCEPT ![j] = [source |-> Current(w), active |-> TRUE]]
  <2>1. PICK j \in Jobs :
          /\ rows[j] = NoRow
          /\ rows' = [rows EXCEPT ![j] = [source |-> Current(w), active |-> TRUE]]
    BY <1>2
  <2> DEFINE new == [source |-> Current(w), active |-> TRUE]
  <2>2. Current(w) \in Sources
    BY CurrentTyped DEF Insert
  <2>3. new # NoRow /\ new.source = Current(w)
    <3>1. new \in [source : Sources \cup {NoSource}, active : BOOLEAN]
      BY <2>2
    <3> QED
      BY <3>1
  <2> HIDE DEF new
  <2>4. \A i \in Jobs : rows'[i] = IF i = j THEN new ELSE rows[i]
    BY <2>1 DEF Safe, TypeOK, new
  <2> QED
    BY <2>1, <2>3, <2>4 DEF Copies
<1> QED
  BY <1>1, <1>2 DEF Insert

\* Steps of the worker that are not statements on the table, and where they
\* leave it.
LEMMA OtherMoves ==
  ASSUME Safe, NEW w \in Workers, RunAgain(w) \/ Stop(w) \/ Restart(w) \/ Fetch(w)
  PROVE  /\ UNCHANGED rows
         /\ \A v \in Workers : v # w => worker'[v] = worker[v]
         /\ worker'[w].pc # "insert"
<1>1. CASE RunAgain(w) \/ Stop(w)
  BY <1>1, GotoMoves DEF RunAgain, Stop
<1>2. CASE Restart(w)
  BY <1>2, StartedTyped DEF Restart, Safe, TypeOK
<1>3. CASE Fetch(w)
  <2>1. PICK feed \in Feeds :
          worker' = [worker EXCEPT ![w] = [pc |-> IF feed = <<>> THEN "select" ELSE "check",
                                           feed |-> feed, next |-> 1, missed |-> {}]]
    BY <1>3, FetchMoves
  <2> QED
    BY <1>3, <2>1 DEF Fetch, Safe, TypeOK
<1> QED
  BY <1>1, <1>2, <1>3

-----------------------------------------------------------------------------
(* Copies are bounded by the number of instances: each has at most one     *)
(* insertion under way that was decided when there was no copy.            *)

Inserting(s) == {w \in Workers : worker[w].pc = "insert" /\ Current(w) = s}

Spread(s) ==
  /\ IsFiniteSet(Copies(s))
  /\ \/ Copies(s) = {}
     \/ Cardinality(Copies(s)) + Cardinality(Inserting(s)) <= Cardinality(Workers)

Bounded == \A s \in Sources : Spread(s)

LEMMA BoundedCopies == Bounded => CopiesBounded
<1> SUFFICES ASSUME Bounded, NEW s \in Sources
             PROVE  Cardinality(Copies(s)) <= Cardinality(Workers)
  BY DEF CopiesBounded
<1>1. IsFiniteSet(Inserting(s))
  BY FS_Subset DEF Inserting
<1>2. /\ Cardinality(Inserting(s)) \in Nat /\ Cardinality(Workers) \in Nat
      /\ Cardinality(Copies(s)) \in Nat
  BY <1>1, FS_CardinalityType DEF Bounded, Spread
<1>3. Copies(s) = {} => Cardinality(Copies(s)) = 0
  BY FS_EmptySet
<1> QED
  BY <1>2, <1>3 DEF Bounded, Spread

LEMMA InitBounded == Init => Bounded
<1> SUFFICES ASSUME Init, NEW s \in Sources PROVE Spread(s)
  BY DEF Bounded
<1>1. Copies(s) = {}
  BY DEF Init, Copies
<1> QED
  BY <1>1, FS_EmptySet DEF Spread

\* Nothing is lost when no copy appears and no insertion is begun.
LEMMA SpreadKept ==
  ASSUME NEW s \in Sources, Spread(s), Copies(s)' = Copies(s), Inserting(s)' \subseteq Inserting(s)
  PROVE  Spread(s)'
<1>1. IsFiniteSet(Inserting(s))
  BY FS_Subset DEF Inserting
<1>2. IsFiniteSet(Inserting(s)') /\ Cardinality(Inserting(s)') <= Cardinality(Inserting(s))
  BY <1>1, FS_Subset
<1>3. /\ Cardinality(Inserting(s)) \in Nat /\ Cardinality(Inserting(s)') \in Nat
      /\ Cardinality(Copies(s)) \in Nat /\ Cardinality(Workers) \in Nat
  BY <1>1, <1>2, FS_CardinalityType DEF Spread
<1> QED
  BY <1>2, <1>3 DEF Spread

LEMMA NextBounded == Safe /\ Bounded /\ [Next]_vars => Bounded'
<1> SUFFICES ASSUME Safe, Bounded, [Next]_vars, NEW s \in Sources PROVE Spread(s)'
  BY DEF Bounded
<1>0. Spread(s)
  BY DEF Bounded
<1>1. ASSUME NEW w \in Workers, RunAgain(w) \/ Stop(w) \/ Restart(w) \/ Fetch(w) PROVE Spread(s)'
  <2>1. Inserting(s)' \subseteq Inserting(s)
    BY <1>1, OtherMoves DEF Inserting, Current
  <2> QED
    BY <1>0, <1>1, <2>1, OtherMoves, CopiesSame, SpreadKept
<1>2. ASSUME NEW w \in Workers, Check(w) PROVE Spread(s)'
  <2>1. worker[w].pc = "check" /\ UNCHANGED rows /\ Copies(s)' = Copies(s)
    BY <1>2, CopiesSame DEF Check
  <2>2. CASE Goto(w, "insert") /\ ~Exists(Current(w))
    <3>1. /\ worker'[w].feed = worker[w].feed /\ worker'[w].next = worker[w].next
          /\ \A v \in Workers : v # w => worker'[v] = worker[v]
      BY <2>1, <2>2, GotoMoves
    <3>2. CASE s = Current(w)
      <4>1. Copies(s) = {}
        BY <2>2, <3>2 DEF Copies, Exists
      <4> QED
        BY <2>1, <4>1, FS_EmptySet DEF Spread
    <3>3. CASE s # Current(w)
      <4>1. Inserting(s)' \subseteq Inserting(s)
        BY <3>1, <3>3 DEF Inserting, Current
      <4> QED
        BY <1>0, <2>1, <4>1, SpreadKept
    <3> QED
      BY <3>2, <3>3
  <2>3. CASE Advance(w, {}) \/ Advance(w, {Current(w)})
    <3>1. Current(w) \in Sources
      BY <2>1, CurrentTyped
    <3>2. worker'[w].pc # "insert" /\ \A v \in Workers : v # w => worker'[v] = worker[v]
      BY <2>1, <2>3, <3>1, AdvanceMoves
    <3>3. Inserting(s)' \subseteq Inserting(s)
      BY <3>2 DEF Inserting, Current
    <3> QED
      BY <1>0, <2>1, <3>3, SpreadKept
  <2> QED
    BY <1>2, <2>2, <2>3 DEF Check
<1>3. ASSUME NEW w \in Workers, Insert(w) PROVE Spread(s)'
  <2>1. worker[w].pc = "insert" /\ Current(w) \in Sources
    BY <1>3, CurrentTyped DEF Insert
  <2>2. Advance(w, {}) \/ Advance(w, {Current(w)})
    BY <1>3 DEF Insert
  <2>3. worker'[w].pc # "insert" /\ \A v \in Workers : v # w => worker'[v] = worker[v]
    BY <2>1, <2>2, AdvanceMoves
  <2>4. Inserting(s)' = Inserting(s) \ {w}
    BY <2>3 DEF Inserting, Current
  <2>5. CASE Copies(s)' = Copies(s)
    BY <1>0, <2>4, <2>5, SpreadKept
  <2>6. CASE s = Current(w) /\ \E j \in Jobs : Copies(s)' = Copies(s) \cup {j}
    <3>1. PICK j \in Jobs : Copies(s)' = Copies(s) \cup {j}
      BY <2>6
    <3>2. w \in Inserting(s)
      BY <2>1, <2>6 DEF Inserting
    <3>3. IsFiniteSet(Inserting(s)) /\ Cardinality(Inserting(s)) <= Cardinality(Workers)
      BY FS_Subset DEF Inserting
    <3>4. /\ IsFiniteSet(Inserting(s)')
          /\ Cardinality(Inserting(s)') = Cardinality(Inserting(s)) - 1
      BY <2>4, <3>2, <3>3, FS_RemoveElement
    <3>5. /\ IsFiniteSet(Copies(s)')
          /\ Cardinality(Copies(s)') <= Cardinality(Copies(s)) + 1
          /\ Cardinality(Copies(s)) \in Nat
      <4>1. IsFiniteSet(Copies(s)) /\ Cardinality(Copies(s)) \in Nat
        BY <1>0, FS_CardinalityType DEF Spread
      <4>2. /\ IsFiniteSet(Copies(s) \cup {j})
            /\ \/ Cardinality(Copies(s) \cup {j}) = Cardinality(Copies(s)) + 1
               \/ Cardinality(Copies(s) \cup {j}) = Cardinality(Copies(s))
        BY <4>1, FS_AddElement
      <4> QED
        BY <3>1, <4>1, <4>2
    <3>6. /\ Cardinality(Inserting(s)) \in Nat /\ Cardinality(Workers) \in Nat
          /\ Cardinality(Copies(s)') \in Nat
      BY <3>3, <3>5, FS_CardinalityType
    <3>7. Copies(s) = {} => Cardinality(Copies(s)) = 0
      BY FS_EmptySet
    <3> QED
      BY <1>0, <3>3, <3>4, <3>5, <3>6, <3>7 DEF Spread
  <2> QED
    BY <1>3, <2>5, <2>6, InsertAddsCopy
<1>4. ASSUME UNCHANGED worker, Copies(s)' = Copies(s) PROVE Spread(s)'
  <2>1. Inserting(s)' = Inserting(s)
    BY <1>4 DEF Inserting, Current
  <2> QED
    BY <1>0, <1>4, <2>1, SpreadKept
<1>5. ASSUME NEW w \in Workers, Tick(w) \/ Cancel(w) PROVE Spread(s)'
  BY <1>4, <1>5, CopiesSame DEF Tick, Cancel
<1>6. CASE AdminCreate \/ \E j \in Jobs : AdminUpdate(j) \/ AdminDelete(j)
  BY <1>4, <1>6, AdminKeepsCopies
<1>7. CASE UNCHANGED vars
  BY <1>4, <1>7, CopiesSame DEF vars
<1> QED
  BY <1>1, <1>2, <1>3, <1>5, <1>6, <1>7 DEF Next, Aggregate

\* A listing is stored at most once per instance, for any number of them.
THEOREM CopiesPerInstance == Spec => []CopiesBounded
<1> QED
  BY InitSafe, NextSafe, InitBounded, NextBounded, BoundedCopies, PTL DEF Spec

-----------------------------------------------------------------------------
(* A run imports every listing but those whose own statement failed.       *)

LEMMA CopiesGrow ==
  ASSUME Safe, [Next]_vars, NEW s \in Sources
  PROVE  Copies(s) \subseteq Copies(s)'
<1>1. ASSUME NEW w \in Workers, Check(w) PROVE UNCHANGED rows
  BY <1>1 DEF Check
<1>2. ASSUME NEW w \in Workers, Insert(w) PROVE Copies(s) \subseteq Copies(s)'
  BY <1>2, InsertAddsCopy
<1>3. ASSUME NEW w \in Workers, Tick(w) \/ Cancel(w) PROVE UNCHANGED rows
  BY <1>3 DEF Tick, Cancel
<1>4. UNCHANGED vars => UNCHANGED rows
  BY DEF vars
<1> QED
  BY <1>1, <1>2, <1>3, <1>4, CopiesSame, AdminKeepsCopies, OtherMoves DEF Next, Aggregate

LEMMA ExistsCopies == \A s : Exists(s) <=> Copies(s) # {}
  BY DEF Exists, Copies

\* The listings a worker is done with.
Done(w) ==
  {i \in DOMAIN worker[w].feed :
     \/ worker[w].pc = "select"
     \/ worker[w].pc \in {"check", "insert"} /\ i < worker[w].next}

Imported(w) ==
  \A i \in Done(w) : worker[w].feed[i] \in worker[w].missed \/ Exists(worker[w].feed[i])

AllImported == \A w \in Workers : Imported(w)

LEMMA NextImported == Safe /\ AllImported /\ [Next]_vars => AllImported'
<1> SUFFICES ASSUME Safe, AllImported, [Next]_vars, NEW w \in Workers PROVE Imported(w)'
  BY DEF AllImported
<1>0. /\ worker[w] \in WorkerState /\ Imported(w)
      /\ \A i \in DOMAIN worker[w].feed : worker[w].feed[i] \in Sources
      /\ Len(worker[w].feed) \in Nat /\ DOMAIN worker[w].feed = 1..Len(worker[w].feed)
      /\ worker[w].next \in Nat
  BY FeedTyped DEF Safe, TypeOK, WorkerState, AllImported
<1>1. \A s \in Sources : Exists(s) => Exists(s)'
  <2>1. \A s : Exists(s)' <=> Copies(s)' # {}
    BY DEF Exists, Copies
  <2> QED
    BY <2>1, CopiesGrow, ExistsCopies
<1>2. CASE worker'[w] = worker[w]
  BY <1>0, <1>1, <1>2 DEF Imported, Done
<1>3. ASSUME worker'[w].feed = worker[w].feed, worker'[w].next = worker[w].next,
             worker'[w].missed = worker[w].missed,
             \/ worker'[w].pc = "insert" /\ worker[w].pc = "check"
             \/ worker'[w].pc \notin {"check", "insert", "select"}
      PROVE  Imported(w)'
  BY <1>0, <1>1, <1>3 DEF Imported, Done
<1>4. ASSUME NEW missed \in SUBSET Sources, worker[w].pc \in {"check", "insert"},
             Advance(w, missed), NEW s, s = Current(w), s \in missed \/ Exists(s)'
      PROVE  Imported(w)'
  <2>1. /\ worker'[w].pc = IF worker[w].next + 1 > Len(worker[w].feed) THEN "select" ELSE "check"
        /\ worker'[w].feed = worker[w].feed /\ worker'[w].next = worker[w].next + 1
        /\ worker'[w].missed = worker[w].missed \cup missed
    BY <1>4, AdvanceMoves
  <2> SUFFICES ASSUME NEW i \in Done(w)'
               PROVE  worker[w].feed[i] \in worker'[w].missed \/ Exists(worker[w].feed[i])'
    BY <2>1 DEF Imported
  <2>2. i \in DOMAIN worker[w].feed /\ (i < worker[w].next \/ i = worker[w].next)
    BY <1>0, <2>1 DEF Done
  <2>3. CASE i = worker[w].next
    <3>1. worker[w].feed[i] = s
      BY <1>4, <2>3 DEF Current
    <3> QED
      BY <1>4, <2>1, <3>1
  <2>4. CASE i < worker[w].next
    <3>1. worker[w].feed[i] \in worker[w].missed \/ Exists(worker[w].feed[i])
      BY <1>0, <1>4, <2>2, <2>4 DEF Imported, Done
    <3> QED
      BY <1>0, <1>1, <2>1, <2>2, <3>1
  <2> QED
    BY <2>2, <2>3, <2>4
<1>5. ASSUME worker[w].pc = "check", Check(w) PROVE Imported(w)'
  <2>1. Current(w) \in Sources
    BY <1>5, CurrentTyped
  <2>2. CASE Goto(w, "insert")
    BY <1>3, <1>5, <2>2, GotoMoves
  <2>3. CASE Exists(Current(w)) /\ Advance(w, {})
    <3>1. PICK s \in Sources : s = Current(w)
      BY <2>1
    <3>2. Exists(s)'
      BY <1>1, <2>3, <3>1
    <3> QED
      BY <1>4, <1>5, <2>3, <3>1, <3>2
  <2>4. CASE Advance(w, {Current(w)})
    BY <1>4, <1>5, <2>1, <2>4
  <2> QED
    BY <1>5, <2>2, <2>3, <2>4 DEF Check
<1>6. ASSUME worker[w].pc = "insert", Insert(w) PROVE Imported(w)'
  <2>1. PICK s \in Sources : s = Current(w)
    BY <1>6, CurrentTyped
  <2>2. CASE Advance(w, {Current(w)})
    BY <1>4, <1>6, <2>1, <2>2
  <2>3. CASE /\ Advance(w, {})
             /\ \E j \in Jobs :
                  rows' = [rows EXCEPT ![j] = [source |-> Current(w), active |-> TRUE]]
    <3>1. PICK j \in Jobs : rows' = [rows EXCEPT ![j] = [source |-> s, active |-> TRUE]]
      BY <2>1, <2>3
    <3> DEFINE new == [source |-> s, active |-> TRUE]
    <3>2. new \in [source : Sources \cup {NoSource}, active : BOOLEAN] /\ new.source = s
      OBVIOUS
    <3> HIDE DEF new
    <3>3. rows'[j] = new
      BY <3>1 DEF Safe, TypeOK, new
    <3>4. Exists(s)'
      BY <3>2, <3>3 DEF Exists
    <3> QED
      BY <1>4, <1>6, <2>1, <2>3, <3>4
  <2> QED
    BY <1>6, <2>2, <2>3 DEF Insert
<1>7. ASSUME Fetch(w) PROVE Imported(w)'
  <2>1. PICK feed \in Feeds :
          worker' = [worker EXCEPT ![w] = [pc |-> IF feed = <<>> THEN "select" ELSE "check",
                                           feed |-> feed, next |-> 1, missed |-> {}]]
    BY <1>7, FetchMoves
  <2>2. /\ worker'[w].pc = IF feed = <<>> THEN "select" ELSE "check"
        /\ worker'[w].feed = feed /\ worker'[w].next = 1
    BY <2>1 DEF Safe, TypeOK
  <2>3. Done(w)' = {}
    <3>1. DOMAIN feed \subseteq Nat \ {0}
      BY FeedTyped
    <3>2. CASE feed = <<>>
      BY <2>2, <3>2 DEF Done
    <3>3. CASE feed # <<>>
      BY <2>2, <3>1, <3>3 DEF Done
    <3> QED
      BY <3>2, <3>3
  <2> QED
    BY <2>3 DEF Imported
<1>8. ASSUME RunAgain(w) \/ Stop(w) \/ Restart(w) PROVE Imported(w)'
  <2>1. worker'[w].pc \in {"fetch", "stopped"}
    BY <1>8, GotoMoves, StartedTyped DEF RunAgain, Stop, Restart, Safe, TypeOK
  <2>2. Done(w)' = {}
    BY <2>1 DEF Done
  <2> QED
    BY <2>2 DEF Imported
<1>9. ASSUME NEW v \in Workers, v # w,
             Aggregate(v) \/ RunAgain(v) \/ Stop(v) \/ Restart(v)
      PROVE  worker'[w] = worker[w]
  <2>1. CASE Check(v) \/ Insert(v)
    <3>1. Current(v) \in Sources /\ worker[v].pc \in {"check", "insert"}
      BY <2>1, CurrentTyped DEF Check, Insert
    <3>2. \/ Goto(v, "insert") /\ worker[v].pc = "check"
          \/ Advance(v, {}) \/ Advance(v, {Current(v)})
      BY <2>1 DEF Check, Insert
    <3> QED
      BY <1>9, <3>1, <3>2, GotoMoves, AdvanceMoves
  <2> QED
    BY <1>9, <2>1, OtherMoves DEF Aggregate
<1>10. ASSUME NEW v \in Workers, Tick(v) \/ Cancel(v) PROVE worker'[w] = worker[w]
  BY <1>10 DEF Tick, Cancel
<1>11. UNCHANGED vars => worker'[w] = worker[w]
  BY DEF vars
<1>12. Check(w) => worker[w].pc = "check"
  BY DEF Check
<1>13. Insert(w) => worker[w].pc = "insert"
  BY DEF Insert
<1>14. CASE AdminCreate \/ \E j \in Jobs : AdminUpdate(j) \/ AdminDelete(j)
  BY <1>2, <1>14 DEF AdminCreate, AdminUpdate, AdminDelete
<1>15. ASSUME NEW v \in Workers,
              Aggregate(v) \/ RunAgain(v) \/ Stop(v) \/ Restart(v)
       PROVE  Imported(w)'
  BY <1>2, <1>5, <1>6, <1>7, <1>8, <1>9, <1>12, <1>13, <1>15 DEF Aggregate
<1> QED
  BY <1>2, <1>10, <1>11, <1>14, <1>15 DEF Next

LEMMA InitImported == Init => AllImported
  BY StartedTyped DEF Init, AllImported, Imported, Done

\* When a run is over, every listing of its feed is in the table, except
\* those whose own statement failed, for any feed and any other writers.
THEOREM RunImports == Spec => []RunImportsTheRest
<1>1. AllImported => RunImportsTheRest
  BY DEF AllImported, Imported, Done, RunImportsTheRest
<1> QED
  BY <1>1, InitSafe, NextSafe, InitImported, NextImported, PTL DEF Spec

-----------------------------------------------------------------------------
(* One instance alone never brings a deleted job back.                     *)

\* What the check found out is still true when the insertion runs.
FreshInsert ==
  \A w \in Workers : worker[w].pc = "insert" => Copies(Current(w)) = {}

LEMMA NextFresh ==
  ASSUME NEW one, Workers = {one}
  PROVE  Safe /\ FreshInsert /\ [Next]_vars => FreshInsert'
<1> SUFFICES ASSUME Safe, FreshInsert, [Next]_vars, worker'[one].pc = "insert"
             PROVE  \A s \in {Current(one)'} : Copies(s)' = {}
  BY DEF FreshInsert
<1>1. CASE Check(one)
  <2>1. worker[one].pc = "check" /\ Current(one) \in Sources
    BY <1>1, CurrentTyped DEF Check
  <2>2. Goto(one, "insert") /\ ~Exists(Current(one)) /\ UNCHANGED rows
    BY <1>1, <2>1, AdvanceMoves DEF Check
  <2>3. Current(one)' = Current(one)
    BY <2>1, <2>2, GotoMoves DEF Current
  <2> QED
    BY <2>2, <2>3, ExistsCopies DEF Copies
<1>2. CASE Insert(one)
  <2>1. worker[one].pc = "insert" /\ Current(one) \in Sources
    BY <1>2, CurrentTyped DEF Insert
  <2>2. worker'[one].pc # "insert"
    BY <1>2, <2>1, AdvanceMoves DEF Insert
  <2> QED
    BY <2>2
<1>3. CASE RunAgain(one) \/ Stop(one) \/ Restart(one) \/ Fetch(one)
  BY <1>3, OtherMoves
<1>4. ASSUME UNCHANGED worker, \A s \in Sources : Copies(s)' = Copies(s)
      PROVE  \A s \in {Current(one)'} : Copies(s)' = {}
  <2>1. worker[one].pc = "insert" /\ Current(one)' = Current(one)
    BY <1>4 DEF Current
  <2> QED
    BY <1>4, <2>1, CurrentTyped DEF FreshInsert
<1>5. CASE Tick(one) \/ Cancel(one)
  BY <1>4, <1>5, CopiesSame DEF Tick, Cancel
<1>6. CASE AdminCreate \/ \E j \in Jobs : AdminUpdate(j) \/ AdminDelete(j)
  <2>1. UNCHANGED worker
    BY <1>6 DEF AdminCreate, AdminUpdate, AdminDelete
  <2>2. \A s \in Sources : Copies(s)' = Copies(s)
    BY <1>6, AdminKeepsCopies
  <2> QED
    BY <1>4, <2>1, <2>2
<1>7. CASE UNCHANGED vars
  BY <1>4, <1>7, CopiesSame DEF vars
<1> QED
  BY <1>1, <1>2, <1>3, <1>5, <1>6, <1>7 DEF Next, Aggregate

LEMMA WorkerSpares ==
  ASSUME NEW one, Workers = {one}, Safe, FreshInsert, [Next]_vars, worker' # worker,
         NEW s \in Sources, Withdrawn(s)
  PROVE  Withdrawn(s)'
<1>1. CASE UNCHANGED rows
  BY <1>1 DEF Withdrawn, Copies
<1>2. CASE Insert(one) /\ ~UNCHANGED rows
  <2>1. /\ worker[one].pc = "insert" /\ Current(one) \in Sources
        /\ Copies(Current(one)) = {}
    BY <1>2, CurrentTyped DEF Insert, FreshInsert
  <2>2. PICK j \in Jobs :
          /\ rows[j] = NoRow
          /\ rows' = [rows EXCEPT ![j] = [source |-> Current(one), active |-> TRUE]]
    BY <1>2 DEF Insert
  <2>3. \A i \in Jobs : i # j => rows'[i] = rows[i]
    BY <2>2 DEF Safe, TypeOK
  <2>4. s # Current(one)
    BY <2>1 DEF Withdrawn
  <2>5. Copies(s)' = Copies(s)
    BY <1>2, <2>4, InsertAddsCopy
  <2>6. j \notin Copies(s)
    BY <2>2 DEF Copies
  <2>7. \A i \in Copies(s) : rows'[i] = rows[i]
    BY <2>3, <2>6 DEF Copies
  <2> QED
    BY <2>5, <2>7 DEF Withdrawn
<1>3. UNCHANGED rows \/ Insert(one)
  <2>1. AdminCreate \/ (\E j \in Jobs : AdminUpdate(j) \/ AdminDelete(j)) => worker' = worker
    BY DEF AdminCreate, AdminUpdate, AdminDelete
  <2>2. UNCHANGED vars => worker' = worker
    BY DEF vars
  <2>3. Check(one) \/ Fetch(one) \/ RunAgain(one) \/ Stop(one)
          \/ Tick(one) \/ Cancel(one) \/ Restart(one) => UNCHANGED rows
    BY DEF Check, Fetch, RunAgain, Stop, Tick, Cancel, Restart
  <2> QED
    BY <2>1, <2>2, <2>3 DEF Next, Aggregate
<1> QED
  BY <1>1, <1>2, <1>3

\* A job an administrator deleted stays out of sight until an administrator
\* brings it back, when a single instance runs the aggregator.  (With two, one
\* may be past its check when the other's copy is deleted.)
THEOREM DeletionRespected ==
  ASSUME NEW one, Workers = {one}
  PROVE  Spec => DeletedStaysOut
<1>1. Init => FreshInsert
  BY StartedTyped DEF Init, FreshInsert
<1>2. Safe /\ FreshInsert /\ [Next]_vars => FreshInsert'
  BY NextFresh
<1>3. Safe /\ FreshInsert /\ [Next]_vars =>
        [\A s \in Sources : Withdrawn(s) /\ worker' # worker => Withdrawn(s)']_vars
  BY WorkerSpares
<1> QED
  BY <1>1, <1>2, <1>3, InitSafe, NextSafe, PTL DEF Spec, DeletedStaysOut

-----------------------------------------------------------------------------
(* The list and its cache: JobCatalogue.                                   *)

HIDE JobFeedAssumption

\* Which moments a list may come from: those up to the last write.
FromOneMoment(list, f) == \E i \in 1..Len(log) : list \subseteq Page(log[i], f)

Counted(q) == q.pc \in {"select", "fill", "reply"} /\ q.quiet /\ ~q.hit

\* log[i] is a table of fewer than i rows.
TableHistory ==
  /\ log \in Seq(Seq(JobRow))
  /\ Len(log) \in 1..(MaxWrites + 1)
  /\ \A i \in 1..Len(log) : Len(log[i]) < i

\* What a request has in hand: a list of one moment, and the total of the
\* table as long as nothing was written since the request came.
FreshList(q) ==
  /\ q.pc \in {"fill", "reply"} => FromOneMoment(q.list, q.filter)
  /\ Counted(q) => q.total = Cardinality(Matching(Table, q.filter))

\* A list keeps its moment in the cache and on its way there.
ListInv ==
  /\ TableHistory
  /\ cache \in [Keys -> Lists \cup {NoList}]
  /\ req \in [Requests -> RequestState]
  /\ \A f \in Filters : cache[f] # NoList => FromOneMoment(cache[f], f)
  /\ \A r \in Requests : FreshList(req[r])

USE JobCatalogueAssumption

LEMMA TableTyped ==
  ASSUME TableHistory
  PROVE  /\ Len(log) \in 1..Len(log)
         /\ Table \in Seq(JobRow)
         /\ Len(Table) \in Nat /\ Len(Table) < Len(log) /\ Len(Table) <= MaxWrites
BY DEF TableHistory, Table

LEMMA FilterTyped ==
  ASSUME NEW f \in Filters
  PROVE  /\ f \in Keys /\ Key(f) = f
         /\ f.limit \in Nat \ {0}
BY DEF Keys, Key

LEMMA IntervalFinite ==
  ASSUME NEW n \in Nat PROVE IsFiniteSet(1..n) /\ Cardinality(1..n) = n
<1>1. 1 \in Int /\ n \in Int
  OBVIOUS
<1>2. IsFiniteSet(1..n) /\ Cardinality(1..n) = IF 1 > n THEN 0 ELSE n - 1 + 1
  BY <1>1, FS_Interval, Zenon
<1> QED
  BY <1>2

LEMMA MatchingFinite ==
  ASSUME NEW t \in Seq(JobRow), NEW f \in Filters
  PROVE  /\ Matching(t, f) \subseteq 1..Len(t)
         /\ IsFiniteSet(Matching(t, f))
         /\ Cardinality(Matching(t, f)) \in 0..Len(t)
<1>1. Len(t) \in Nat /\ Matching(t, f) \subseteq 1..Len(t)
  BY DEF Matching
<1>2. IsFiniteSet(1..Len(t)) /\ Cardinality(1..Len(t)) = Len(t)
  BY <1>1, IntervalFinite
<1>3. IsFiniteSet(Matching(t, f)) /\ Cardinality(Matching(t, f)) <= Len(t)
  BY <1>1, <1>2, FS_Subset
<1>4. Cardinality(Matching(t, f)) \in Nat
  BY <1>3, FS_CardinalityType
<1> QED
  BY <1>1, <1>3, <1>4

\* A page names each job once, so it is no longer than the table.
LEMMA PageFinite ==
  ASSUME NEW t \in Seq(JobRow), Len(t) <= MaxWrites, NEW f \in Filters,
         NEW list \in SUBSET Page(t, f)
  PROVE  list \in Lists /\ Cardinality(list) \in 0..MaxWrites
<1> DEFINE job == [x \in list |-> x.job]
<1>1. Len(t) \in Nat
  OBVIOUS
<1>2. \A x \in list : \E j \in 1..Len(t) : x = [job |-> j, kind |-> t[j].kind]
  BY MatchingFinite DEF Page
<1>3. \A j \in 1..Len(t) : t[j].kind \in Kinds
  <2>1. ASSUME NEW j \in 1..Len(t) PROVE t[j] \in JobRow
    BY ElementOfSeq
  <2> QED
    BY <2>1 DEF JobRow
<1>4. list \in Lists
  BY <1>1, <1>2, <1>3 DEF Lists
<1>5. job \in Injection(list, 1..Len(t))
  <2>1. \A x \in list : job[x] \in 1..Len(t) /\ x = [job |-> job[x], kind |-> t[job[x]].kind]
    BY <1>2
  <2>2. \A x, y \in list : job[x] = job[y] => x = y
    BY <2>1
  <2> QED
    BY <2>1, <2>2 DEF Injection, IsInjective
<1>6. IsFiniteSet(1..Len(t)) /\ Cardinality(1..Len(t)) = Len(t)
  BY <1>1, IntervalFinite
<1>7. IsFiniteSet(list) /\ Cardinality(list) <= Len(t)
  BY <1>5, <1>6, FS_Injection
<1>8. Cardinality(list) \in Nat
  BY <1>7, FS_CardinalityType
<1> QED
  BY <1>1, <1>4, <1>7, <1>8

LEMMA IdleTyped == Idle \in RequestState /\ FreshList(Idle)
<1>1. (CHOOSE f \in Filters : TRUE) \in Filters
  OBVIOUS
<1> QED
  BY <1>1 DEF Idle, RequestState, Lists, FreshList, Counted

LEMMA InitHolds == ListInit => ListInv
<1> SUFFICES ASSUME ListInit PROVE ListInv
  OBVIOUS
<1>1. TableHistory
  BY EmptySeq DEF ListInit, TableHistory
<1> QED
  BY <1>1, IdleTyped, FilterTyped DEF ListInit, ListInv

-----------------------------------------------------------------------------
\* A write leaves earlier moments as they were.
LEMMA WriteKeeps ==
  ASSUME ListInv, NEW table \in Seq(JobRow), Len(table) <= Len(Table) + 1, Write(table)
  PROVE  ListInv'
<1>1. /\ log \in Seq(Seq(JobRow)) /\ Len(log) \in Nat /\ Len(log) <= MaxWrites
      /\ log' = Append(log, table)
  BY DEF ListInv, TableHistory, Write
<1>2. /\ log' \in Seq(Seq(JobRow)) /\ Len(log') = Len(log) + 1
      /\ \A i \in 1..Len(log) : log'[i] = log[i]
      /\ log'[Len(log')] = table
  BY <1>1
<1>3. TableHistory'
  <2>1. ASSUME NEW i \in 1..Len(log') PROVE Len(log'[i]) < i
    <3>1. CASE i \in 1..Len(log)
      BY <1>2, <3>1 DEF ListInv, TableHistory
    <3>2. CASE i = Len(log')
      <4>1. Len(Table) < Len(log) /\ Len(Table) \in Nat
        BY TableTyped DEF ListInv
      <4> QED
        BY <1>1, <1>2, <3>2, <4>1
    <3> QED
      BY <1>1, <1>2, <3>1, <3>2
  <2> QED
    BY <1>1, <1>2, <2>1 DEF TableHistory
<1>4. ASSUME NEW list, NEW f, FromOneMoment(list, f) PROVE FromOneMoment(list, f)'
  BY <1>1, <1>2, <1>4 DEF FromOneMoment
<1>5. cache' = cache
  BY DEF Write
<1>6. ASSUME NEW q \in RequestState, FreshList(q)
      PROVE  [q EXCEPT !.quiet = FALSE] \in RequestState /\ FreshList([q EXCEPT !.quiet = FALSE])'
  <2> DEFINE late == [q EXCEPT !.quiet = FALSE]
  <2>1. /\ late \in RequestState
        /\ late.pc = q.pc /\ late.list = q.list /\ late.filter = q.filter /\ late.quiet = FALSE
    BY DEF RequestState
  <2> HIDE DEF late
  <2>2. FreshList(late)'
    BY <1>4, <1>6, <2>1 DEF FreshList, Counted
  <2> QED
    BY <2>1, <2>2 DEF late
<1>7. FreshList(Idle)'
  BY DEF Idle, FreshList, Counted
<1>8. ASSUME NEW r \in Requests PROVE req'[r] \in RequestState /\ FreshList(req[r])'
  <2>1. req[r] \in RequestState /\ FreshList(req[r])
    BY DEF ListInv
  <2>2. req'[r] = IF req[r].pc = "idle" THEN Idle ELSE [req[r] EXCEPT !.quiet = FALSE]
    BY DEF Write
  <2> QED
    BY <1>6, <1>7, <2>1, <2>2, IdleTyped
<1>9. req' \in [Requests -> RequestState]
  BY <1>8 DEF Write
<1>10. ASSUME NEW f \in Filters, cache'[f] # NoList PROVE FromOneMoment(cache[f], f)'
  BY <1>1, <1>2, <1>5, <1>10 DEF ListInv, FromOneMoment
<1> QED
  BY <1>3, <1>5, <1>8, <1>9, <1>10 DEF ListInv

LEMMA WritersKeep ==
  ASSUME ListInv,
         \/ \E kind \in Kinds : Create(kind) \/ \E j \in DOMAIN Table : Update(j, kind)
         \/ \E j \in DOMAIN Table : Delete(j)
  PROVE  ListInv'
<1>1. Table \in Seq(JobRow) /\ Len(Table) \in Nat
  BY TableTyped DEF ListInv
<1>2. ASSUME NEW kind \in Kinds, Create(kind) PROVE ListInv'
  <2> DEFINE table == Append(Table, [kind |-> kind, active |-> TRUE])
  <2>1. table \in Seq(JobRow) /\ Len(table) = Len(Table) + 1
    BY <1>1 DEF JobRow
  <2> HIDE DEF table
  <2>2. Write(table)
    BY <1>2 DEF Create, table
  <2> QED
    BY <1>1, <2>1, <2>2, WriteKeeps
<1>3. ASSUME NEW kind \in Kinds, NEW j \in DOMAIN Table, Update(j, kind) PROVE ListInv'
  <2> DEFINE table == [Table EXCEPT ![j] = [kind |-> kind, active |-> TRUE]]
  <2>1. table \in Seq(JobRow) /\ Len(table) = Len(Table)
    BY <1>1, ExceptSeq DEF JobRow
  <2> HIDE DEF table
  <2>2. Write(table)
    BY <1>3 DEF Update, table
  <2> QED
    BY <1>1, <2>1, <2>2, WriteKeeps
<1>4. ASSUME NEW j \in DOMAIN Table, Delete(j) PROVE ListInv'
  <2> DEFINE row == [Table[j] EXCEPT !.active = FALSE]
             table == [Table EXCEPT ![j].active = FALSE]
  <2>1. j \in 1..Len(Table) /\ Table[j] \in JobRow
    BY <1>1, ElementOfSeq
  <2>2. row \in JobRow
    BY <2>1 DEF JobRow
  <2>3. table = [Table EXCEPT ![j] = row]
    OBVIOUS
  <2>4. Write(table)
    BY <1>4 DEF Delete
  <2> HIDE DEF row, table
  <2>5. table \in Seq(JobRow) /\ Len(table) = Len(Table)
    BY <1>1, <2>1, <2>2, <2>3, ExceptSeq
  <2> QED
    BY <1>1, <2>4, <2>5, WriteKeeps
<1> QED
  BY <1>2, <1>3, <1>4

-----------------------------------------------------------------------------
\* A step of request r that leaves log and cache alone and gives r the local
\* state q.
LEMMA RequestKeeps ==
  ASSUME ListInv, NEW r \in Requests, NEW q \in RequestState, FreshList(q),
         req' = [req EXCEPT ![r] = q], log' = log,
         \/ cache' = cache
         \/ /\ q.pc = "reply" /\ q.list \in Lists
            /\ cache' = [cache EXCEPT ![Key(q.filter)] = q.list]
  PROVE  ListInv'
<1>1. TableHistory'
  BY DEF ListInv, TableHistory
<1>2. req' \in [Requests -> RequestState]
  BY DEF ListInv
<1>3. ASSUME NEW p, FreshList(p) PROVE FreshList(p)'
  BY <1>3 DEF FreshList, FromOneMoment, Table
<1>4. ASSUME NEW i \in Requests PROVE FreshList(req[i])'
  <2>1. FreshList(req[i])' <=> FreshList(req'[i])
    BY DEF FreshList, FromOneMoment, Table
  <2>2. req'[i] = IF i = r THEN q ELSE req[i]
    BY DEF ListInv
  <2> QED
    BY <2>1, <2>2 DEF ListInv
<1>5. cache' \in [Keys -> Lists \cup {NoList}]
  BY DEF ListInv
<1>6. ASSUME NEW f \in Filters, cache'[f] # NoList PROVE FromOneMoment(cache[f], f)'
  <2>1. FromOneMoment(cache[f], f)' <=> FromOneMoment(cache'[f], f)
    BY DEF FromOneMoment
  <2>2. FromOneMoment(cache'[f], f)
    <3>1. q.filter \in Filters /\ (q.pc = "reply" => FromOneMoment(q.list, q.filter))
      BY DEF RequestState, FreshList
    <3>2. CASE cache'[f] = cache[f]
      BY <1>6, <3>2 DEF ListInv
    <3>3. CASE f = q.filter /\ q.pc = "reply" /\ cache'[f] = q.list
      BY <3>1, <3>3
    <3>4. f \in Keys /\ Key(q.filter) = q.filter
      BY <3>1, FilterTyped
    <3> QED
      BY <3>2, <3>3, <3>4 DEF ListInv
  <2> QED
    BY <2>1, <2>2
<1> QED
  BY <1>1, <1>2, <1>4, <1>5, <1>6 DEF ListInv

LEMMA CacheGetKeeps ==
  ASSUME ListInv, NEW r \in Requests, NEW f \in Filters, CacheGet(r, f) PROVE ListInv'
<1> DEFINE asked == [Idle EXCEPT !.filter = f]
           held == cache[Key(f)]
           hit == [asked EXCEPT !.pc = "reply", !.hit = TRUE, !.list = held,
                                !.total = Cardinality(held)]
           miss == [asked EXCEPT !.pc = "count"]
<1>1. log' = log /\ cache' = cache
  BY DEF CacheGet
<1>2. asked \in RequestState
  BY IdleTyped DEF RequestState
<1>3. CASE held # NoList /\ req' = [req EXCEPT ![r] = hit]
  <2>1. FromOneMoment(held, f)
    BY <1>3, FilterTyped DEF ListInv
  <2>2. PICK i \in 1..Len(log) : held \subseteq Page(log[i], f)
    BY <2>1 DEF FromOneMoment
  <2>3. log[i] \in Seq(JobRow) /\ Len(log[i]) <= MaxWrites
    BY DEF ListInv, TableHistory
  <2>4. held \in Lists /\ Cardinality(held) \in 0..MaxWrites
    BY <2>2, <2>3, PageFinite
  <2> HIDE DEF asked, held
  <2>5. /\ hit \in RequestState
        /\ hit.pc = "reply" /\ hit.hit = TRUE /\ hit.list = held /\ hit.filter = asked.filter
    BY <1>2, <2>4 DEF RequestState
  <2>6. asked.filter = f
    BY DEF asked, Idle
  <2>7. FreshList(hit)
    BY <2>1, <2>5, <2>6 DEF FreshList, Counted
  <2> QED
    BY <1>1, <1>3, <2>5, <2>7, RequestKeeps
<1>4. CASE req' = [req EXCEPT ![r] = miss]
  <2> HIDE DEF asked
  <2>1. miss \in RequestState /\ miss.pc = "count"
    BY <1>2 DEF RequestState
  <2>2. FreshList(miss)
    BY <2>1 DEF FreshList, Counted
  <2> QED
    BY <1>1, <1>4, <2>1, <2>2, RequestKeeps
<1> QED
  BY <1>3, <1>4 DEF CacheGet

LEMMA HandleKeeps == ASSUME ListInv, NEW r \in Requests, Handle(r) PROVE ListInv'
<1> DEFINE q == req[r]
<1>1. q \in RequestState /\ FreshList(q)
  BY DEF ListInv
<1>2. Table \in Seq(JobRow) /\ Len(Table) <= MaxWrites /\ q.filter \in Filters
  BY <1>1, TableTyped DEF ListInv, RequestState
<1>3. ASSUME Fail(r), log' = log, cache' = cache PROVE ListInv'
  BY <1>3, IdleTyped, RequestKeeps DEF Fail
<1>4. CASE Count(r)
  <2> DEFINE n == Cardinality(Matching(Table, q.filter))
             p == [q EXCEPT !.pc = "select", !.total = n]
  <2>1. CASE req' = [req EXCEPT ![r].pc = "select", ![r].total = n]
    <3>1. n \in 0..MaxWrites
      BY <1>2, MatchingFinite
    <3>2. req' = [req EXCEPT ![r] = p]
      BY <2>1
    <3> HIDE DEF n, q
    <3>3. p \in RequestState /\ p.pc = "select" /\ p.total = n /\ p.filter = q.filter
      BY <1>1, <3>1 DEF RequestState
    <3>4. FreshList(p)
      BY <3>3 DEF FreshList, n
    <3> QED
      BY <1>4, <3>2, <3>3, <3>4, RequestKeeps DEF Count
  <2> QED
    BY <1>3, <1>4, <2>1 DEF Count
<1>5. CASE Select(r)
  <2>1. ASSUME NEW list \in SUBSET Page(Table, q.filter),
               req' = [req EXCEPT ![r].pc = "fill", ![r].list = list]
        PROVE  ListInv'
    <3> DEFINE p == [q EXCEPT !.pc = "fill", !.list = list]
    <3>1. list \in Lists
      BY <1>2, PageFinite
    <3>2. req' = [req EXCEPT ![r] = p]
      BY <2>1
    <3>3. q.pc = "select"
      BY <1>5 DEF Select
    <3>4. FromOneMoment(list, q.filter)
      BY TableTyped DEF ListInv, FromOneMoment, Table
    <3> HIDE DEF q
    <3>5. /\ p \in RequestState
          /\ p.pc = "fill" /\ p.list = list /\ p.filter = q.filter
          /\ p.total = q.total /\ p.quiet = q.quiet /\ p.hit = q.hit
      BY <1>1, <3>1 DEF RequestState
    <3>6. FreshList(p)
      BY <1>1, <3>3, <3>4, <3>5 DEF FreshList, Counted
    <3> QED
      BY <1>5, <3>2, <3>5, <3>6, RequestKeeps DEF Select
  <2> QED
    BY <1>3, <1>5, <2>1 DEF Select
<1>6. CASE CacheSet(r)
  <2> DEFINE p == [q EXCEPT !.pc = "reply"]
  <2>1. req' = [req EXCEPT ![r] = p] /\ log' = log /\ q.pc = "fill"
    BY <1>6 DEF CacheSet
  <2>2. cache' = cache \/ cache' = [cache EXCEPT ![Key(q.filter)] = q.list]
    BY <1>6 DEF CacheSet
  <2> HIDE DEF q
  <2>3. /\ p \in RequestState
        /\ p.pc = "reply" /\ p.list = q.list /\ p.list \in Lists /\ p.filter = q.filter
        /\ p.total = q.total /\ p.quiet = q.quiet /\ p.hit = q.hit
    BY <1>1 DEF RequestState
  <2>4. FreshList(p)
    BY <1>1, <2>1, <2>3 DEF FreshList, Counted
  <2> QED
    BY <2>1, <2>2, <2>3, <2>4, RequestKeeps
<1>7. CASE Answer(r)
  BY <1>7, IdleTyped, RequestKeeps DEF Answer
<1> QED
  BY <1>4, <1>5, <1>6, <1>7 DEF Handle

LEMMA ExpireKeeps == ASSUME ListInv, NEW k \in Keys, Expire(k) PROVE ListInv'
<1>1. log' = log /\ req' = req /\ cache' = [cache EXCEPT ![k] = NoList]
  BY DEF Expire
<1>2. /\ TableHistory' /\ cache' \in [Keys -> Lists \cup {NoList}]
      /\ req' \in [Requests -> RequestState]
  BY <1>1 DEF ListInv, TableHistory
<1>3. \A r \in Requests : FreshList(req[r])'
  BY <1>1 DEF ListInv, FreshList, FromOneMoment, Table
<1>4. ASSUME NEW f \in Filters, cache'[f] # NoList PROVE FromOneMoment(cache[f], f)'
  BY <1>1, <1>4, FilterTyped DEF ListInv, FromOneMoment
<1> QED
  BY <1>2, <1>3, <1>4 DEF ListInv

LEMMA CrashKeeps == ASSUME ListInv, Crash PROVE ListInv'
<1>1. log' = log /\ cache' = cache /\ req' = [r \in Requests |-> Idle]
  BY DEF Crash
<1>2. /\ TableHistory' /\ cache' \in [Keys -> Lists \cup {NoList}]
      /\ req' \in [Requests -> RequestState]
  BY <1>1, IdleTyped DEF ListInv, TableHistory
<1>3. \A r \in Requests : FreshList(req[r])'
  BY <1>1 DEF Idle, FreshList, Counted
<1>4. \A f \in Filters : cache'[f] # NoList => FromOneMoment(cache[f], f)'
  BY <1>1 DEF ListInv, FromOneMoment
<1> QED
  BY <1>2, <1>3, <1>4 DEF ListInv

LEMMA StepKeeps == ListInv /\ [ListNext]_listVars => ListInv'
<1> SUFFICES ASSUME ListInv, [ListNext]_listVars PROVE ListInv'
  OBVIOUS
<1>1. CASE UNCHANGED listVars
  BY <1>1 DEF listVars, ListInv, TableHistory, FreshList, FromOneMoment, Table
<1>2. ASSUME NEW kind \in Kinds, Create(kind) \/ \E j \in DOMAIN Table : Update(j, kind)
      PROVE  ListInv'
  BY <1>2, WritersKeep
<1>3. ASSUME NEW j \in DOMAIN Table, Delete(j) PROVE ListInv'
  BY <1>3, WritersKeep
<1>4. ASSUME NEW r \in Requests, Handle(r) \/ \E f \in Filters : CacheGet(r, f) PROVE ListInv'
  BY <1>4, HandleKeeps, CacheGetKeeps
<1>5. ASSUME NEW k \in Keys, Expire(k) PROVE ListInv'
  BY <1>5, ExpireKeeps
<1>6. CASE Crash
  BY <1>6, CrashKeeps
<1> QED
  BY <1>1, <1>2, <1>3, <1>4, <1>5, <1>6 DEF ListNext

LEMMA ListInvariance == ListSpec => []ListInv
<1>1. ListInit => ListInv
  BY InitHolds
<1>2. ListInv /\ [ListNext]_listVars => ListInv'
  BY StepKeeps
<1> QED
  BY <1>1, <1>2, PTL DEF ListSpec

-----------------------------------------------------------------------------
\* Every reachable state is well typed.
THEOREM ListTypeCorrect == ListSpec => []ListTypeOK
<1>1. ListInv => ListTypeOK
  BY ElementOfSeq DEF ListInv, TableHistory, ListTypeOK
<1> QED
  BY <1>1, ListInvariance, PTL

\* However readers, writers and expiring keys interleave: a list answers the
\* filter it was asked with, as the table was at one past moment.
THEOREM OneMoment == ListSpec => []PageOfOneMoment
<1>1. ListInv => PageOfOneMoment
  BY DEF ListInv, FreshList, FromOneMoment, PageOfOneMoment, Answered
<1> QED
  BY <1>1, ListInvariance, PTL

\* The page on which an entry with n others before it stands is one of those
\* the handler announces for a total greater than n.
LEMMA PageCounted ==
  ASSUME NEW total \in Nat, NEW limit \in Nat \ {0}, NEW n \in 0..(total - 1)
  PROVE  1 + n \div limit <= Pages(total, limit)
<1> DEFINE a == total \div limit
           b == total % limit
           c == n \div limit
           d == n % limit
<1>1. total = limit * a + b /\ a \in Nat /\ b \in 0..(limit - 1)
  OBVIOUS
<1>2. n = limit * c + d /\ c \in Nat /\ d \in 0..(limit - 1)
  OBVIOUS
<1>3. Pages(total, limit) = IF b # 0 THEN a + 1 ELSE a
  BY <1>1 DEF Pages
<1> HIDE DEF a, b, c, d
<1>4. limit * c <= limit * a + b - 1
  BY <1>1, <1>2
<1>5. CASE b = 0
  <2>1. ~ (c >= a)
    <3> SUFFICES ASSUME c >= a PROVE FALSE
      OBVIOUS
    <3>1. limit * c >= limit * a
      BY <1>1, <1>2
    <3> QED
      BY <1>1, <1>2, <1>4, <1>5, <3>1
  <2> QED
    BY <1>1, <1>2, <1>3, <1>5, <2>1 DEF c
<1>6. CASE b # 0
  <2>1. ~ (c >= a + 1)
    <3> SUFFICES ASSUME c >= a + 1 PROVE FALSE
      OBVIOUS
    <3>1. limit * c >= limit * (a + 1)
      BY <1>1, <1>2
    <3>2. limit * (a + 1) = limit * a + limit
      BY <1>1
    <3> QED
      BY <1>1, <1>2, <1>4, <3>1, <3>2
  <2> QED
    BY <1>1, <1>2, <1>3, <1>6, <2>1 DEF c
<1> QED
  BY <1>5, <1>6

\* Whoever turns the pages of a reply that was read from the table, while
\* nothing changes, meets every job that matches.
THEOREM TablePagesReach == ListSpec => []TablePagesReachEveryJob
<1>1. ListInv => TablePagesReachEveryJob
  <2> SUFFICES ASSUME ListInv, NEW r \in Requests, Undisturbed(r), ~req[r].hit,
                      NEW j \in Matching(Table, req[r].filter)
               PROVE  PageOf(Table, req[r].filter, j) <= Pages(req[r].total, req[r].filter.limit)
    BY DEF TablePagesReachEveryJob, PagesReach
  <2> DEFINE f == req[r].filter
             newer == {k \in Matching(Table, f) : k > j}
  <2>1. f \in Filters /\ f.limit \in Nat \ {0}
    BY FilterTyped DEF ListInv, RequestState
  <2>2. req[r].total = Cardinality(Matching(Table, f))
    BY DEF ListInv, FreshList, Counted, Undisturbed, Answered
  <2> HIDE DEF f
  <2>3. /\ IsFiniteSet(Matching(Table, f)) /\ Cardinality(Matching(Table, f)) \in Nat
        /\ Matching(Table, f) \subseteq Nat
    BY <2>1, MatchingFinite, TableTyped DEF ListInv
  <2>4. newer \in SUBSET (Matching(Table, f) \ {j})
    BY <2>3 DEF f
  <2>5. /\ IsFiniteSet(Matching(Table, f) \ {j})
        /\ Cardinality(Matching(Table, f) \ {j}) = Cardinality(Matching(Table, f)) - 1
    BY <2>3, FS_RemoveElement DEF f
  <2>6. IsFiniteSet(newer) /\ Cardinality(newer) <= Cardinality(Matching(Table, f)) - 1
    BY <2>4, <2>5, FS_Subset
  <2>7. Cardinality(newer) \in Nat
    BY <2>6, FS_CardinalityType
  <2>8. PageOf(Table, f, j) = 1 + Cardinality(newer) \div f.limit
    BY DEF PageOf
  <2> HIDE DEF newer
  <2>9. PageOf(Table, f, j) <= Pages(req[r].total, f.limit)
    <3>1. Cardinality(newer) \in 0..(req[r].total - 1) /\ req[r].total \in Nat
      BY <2>2, <2>3, <2>6, <2>7
    <3> QED
      BY <2>1, <2>8, <3>1, PageCounted
  <2> QED
    BY <2>9 DEF f
<1> QED
  BY <1>1, ListInvariance, PTL

-----------------------------------------------------------------------------
\* The table is no longer written, and no list in the cache or on its way
\* there is older than the table.
Settled ==
  /\ Len(log) = MaxWrites + 1
  /\ \A f \in Filters : cache[f] = NoList \/ cache[f] \subseteq Page(Table, f)
  /\ \A r \in Requests : req[r].pc = "fill" => req[r].list \subseteq Page(Table, req[r].filter)

LEMMA NoLateWrite ==
  ASSUME ListInv, Settled, [ListNext]_listVars PROVE log' = log /\ \A table : ~Write(table)
<1>1. ASSUME NEW table PROVE ~Write(table)
  BY DEF Settled, Write, ListInv, TableHistory
<1> QED
  BY <1>1 DEF ListNext, Create, Update, Delete, CacheGet, Handle, Count, Select, CacheSet, Answer,
    Expire, Crash, listVars

LEMMA SettledKept == ListInv /\ Settled /\ [ListNext]_listVars => Settled'
<1> SUFFICES ASSUME ListInv, Settled, [ListNext]_listVars PROVE Settled'
  OBVIOUS
<1>1. log' = log /\ Table' = Table
  BY NoLateWrite DEF Table
<1>2. \A table : ~Write(table)
  BY NoLateWrite
<1>3. ASSUME NEW r \in Requests, req'[r].pc = "fill"
      PROVE  req'[r].list \subseteq Page(Table, req'[r].filter)
  <2>1. req \in [Requests -> RequestState]
    BY DEF ListInv
  <2>2. CASE Select(r)
    <3>1. PICK list \in SUBSET Page(Table, req[r].filter) :
            req' = [req EXCEPT ![r].pc = "fill", ![r].list = list]
      BY <1>3, <2>1, <2>2 DEF Select, Fail, Idle
    <3>2. req'[r] = [req[r] EXCEPT !.pc = "fill", !.list = list]
      BY <2>1, <3>1
    <3>3. req'[r].list = list /\ req'[r].filter = req[r].filter
      BY <2>1, <3>2 DEF RequestState
    <3> QED
      BY <3>3
  <2>3. CASE ~Select(r)
    <3>1. req'[r] = req[r]
      <4>1. ASSUME NEW q \in Requests, Handle(q) PROVE req'[r] = req[r]
        <5>1. ASSUME NEW p, req' = [req EXCEPT ![q] = p], p.pc # "fill" PROVE req'[r] = req[r]
          BY <1>3, <2>1, <5>1
        <5>2. Idle.pc = "idle"
          BY DEF Idle
        <5>3. CASE Count(q)
          <6> DEFINE p == [req[q] EXCEPT !.pc = "select",
                                         !.total = Cardinality(Matching(Table, req[q].filter))]
          <6>1. p.pc = "select"
            BY <2>1 DEF RequestState
          <6>2. req' = [req EXCEPT ![q] = p] \/ Fail(q)
            BY <5>3 DEF Count
          <6> HIDE DEF p
          <6> QED
            BY <5>1, <5>2, <6>1, <6>2 DEF Fail
        <5>4. CASE Select(q)
          <6>1. q # r
            BY <2>3, <5>4
          <6> QED
            BY <2>1, <5>4, <6>1 DEF Select, Fail
        <5>5. CASE CacheSet(q) \/ Answer(q)
          <6>1. [req[q] EXCEPT !.pc = "reply"].pc = "reply"
            BY <2>1 DEF RequestState
          <6>2. req' = [req EXCEPT ![q] = [req[q] EXCEPT !.pc = "reply"]]
                \/ req' = [req EXCEPT ![q] = Idle]
            BY <5>5 DEF CacheSet, Answer
          <6> QED
            BY <5>1, <5>2, <6>1, <6>2
        <5> QED
          BY <4>1, <5>3, <5>4, <5>5 DEF Handle
      <4>2. ASSUME NEW q \in Requests, NEW f \in Filters, CacheGet(q, f) PROVE req'[r] = req[r]
        BY <1>3, <2>1, <4>2 DEF CacheGet, Idle
      <4>3. ~Crash
        BY <1>3 DEF Crash, Idle
      <4>4. (\E k \in Keys : Expire(k)) \/ UNCHANGED listVars => req'[r] = req[r]
        BY DEF Expire, listVars
      <4> QED
        BY <1>2, <4>1, <4>2, <4>3, <4>4 DEF ListNext, Create, Update, Delete
    <3> QED
      BY <1>3, <3>1 DEF Settled
  <2> QED
    BY <2>2, <2>3
<1>4. ASSUME NEW f \in Filters, cache'[f] # NoList PROVE cache'[f] \subseteq Page(Table, f)
  <2>1. CASE cache'[f] = cache[f]
    BY <1>4, <2>1 DEF Settled
  <2>2. CASE cache'[f] # cache[f]
    <3>1. PICK r \in Requests : CacheSet(r)
      <4>1. ASSUME NEW k \in Keys, Expire(k) PROVE FALSE
        BY <1>4, <2>2, <4>1, FilterTyped DEF Expire, ListInv
      <4> QED
        BY <1>2, <2>2, <4>1 DEF ListNext, Create, Update, Delete, CacheGet, Handle, Count, Select,
          Answer, Crash, listVars
    <3>2. /\ req[r].pc = "fill" /\ req[r].filter \in Filters
          /\ cache' = [cache EXCEPT ![Key(req[r].filter)] = req[r].list]
      BY <2>2, <3>1 DEF CacheSet, ListInv, RequestState
    <3>3. f = req[r].filter /\ cache'[f] = req[r].list
      BY <2>2, <3>2, FilterTyped DEF ListInv
    <3> QED
      BY <3>2, <3>3 DEF Settled
  <2> QED
    BY <2>1, <2>2
<1> QED
  BY <1>1, <1>3, <1>4 DEF Settled

\* The safety half of CacheSettles: once no list in the cache or on its way
\* there is older than a table that is no longer written, none ever is again.
\* (That this moment comes is the liveness half, for TLC.)
THEOREM SettledForGood == ListSpec => [](Settled => []Settled)
<1>1. ListInv /\ Settled /\ [ListNext]_listVars => Settled'
  BY SettledKept
<1> QED
  BY <1>1, ListInvariance, PTL DEF ListSpec

=============================================================================
