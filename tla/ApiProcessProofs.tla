-------------------------- MODULE ApiProcessProofs --------------------------
(***************************************************************************)
(* What RateLimit promises for any limit, any addresses and any number of  *)
(* requests and minutes.  A counter is not reset before its minute is      *)
(* over, so requests counted within it have seen different numbers; and a  *)
(* counter no command of which failed never runs ahead of its requests.    *)
(* Then what Shutdown promises for any set of handlers: the pool is closed *)
(* only after the cancellation and the closed listener, although two       *)
(* goroutines end the process together.  Last, ApiProcess, in which the    *)
(* two interact, implements both: what holds of each holds there.          *)
(***************************************************************************)
EXTENDS ApiProcess, FiniteSetTheorems, TLAPS

USE RateLimitAssumption

\* What the local state of a request says by itself.
Fits(s) ==
  /\ s.pc = "new" => s.key = <<>>
  /\ s.pc # "new" => s.key \in Keys /\ s.key[2] <= now
  /\ s.pc \in {"new", "incr"} => s.seen = 0
  /\ s.pc = "expire" => s.seen > 0
  /\ s.pc = "served" => s.seen <= LimitPerMin
  /\ s.pc = "refused" => s.seen > LimitPerMin

\* Counted before its minute was over.
Timely(s) == s.seen > 0 /\ ~s.late

\* While the minute lasts, the counter is at least what anyone has seen.
Reached(s) == Timely(s) /\ s.key[2] = now => s.seen <= count[s.key]

Differ(s, t) == Timely(s) /\ Timely(t) /\ s.key = t.key => s.seen # t.seen

\* The requests a counter has counted; a sound counter is not ahead of them.
Counters(k) == {r \in Requests : req[r].key = k /\ req[r].seen > 0}

Sound(k) ==
  /\ count[k] <= Cardinality(Counters(k))
  /\ \A r \in Counters(k) : req[r].seen <= Cardinality(Counters(k))

IInv ==
  /\ TypeOK
  /\ \A k \in Keys : armed[k] >= k[2]
  /\ \A r \in Requests : Fits(req[r]) /\ Reached(req[r])
  /\ \A q, r \in Requests : q # r => Differ(req[q], req[r])
  /\ \A k \in Keys \ faulty : Sound(k)
  /\ CountersExpire

-----------------------------------------------------------------------------
(* Helpers.                                                                *)

LEMMA NotAKey == <<>> \notin Keys
<1>1. \A a, b : <<a, b>> # <<>>
  OBVIOUS
<1>2. ASSUME NEW S, NEW T PROVE \A x \in S \X T : x = <<x[1], x[2]>>
  OBVIOUS
<1>3. \A x \in Keys : x = <<x[1], x[2]>>
  BY <1>2 DEF Keys
<1> QED
  BY <1>1, <1>3, Zenon

LEMMA KeyMinute == ASSUME NEW k \in Keys PROVE k[2] \in Minutes /\ k[2] \in Nat
BY DEF Keys, Minutes

LEMMA WaitingTyped ==
  /\ Waiting \in RequestState
  /\ Waiting.pc = "new" /\ Waiting.key = <<>> /\ Waiting.seen = 0 /\ ~Waiting.late
BY DEF Waiting, RequestState

LEMMA CountersFinite ==
  ASSUME NEW k
  PROVE  IsFiniteSet(Counters(k)) /\ Cardinality(Counters(k)) \in Nat
<1>1. Counters(k) \in SUBSET Requests
  BY DEF Counters
<1>2. IsFiniteSet(Counters(k))
  BY <1>1, FS_Subset
<1> QED
  BY <1>2, FS_CardinalityType

LEMMA InitHolds == Init => IInv
<1> SUFFICES ASSUME Init PROVE IInv
  OBVIOUS
<1>1. \A r \in Requests : req[r] = Waiting
  BY DEF Init
<1>2. req \in [Requests -> RequestState]
  BY WaitingTyped DEF Init
<1>3. \A k \in Keys : k[2] \in Nat /\ NoTTL >= k[2] /\ NoTTL \in Nat
  BY KeyMinute DEF NoTTL, Minutes
<1>4. TypeOK /\ \A k \in Keys : armed[k] >= k[2]
  BY <1>2, <1>3 DEF Init, TypeOK, Minutes, NoTTL
<1>5. \A r \in Requests : Fits(req[r]) /\ Reached(req[r])
  BY <1>1, WaitingTyped DEF Fits, Reached, Timely
<1>6. \A q, r \in Requests : Differ(req[q], req[r])
  BY <1>1, WaitingTyped DEF Differ, Timely
<1>7. ASSUME NEW k \in Keys PROVE Sound(k)
  <2>1. Counters(k) = {}
    BY <1>1, WaitingTyped DEF Counters
  <2> QED
    BY <2>1, CountersFinite DEF Init, Sound
<1>8. CountersExpire
  BY DEF Init, CountersExpire
<1> QED
  BY <1>4, <1>5, <1>6, <1>7, <1>8 DEF IInv

Points == {"new", "incr", "expire", "served", "refused", "dead"}

LEMMA FieldSet ==
  ASSUME NEW s \in RequestState
  PROVE  /\ \A pc \in Points : [s EXCEPT !.pc = pc] \in RequestState
         /\ \A k \in Keys : [s EXCEPT !.key = k] \in RequestState
         /\ \A n \in Nat : [s EXCEPT !.seen = n] \in RequestState
         /\ \A b \in BOOLEAN : [s EXCEPT !.late = b] \in RequestState
<1>1. \A t \in RequestState, pc \in Points : [t EXCEPT !.pc = pc] \in RequestState
  BY DEF RequestState, Points
<1>2. \A t \in RequestState, k \in Keys : [t EXCEPT !.key = k] \in RequestState
  BY DEF RequestState
<1>3. \A t \in RequestState, n \in Nat : [t EXCEPT !.seen = n] \in RequestState
  BY DEF RequestState
<1>4. \A t \in RequestState, b \in BOOLEAN : [t EXCEPT !.late = b] \in RequestState
  BY DEF RequestState
<1> QED
  BY <1>1, <1>2, <1>3, <1>4

LEMMA CountedSet ==
  ASSUME NEW s \in RequestState, NEW pc \in Points, NEW n \in Nat, NEW b \in BOOLEAN
  PROVE  [s EXCEPT !.pc = pc, !.seen = n, !.late = b] \in RequestState
<1>1. [s EXCEPT !.pc = pc] \in RequestState
  BY FieldSet
<1>2. [[s EXCEPT !.pc = pc] EXCEPT !.seen = n] \in RequestState
  BY <1>1, FieldSet
<1>3. [[[s EXCEPT !.pc = pc] EXCEPT !.seen = n] EXCEPT !.late = b] \in RequestState
  BY <1>2, FieldSet
<1> QED
  BY <1>3

-----------------------------------------------------------------------------
(* Steps.                                                                  *)

\* CountersExpire, counter by counter.
Arming(k) == count[k] > 0 /\ armed[k] = NoTTL => \E r \in Using(k) : req[r].pc = "expire"

\* A step of one request, which may move its counter up.
LEMMA RequestStep ==
  ASSUME IInv, NEW r \in Requests, NEW s \in RequestState, req' = [req EXCEPT ![r] = s],
         UNCHANGED now,
         count' \in [Keys -> Nat], \A k \in Keys : count'[k] >= count[k],
         armed' \in [Keys -> 0..NoTTL], \A k \in Keys : armed'[k] >= k[2],
         faulty' \subseteq Keys,
         Fits(s), Reached(s)',
         \A q \in Requests \ {r} : Differ(s, req[q]) /\ Differ(req[q], s),
         \A k \in Keys \ faulty' : Sound(k)' /\ Arming(k)'
  PROVE  IInv'
<1>1. req \in [Requests -> RequestState]
  BY DEF IInv, TypeOK
<1>2. /\ req' \in [Requests -> RequestState]
      /\ req'[r] = s
      /\ \A q \in Requests \ {r} : req'[q] = req[q]
  BY <1>1
<1>3. TypeOK'
  BY <1>2 DEF IInv, TypeOK, Minutes
<1>4. ASSUME NEW q \in Requests PROVE Fits(req[q])'
  <2>1. PICK t : t = req'[q] /\ Fits(t)
    BY <1>2 DEF IInv
  <2> QED
    BY <2>1 DEF Fits
<1>5. ASSUME NEW q \in Requests \ {r} PROVE Reached(req[q])'
  <2>1. PICK t \in RequestState : t = req[q] /\ t = req'[q]
    BY <1>1, <1>2
  <2>2. Reached(t) /\ Fits(t)
    BY <2>1 DEF IInv
  <2>3. Timely(t) => t.key \in Keys
    BY <2>2 DEF Fits, Timely
  <2>4. Timely(t) => count'[t.key] >= count[t.key] /\ count[t.key] \in Nat /\ t.seen \in Nat
    BY <2>3 DEF IInv, TypeOK, RequestState
  <2>5. Timely(t) /\ t.key[2] = now => t.seen <= count'[t.key]
    BY <2>2, <2>3, <2>4 DEF Reached
  <2> QED
    BY <2>1, <2>5 DEF Reached, Timely
<1>6. Reached(req[r])'
  BY <1>2 DEF Reached, Timely
<1>7. \A p, q \in Requests : p # q => Differ(req[p], req[q])'
  <2>1. \A p, q \in Requests : p # q => Differ(req'[p], req'[q])
    BY <1>2 DEF IInv
  <2> QED
    BY <2>1 DEF Differ, Timely
<1>8. CountersExpire'
  BY <1>3 DEF Arming, CountersExpire
<1> QED
  BY <1>3, <1>4, <1>5, <1>6, <1>7, <1>8 DEF IInv

\* A counter that the step leaves alone stays sound.
LEMMA SoundKept ==
  ASSUME IInv, NEW r \in Requests, NEW s, req' = [req EXCEPT ![r] = s],
         \/ s.seen = req[r].seen /\ s.key = req[r].key
         \/ s.seen = 0 /\ req[r].seen = 0,
         NEW k \in Keys \ faulty, count'[k] = count[k]
  PROVE  Sound(k)'
<1>1. /\ req'[r] = s
      /\ \A q \in Requests \ {r} : req'[q] = req[q]
  BY DEF IInv, TypeOK
<1>2. Counters(k)' = Counters(k)
  BY <1>1 DEF Counters
<1>3. \A q \in Counters(k) : req'[q].seen = req[q].seen
  BY <1>1 DEF Counters
<1> QED
  BY <1>2, <1>3 DEF Sound, IInv

\* Its TTL stays set, or whoever is to set it stays on the way.
LEMMA ArmingKept ==
  ASSUME IInv, NEW r \in Requests, NEW s, req' = [req EXCEPT ![r] = s],
         NEW k \in Keys \ faulty, count'[k] = count[k], armed'[k] = armed[k],
         req[r].pc = "expire" => req[r].key # k
  PROVE  Arming(k)'
<1>1. \A q \in Requests \ {r} : req'[q] = req[q]
  BY DEF IInv, TypeOK
<1>2. Arming(k)
  BY DEF IInv, CountersExpire, Arming
<1>3. CASE count[k] > 0 /\ armed[k] = NoTTL
  <2>1. PICK q \in Using(k) : req[q].pc = "expire"
    BY <1>2, <1>3 DEF Arming
  <2>2. q \in Requests \ {r} /\ req'[q] = req[q]
    BY <1>1, <2>1 DEF Using
  <2>3. q \in Using(k)' /\ req'[q].pc = "expire"
    BY <2>1, <2>2 DEF Using
  <2> QED
    BY <2>3 DEF Arming
<1>4. CASE ~(count[k] > 0 /\ armed[k] = NoTTL)
  BY <1>4 DEF Arming, NoTTL
<1> QED
  BY <1>3, <1>4

-----------------------------------------------------------------------------
(* Actions.                                                                *)

LEMMA Now == IInv => now \in Nat /\ now <= LastMinute /\ now \in 0..NoTTL /\ now # NoTTL
BY DEF IInv, TypeOK, Minutes, NoTTL

LEMMA VerdictFits ==
  ASSUME NEW n \in Nat
  PROVE  /\ Verdict(n) \in {"served", "refused"}
         /\ Verdict(n) = "served" => n <= LimitPerMin
         /\ Verdict(n) = "refused" => n > LimitPerMin
BY DEF Verdict

LEMMA ArriveKeeps ==
  ASSUME IInv, NEW r \in Requests, NEW ip \in IPs, Arrive(r, ip) PROVE IInv'
<1>1. <<ip, now>> \in Keys /\ <<ip, now>>[2] = now
  BY DEF IInv, TypeOK, Keys
<1>2. req[r] \in RequestState /\ Fits(req[r]) /\ req[r].pc = "new"
  BY DEF IInv, TypeOK, Arrive
<1>3. PICK s \in RequestState : s = [Waiting EXCEPT !.pc = "incr", !.key = <<ip, now>>]
  <2>1. [Waiting EXCEPT !.pc = "incr"] \in RequestState
    BY WaitingTyped, FieldSet DEF Points
  <2>2. [[Waiting EXCEPT !.pc = "incr"] EXCEPT !.key = <<ip, now>>] \in RequestState
    BY <1>1, <2>1, FieldSet
  <2> QED
    BY <2>2
<1>4. s.pc = "incr" /\ s.key = <<ip, now>> /\ s.seen = 0
  BY <1>3 DEF Waiting
<1>5. req' = [req EXCEPT ![r] = s] /\ UNCHANGED <<now, count, armed, faulty>>
  BY <1>3 DEF Arrive
<1>6. Fits(s)
  BY <1>1, <1>4, Now DEF Fits
<1>7. /\ Reached(s)'
      /\ \A q \in Requests \ {r} : Differ(s, req[q]) /\ Differ(req[q], s)
  BY <1>4 DEF Reached, Differ, Timely
<1>8. req[r].seen = 0
  BY <1>2 DEF Fits
<1>9. ASSUME NEW k \in Keys \ faulty PROVE Sound(k)' /\ Arming(k)'
  BY <1>2, <1>4, <1>5, <1>8, SoundKept, ArmingKept
<1>10. count \in [Keys -> Nat] /\ armed \in [Keys -> 0..NoTTL] /\ faulty \subseteq Keys
  BY DEF IInv, TypeOK
<1>11. \A k \in Keys : armed[k] >= k[2] /\ count[k] >= count[k]
  BY <1>10 DEF IInv
<1> QED
  BY <1>5, <1>6, <1>7, <1>9, <1>10, <1>11, RequestStep

\* INCR reported an error: the request passes uncounted.
LEMMA IncrFailsKeeps ==
  ASSUME IInv, NEW r \in Requests, IncrFails(r) PROVE IInv'
<1>1. req[r] \in RequestState /\ Fits(req[r]) /\ req[r].pc = "incr"
  BY DEF IInv, TypeOK, IncrFails
<1>2. req[r].key \in Keys /\ req[r].key[2] <= now /\ req[r].seen = 0
  BY <1>1 DEF Fits
<1>3. PICK s \in RequestState : s = [req[r] EXCEPT !.pc = "served"]
  BY <1>1, FieldSet DEF Points
<1>4. s.pc = "served" /\ s.key = req[r].key /\ s.seen = 0
  BY <1>1, <1>2, <1>3 DEF RequestState
<1>5. /\ req' = [req EXCEPT ![r] = s] /\ UNCHANGED <<now, armed>>
      /\ faulty' = faulty \cup {req[r].key}
  BY <1>3 DEF IncrFails, Faulty
<1>6. Fits(s)
  BY <1>2, <1>4 DEF Fits
<1>7. /\ Reached(s)'
      /\ \A q \in Requests \ {r} : Differ(s, req[q]) /\ Differ(req[q], s)
  BY <1>4 DEF Reached, Differ, Timely
<1>8. PICK n \in 0..1 : count' = [count EXCEPT ![req[r].key] = @ + n]
  BY DEF IncrFails, Counted
<1>9. count \in [Keys -> Nat] /\ armed \in [Keys -> 0..NoTTL] /\ faulty' \subseteq Keys
  BY <1>2, <1>5 DEF IInv, TypeOK
<1>10. /\ count' \in [Keys -> Nat]
       /\ \A k \in Keys : count'[k] >= count[k]
       /\ \A k \in Keys \ {req[r].key} : count'[k] = count[k]
  BY <1>2, <1>8, <1>9
<1>11. ASSUME NEW k \in Keys \ faulty' PROVE Sound(k)' /\ Arming(k)'
  <2>1. k \in Keys \ faulty /\ count'[k] = count[k] /\ armed'[k] = armed[k]
    BY <1>5, <1>10
  <2> QED
    BY <1>1, <1>2, <1>4, <1>5, <2>1, SoundKept, ArmingKept
<1>12. \A k \in Keys : armed'[k] >= k[2]
  BY <1>5 DEF IInv
<1> QED
  BY <1>5, <1>6, <1>7, <1>9, <1>10, <1>11, <1>12, RequestStep

LEMMA DieKeeps == ASSUME IInv, NEW r \in Requests, Die(r) PROVE IInv'
<1>1. req[r] \in RequestState /\ Fits(req[r]) /\ req[r].pc \in {"incr", "expire"}
  BY DEF IInv, TypeOK, Die
<1>2. req[r].key \in Keys /\ req[r].key[2] <= now
  BY <1>1 DEF Fits
<1>3. PICK s \in RequestState : s = [req[r] EXCEPT !.pc = "dead"]
  BY <1>1, FieldSet DEF Points
<1>4. s.pc = "dead" /\ s.key = req[r].key /\ s.seen = req[r].seen /\ s.late = req[r].late
  BY <1>1, <1>3 DEF RequestState
<1>5. /\ req' = [req EXCEPT ![r] = s] /\ UNCHANGED <<now, count, armed>>
      /\ faulty' = faulty \cup {req[r].key}
  BY <1>3 DEF Die, Faulty
<1>6. Fits(s)
  BY <1>2, <1>4 DEF Fits
<1>7. Reached(s)'
  <2>1. Reached(req[r])
    BY DEF IInv
  <2> QED
    BY <1>4, <1>5, <2>1 DEF Reached, Timely
<1>8. ASSUME NEW q \in Requests \ {r} PROVE Differ(s, req[q]) /\ Differ(req[q], s)
  <2>1. Differ(req[r], req[q]) /\ Differ(req[q], req[r])
    BY DEF IInv
  <2> QED
    BY <1>4, <2>1 DEF Differ, Timely
<1>9. ASSUME NEW k \in Keys \ faulty' PROVE Sound(k)' /\ Arming(k)'
  <2>1. k \in Keys \ faulty /\ k # req[r].key
    BY <1>5
  <2> QED
    BY <1>4, <1>5, <2>1, SoundKept, ArmingKept
<1>10. /\ count \in [Keys -> Nat] /\ armed \in [Keys -> 0..NoTTL] /\ faulty' \subseteq Keys
       /\ \A k \in Keys : armed[k] >= k[2] /\ count[k] >= count[k]
  BY <1>2, <1>5 DEF IInv, TypeOK
<1> QED
  BY <1>5, <1>6, <1>7, <1>8, <1>9, <1>10, RequestStep

LEMMA IncrKeeps == ASSUME IInv, NEW r \in Requests, Incr(r) PROVE IInv'
<1>1. req[r] \in RequestState /\ Fits(req[r]) /\ req[r].pc = "incr"
  BY DEF IInv, TypeOK, Incr
<1>2. PICK k \in Keys : k = req[r].key /\ k[2] <= now
  BY <1>1 DEF Fits
<1>3. req[r].seen = 0
  BY <1>1 DEF Fits
<1>4. /\ count \in [Keys -> Nat] /\ armed \in [Keys -> 0..NoTTL] /\ faulty \subseteq Keys
      /\ \A j \in Keys : armed[j] >= j[2]
  BY DEF IInv, TypeOK
<1>5. PICK n \in 1..2 :
        /\ Counted(k, n)
        /\ req' = [req EXCEPT
             ![r].pc = IF count[k] + n = 1 THEN "expire" ELSE Verdict(count[k] + n),
             ![r].seen = count[k] + n,
             ![r].late = now > k[2]]
        /\ IF n = 1 THEN UNCHANGED faulty ELSE Faulty(r)
  BY <1>2 DEF Incr
<1>6. UNCHANGED <<now, armed>>
  BY DEF Incr
<1>7. PICK m \in Nat : m = count[k] + n
  BY <1>4
<1>8. PICK late \in BOOLEAN : late = (now > k[2])
  <2>1. CASE now > k[2]
    <3>1. TRUE = (now > k[2])
      BY <2>1
    <3> QED
      BY <3>1
  <2>2. CASE ~(now > k[2])
    <3>1. FALSE = (now > k[2])
      BY <2>2
    <3> QED
      BY <3>1
  <2> QED
    BY <2>1, <2>2
<1>9. PICK pc \in Points : pc = IF count[k] + n = 1 THEN "expire" ELSE Verdict(count[k] + n)
  BY <1>7, VerdictFits DEF Points
<1>10. m > 0 /\ m > count[k] /\ m >= n
  BY <1>4, <1>7
<1>11. PICK s \in RequestState : s = [req[r] EXCEPT !.pc = pc, !.seen = m, !.late = late]
  <2>1. [req[r] EXCEPT !.pc = pc, !.seen = m, !.late = late] \in RequestState
    BY <1>1, CountedSet
  <2> QED
    BY <2>1
<1>12. s.pc = pc /\ s.seen = m /\ s.late = late /\ s.key = k
  BY <1>1, <1>2, <1>11 DEF RequestState
<1>13. req' = [req EXCEPT ![r] = s]
  BY <1>5, <1>7, <1>8, <1>9, <1>11
<1>14. /\ count' \in [Keys -> Nat]
       /\ count'[k] = m
       /\ \A j \in Keys \ {k} : count'[j] = count[j]
       /\ \A j \in Keys : count'[j] >= count[j]
  BY <1>4, <1>5, <1>7, <1>10 DEF Counted
<1>15. n = 1 \/ k \in faulty'
  BY <1>2, <1>5 DEF Faulty
<1>16. faulty \subseteq faulty' /\ faulty' \subseteq Keys
  BY <1>2, <1>4, <1>5 DEF Faulty
<1>17. Fits(s)
  <2>1. pc = "expire" \/ pc = Verdict(m)
    BY <1>7, <1>9
  <2> QED
    BY <1>2, <1>10, <1>12, <2>1, VerdictFits DEF Fits
<1>18. Reached(s)'
  BY <1>6, <1>12, <1>14 DEF Reached, Timely
<1>19. ASSUME NEW q \in Requests \ {r} PROVE Differ(s, req[q]) /\ Differ(req[q], s)
  <2>1. PICK t \in RequestState : t = req[q]
    BY DEF IInv, TypeOK
  <2>2. Reached(t) /\ t.seen \in Nat
    BY <2>1 DEF IInv, RequestState
  <2>3. Timely(s) => k[2] = now
    <3>1. Timely(s) => ~(now > k[2])
      BY <1>8, <1>12, Zenon DEF Timely
    <3>2. now \in Nat /\ k[2] \in Nat
      BY Now, KeyMinute
    <3> QED
      BY <1>2, <3>1, <3>2
  <2>4. Timely(s) /\ Timely(t) /\ t.key = k => t.seen <= count[k]
    BY <2>2, <2>3 DEF Reached
  <2>5. Timely(s) /\ Timely(t) /\ t.key = k => t.seen # m
    BY <1>4, <1>10, <2>2, <2>4
  <2> QED
    BY <1>12, <2>1, <2>5 DEF Differ
<1>20. ASSUME NEW j \in Keys \ faulty', j # k PROVE Sound(j)' /\ Arming(j)'
  <2>1. j \in Keys \ faulty /\ count'[j] = count[j] /\ armed'[j] = armed[j]
    BY <1>6, <1>14, <1>16, <1>20
  <2>2. Counters(j)' = Counters(j) /\ \A q \in Counters(j) : req'[q].seen = req[q].seen
    <3>1. /\ req'[r] = s
          /\ \A q \in Requests \ {r} : req'[q] = req[q]
      BY <1>13 DEF IInv, TypeOK
    <3> QED
      BY <1>2, <1>12, <1>20, <3>1 DEF Counters
  <2>3. Sound(j)'
    BY <2>1, <2>2 DEF Sound, IInv
  <2> QED
    BY <1>1, <1>13, <2>1, <2>3, ArmingKept
<1>21. ASSUME k \notin faulty' PROVE Sound(k)' /\ Arming(k)'
  <2>1. n = 1 /\ k \notin faulty /\ m = count[k] + 1
    BY <1>7, <1>15, <1>16, <1>21
  <2>2. /\ req'[r] = s
        /\ \A q \in Requests \ {r} : req'[q] = req[q]
    BY <1>13 DEF IInv, TypeOK
  <2>3. r \notin Counters(k) /\ Counters(k)' = Counters(k) \cup {r}
    BY <1>3, <1>10, <1>12, <2>2 DEF Counters
  <2>4. Cardinality(Counters(k)') = Cardinality(Counters(k)) + 1
    BY <2>3, CountersFinite, FS_AddElement
  <2>5. Sound(k) /\ Arming(k)
    BY <2>1 DEF IInv, CountersExpire, Arming
  <2>6. m <= Cardinality(Counters(k)')
    BY <1>4, <2>1, <2>4, <2>5, CountersFinite DEF Sound
  <2>7. ASSUME NEW q \in Counters(k)' PROVE req'[q].seen <= Cardinality(Counters(k)')
    <3>1. CASE q = r
      BY <1>12, <2>2, <2>6, <3>1
    <3>2. CASE q # r
      <4>1. q \in Counters(k) /\ req'[q] = req[q]
        BY <2>2, <2>3, <3>2 DEF Counters
      <4>2. req[q].seen \in Nat
        BY <4>1 DEF Counters, IInv, TypeOK, RequestState
      <4> QED
        BY <2>4, <2>5, <4>1, <4>2, CountersFinite DEF Sound
    <3> QED
      BY <3>1, <3>2
  <2>8. Sound(k)'
    BY <1>14, <2>6, <2>7 DEF Sound
  <2>9. Arming(k)'
    <3>1. CASE count[k] = 0
      <4>1. s.pc = "expire"
        BY <1>4, <1>9, <1>12, <2>1, <3>1
      <4>2. r \in Using(k)' /\ req'[r].pc = "expire"
        BY <1>12, <2>2, <4>1 DEF Using
      <4> QED
        BY <4>2 DEF Arming
    <3>2. CASE count[k] > 0 /\ armed[k] = NoTTL
      <4>1. PICK q \in Using(k) : req[q].pc = "expire"
        BY <2>5, <3>2 DEF Arming
      <4>2. q # r
        BY <1>1, <4>1
      <4>3. q \in Using(k)' /\ req'[q].pc = "expire"
        BY <2>2, <4>1, <4>2 DEF Using
      <4> QED
        BY <4>3 DEF Arming
    <3>3. CASE armed[k] # NoTTL
      BY <1>6, <3>3 DEF Arming, NoTTL
    <3> QED
      BY <1>4, <3>1, <3>2, <3>3
  <2> QED
    BY <2>8, <2>9
<1>22. \A j \in Keys \ faulty' : Sound(j)' /\ Arming(j)'
  BY <1>20, <1>21
<1>23. \A j \in Keys : armed'[j] >= j[2]
  BY <1>4, <1>6
<1> QED
  BY <1>4, <1>6, <1>13, <1>14, <1>16, <1>17, <1>18, <1>19, <1>22, <1>23, RequestStep

LEMMA ExpireKeeps == ASSUME IInv, NEW r \in Requests, Expire(r) PROVE IInv'
<1>1. req[r] \in RequestState /\ Fits(req[r]) /\ req[r].pc = "expire"
  BY DEF IInv, TypeOK, Expire
<1>2. PICK k \in Keys : k = req[r].key /\ k[2] <= now
  BY <1>1 DEF Fits
<1>3. PICK n \in Nat : n = req[r].seen /\ n > 0
  BY <1>1 DEF Fits, RequestState
<1>4. PICK pc \in Points : pc = Verdict(n)
  BY VerdictFits DEF Points
<1>5. PICK s \in RequestState : s = [req[r] EXCEPT !.pc = pc]
  BY <1>1, FieldSet
<1>6. s.pc = pc /\ s.key = k /\ s.seen = n /\ s.late = req[r].late
  BY <1>1, <1>2, <1>3, <1>5 DEF RequestState
<1>7. req' = [req EXCEPT ![r] = s] /\ UNCHANGED <<now, count>>
  BY <1>3, <1>4, <1>5 DEF Expire
<1>8. /\ count \in [Keys -> Nat] /\ armed \in [Keys -> 0..NoTTL] /\ faulty \subseteq Keys
      /\ \A j \in Keys : armed[j] >= j[2] /\ count[j] >= count[j]
  BY DEF IInv, TypeOK
<1>9. \/ armed' = [armed EXCEPT ![k] = now] /\ faulty' = faulty
      \/ count[k] = 0 /\ armed' = armed /\ faulty' = faulty
      \/ armed' = armed /\ faulty' = faulty \cup {k}
  BY <1>2 DEF Expire, Faulty
<1>10. /\ armed' \in [Keys -> 0..NoTTL]
       /\ \A j \in Keys : armed'[j] >= j[2]
       /\ \A j \in Keys \ {k} : armed'[j] = armed[j]
       /\ faulty \subseteq faulty' /\ faulty' \subseteq Keys
  BY <1>2, <1>8, <1>9, Now
<1>11. k \in faulty' \/ count[k] = 0 \/ armed'[k] # NoTTL
  BY <1>8, <1>9, Now
<1>12. Fits(s)
  BY <1>2, <1>3, <1>4, <1>6, VerdictFits DEF Fits
<1>13. Reached(s)'
  <2>1. Reached(req[r])
    BY DEF IInv
  <2> QED
    BY <1>2, <1>3, <1>6, <1>7, <2>1 DEF Reached, Timely
<1>14. ASSUME NEW q \in Requests \ {r} PROVE Differ(s, req[q]) /\ Differ(req[q], s)
  <2>1. Differ(req[r], req[q]) /\ Differ(req[q], req[r])
    BY DEF IInv
  <2> QED
    BY <1>2, <1>3, <1>6, <2>1 DEF Differ, Timely
<1>15. ASSUME NEW j \in Keys \ faulty' PROVE Sound(j)' /\ Arming(j)'
  <2>1. j \in Keys \ faulty /\ count'[j] = count[j]
    BY <1>7, <1>10
  <2>2. Sound(j)'
    BY <1>2, <1>3, <1>6, <1>7, <2>1, SoundKept
  <2>3. j # k => Arming(j)'
    <3>1. j # k => armed'[j] = armed[j] /\ req[r].key # j
      BY <1>2, <1>10
    <3> QED
      BY <1>7, <2>1, <3>1, ArmingKept
  <2>4. j = k => Arming(j)'
    BY <1>7, <1>11 DEF Arming, NoTTL
  <2> QED
    BY <2>2, <2>3, <2>4
<1>16. count' \in [Keys -> Nat] /\ \A j \in Keys : count'[j] >= count[j]
  BY <1>7, <1>8
<1> QED
  BY <1>7, <1>10, <1>12, <1>13, <1>14, <1>15, <1>16, RequestStep

\* The TTL of k was set in its minute or later, so its minute is over.
LEMMA KeyExpiresKeeps == ASSUME IInv, NEW k \in Keys, KeyExpires(k) PROVE IInv'
<1>1. /\ count \in [Keys -> Nat] /\ armed \in [Keys -> 0..NoTTL] /\ NoTTL \in Nat
      /\ \A j \in Keys : armed[j] >= j[2]
  BY DEF IInv, TypeOK, NoTTL
<1>2. /\ count' = [count EXCEPT ![k] = 0]
      /\ armed' = [armed EXCEPT ![k] = NoTTL]
      /\ UNCHANGED <<now, faulty, req>>
      /\ now > armed[k]
  BY DEF KeyExpires
<1>3. /\ count' \in [Keys -> Nat] /\ armed' \in [Keys -> 0..NoTTL]
      /\ count'[k] = 0 /\ armed'[k] = NoTTL
      /\ \A j \in Keys \ {k} : count'[j] = count[j] /\ armed'[j] = armed[j]
  BY <1>1, <1>2
<1>4. TypeOK'
  BY <1>2, <1>3 DEF IInv, TypeOK, Minutes
<1>5. ASSUME NEW j \in Keys PROVE armed'[j] >= j[2]
  <2>1. j[2] \in Nat /\ j[2] <= NoTTL
    BY KeyMinute DEF Minutes, NoTTL
  <2> QED
    BY <1>1, <1>3, <2>1
<1>6. \A r \in Requests : Fits(req[r])'
  BY <1>2 DEF IInv, Fits
<1>7. ASSUME NEW r \in Requests PROVE Reached(req[r])'
  <2>1. PICK s \in RequestState : s = req[r] /\ s = req'[r]
    BY <1>2 DEF IInv, TypeOK
  <2>2. Reached(s) /\ Fits(s)
    BY <2>1 DEF IInv
  <2>3. Timely(s) => s.key \in Keys
    BY <2>2 DEF Fits, Timely
  <2>4. k[2] # now
    BY <1>1, <1>2, KeyMinute, Now
  <2>5. Timely(s) /\ s.key[2] = now => s.seen <= count'[s.key]
    BY <1>3, <2>2, <2>3, <2>4 DEF Reached
  <2> QED
    BY <1>2, <2>1, <2>5 DEF Reached, Timely
<1>8. \A q, r \in Requests : q # r => Differ(req[q], req[r])'
  BY <1>2 DEF IInv, Differ, Timely
<1>9. ASSUME NEW j \in Keys \ faulty' PROVE Sound(j)'
  <2>1. j \in Keys \ faulty /\ Sound(j) /\ Counters(j)' = Counters(j)
    BY <1>2 DEF IInv, Counters
  <2>2. count'[j] <= Cardinality(Counters(j))
    BY <1>1, <1>3, <2>1, CountersFinite DEF Sound
  <2> QED
    BY <1>2, <2>1, <2>2 DEF Sound
<1>10. CountersExpire'
  <2>1. CountersExpire
    BY DEF IInv
  <2> QED
    BY <1>2, <1>3, <2>1 DEF CountersExpire, Using, NoTTL
<1> QED
  BY <1>4, <1>5, <1>6, <1>7, <1>8, <1>9, <1>10 DEF IInv

\* Time passes: no key of the new minute has been used yet.
LEMMA ClockKeeps == ASSUME IInv, Clock PROVE IInv'
<1>1. now \in Nat /\ now' = now + 1 /\ now' \in Minutes /\ UNCHANGED <<count, armed, faulty, req>>
  BY Now DEF Clock, Minutes
<1>2. TypeOK'
  BY <1>1 DEF IInv, TypeOK
<1>3. ASSUME NEW r \in Requests PROVE Fits(req[r])' /\ Reached(req[r])'
  <2>1. PICK s \in RequestState : s = req[r] /\ s = req'[r]
    BY <1>1 DEF IInv, TypeOK
  <2>2. Fits(s)
    BY <2>1 DEF IInv
  <2>3. s.pc # "new" => s.key \in Keys /\ s.key[2] \in Nat /\ s.key[2] <= now
    BY <2>2, KeyMinute DEF Fits
  <2>4. s.pc # "new" => s.key[2] <= now' /\ s.key[2] # now'
    BY <1>1, <2>3
  <2>5. Timely(s) => s.pc # "new"
    BY <2>2 DEF Fits, Timely
  <2>6. Fits(s)'
    BY <1>1, <2>2, <2>4 DEF Fits
  <2>7. Reached(s)'
    BY <2>4, <2>5 DEF Reached, Timely
  <2> QED
    BY <2>1, <2>6, <2>7 DEF Fits, Reached, Timely
<1>4. \A q, r \in Requests : q # r => Differ(req[q], req[r])'
  BY <1>1 DEF IInv, Differ, Timely
<1>5. \A k \in Keys \ faulty' : Sound(k)'
  BY <1>1 DEF IInv, Sound, Counters
<1>6. CountersExpire'
  BY <1>1 DEF IInv, CountersExpire, Using, NoTTL
<1>7. \A k \in Keys : armed'[k] >= k[2]
  BY <1>1 DEF IInv
<1> QED
  BY <1>2, <1>3, <1>4, <1>5, <1>6, <1>7 DEF IInv

LEMMA StutterKeeps == ASSUME IInv, UNCHANGED vars PROVE IInv'
<1>1. UNCHANGED <<now, count, armed, faulty, req>>
  BY DEF vars
<1>2. TypeOK' /\ CountersExpire' /\ \A k \in Keys : armed'[k] >= k[2]
  BY <1>1 DEF IInv, TypeOK, CountersExpire, Using, NoTTL
<1>3. \A r \in Requests : Fits(req[r])' /\ Reached(req[r])'
  BY <1>1 DEF IInv, Fits, Reached, Timely
<1>4. \A q, r \in Requests : q # r => Differ(req[q], req[r])'
  BY <1>1 DEF IInv, Differ, Timely
<1>5. \A k \in Keys \ faulty' : Sound(k)'
  BY <1>1 DEF IInv, Sound, Counters
<1> QED
  BY <1>2, <1>3, <1>4, <1>5 DEF IInv

LEMMA StepKeeps == IInv /\ [Next]_vars => IInv'
<1> SUFFICES ASSUME IInv, [Next]_vars PROVE IInv'
  OBVIOUS
<1>1. CASE \E r \in Requests, ip \in IPs : Arrive(r, ip)
  BY <1>1, ArriveKeeps
<1>2. CASE \E r \in Requests : Incr(r)
  BY <1>2, IncrKeeps
<1>3. CASE \E r \in Requests : IncrFails(r)
  BY <1>3, IncrFailsKeeps
<1>4. CASE \E r \in Requests : Expire(r)
  BY <1>4, ExpireKeeps
<1>5. CASE \E r \in Requests : Die(r)
  BY <1>5, DieKeeps
<1>6. CASE \E k \in Keys : KeyExpires(k)
  BY <1>6, KeyExpiresKeeps
<1>7. CASE Clock
  BY <1>7, ClockKeeps
<1>8. CASE UNCHANGED vars
  BY <1>8, StutterKeeps
<1> QED
  BY <1>1, <1>2, <1>3, <1>4, <1>5, <1>6, <1>7, <1>8 DEF Next

LEMMA Invariance == Spec => []IInv
BY InitHolds, StepKeeps, PTL DEF Spec

-----------------------------------------------------------------------------
(* Results.                                                                *)

\* Every reachable state of the limiter (rate_limit.go:18-46) is well typed:
\* in particular no counter ever becomes negative.
THEOREM TypeCorrect == Spec => []TypeOK
<1>1. IInv => TypeOK
  BY DEF IInv
<1> QED
  BY <1>1, Invariance, PTL

\* Requests counted within their minute have seen different numbers, and
\* those let through have seen one of 1..LimitPerMin.
LEMMA AtMostTheLimit == IInv => LimitHoldsWithinTheMinute
<1> SUFFICES ASSUME IInv, NEW k \in Keys
             PROVE  Cardinality({r \in Requests :
                        req[r].key = k /\ req[r].pc = "served" /\ req[r].seen > 0 /\ ~req[r].late})
                      <= LimitPerMin
  BY DEF LimitHoldsWithinTheMinute
<1> DEFINE S == {r \in Requests :
                   req[r].key = k /\ req[r].pc = "served" /\ req[r].seen > 0 /\ ~req[r].late}
           seen == [r \in S |-> req[r].seen]
<1>1. \A r \in S : req[r].seen \in 1..LimitPerMin
  BY DEF IInv, TypeOK, RequestState, Fits
<1>2. \A q, r \in S : q # r => req[q].seen # req[r].seen
  BY DEF IInv, Differ, Timely
<1>3. seen \in [S -> 1..LimitPerMin] /\ \A q, r \in S : q # r => seen[q] # seen[r]
  BY <1>1, <1>2
<1>4. seen \in Injection(S, 1..LimitPerMin)
  BY <1>3 DEF Injection, IsInjective
<1>5. IsFiniteSet(1..LimitPerMin) /\ Cardinality(1..LimitPerMin) = LimitPerMin
  BY FS_Interval
<1> HIDE DEF S, seen
<1>6. Cardinality(S) <= Cardinality(1..LimitPerMin)
  BY <1>4, <1>5, FS_Injection, Zenon
<1>7. Cardinality(S) <= LimitPerMin
  BY <1>5, <1>6
<1> QED
  BY <1>7 DEF S

\* However requests interleave, whatever command fails and whenever a key
\* expires, of the requests counted within one minute of one address at most
\* LimitPerMin are served (rate_limit.go:30-45).
THEOREM LimitHolds == Spec => []LimitHoldsWithinTheMinute
BY AtMostTheLimit, Invariance, PTL

LEMMA RefusedHaveCompany == IInv => RefusedOnlyOverLimit
<1> SUFFICES ASSUME IInv, NEW r \in Requests, req[r].pc = "refused", req[r].key \notin faulty
             PROVE  Cardinality(Using(req[r].key)) > LimitPerMin
  BY DEF RefusedOnlyOverLimit
<1>1. req[r] \in RequestState /\ Fits(req[r])
  BY DEF IInv, TypeOK
<1>2. PICK k \in Keys \ faulty : k = req[r].key
  BY <1>1 DEF Fits
<1>3. PICK n \in Nat : n = req[r].seen /\ n > LimitPerMin /\ n > 0
  BY <1>1 DEF Fits, RequestState
<1>4. r \in Counters(k) /\ Sound(k)
  BY <1>2, <1>3 DEF IInv, Counters
<1>5. n <= Cardinality(Counters(k))
  BY <1>3, <1>4 DEF Sound
<1>6. Counters(k) \subseteq Using(k) /\ Using(k) \in SUBSET Requests
  BY DEF Counters, Using
<1>7. IsFiniteSet(Using(k)) /\ Cardinality(Using(k)) \in Nat
  BY <1>6, FS_Subset, FS_CardinalityType
<1>8. Cardinality(Counters(k)) <= Cardinality(Using(k))
  BY <1>6, <1>7, FS_Subset
<1> QED
  BY <1>2, <1>3, <1>5, <1>7, <1>8, CountersFinite

\* Nobody is refused unless more than LimitPerMin requests of that address
\* and minute arrived, or a command on the counter failed (rate_limit.go:39).
THEOREM Refusals == Spec => []RefusedOnlyOverLimit
BY RefusedHaveCompany, Invariance, PTL

\* A counter whose EXPIRE is not on its way has a TTL, unless a command on
\* it failed (rate_limit.go:36-38).
THEOREM CountersHaveTTL == Spec => []CountersExpire
<1>1. IInv => CountersExpire
  BY DEF IInv
<1> QED
  BY <1>1, Invariance, PTL

-----------------------------------------------------------------------------
(* The start and the end of the process: Shutdown.                         *)

HIDE RateLimitAssumption

\* What main has done by the time it is where it is.
Progress ==
  /\ main \in {"config", "ping", "wire"}
       => shutdown = "none" /\ server = "new" /\ \A t \in Tasks : task[t] = "none"
  /\ main \in {"ping", "wire", "listen", "serving", "cancel", "closeRedis"} => poolOpen
  /\ main \in {"cancel", "closeRedis", "closePool"} => server = "closed"
  /\ main \in {"closeRedis", "closePool"} => cancelled

ServerInv == ServerTypeOK /\ Progress

LEMMA ServerInitHolds == ServerInit => ServerInv
BY DEF ServerInit, ServerInv, ServerTypeOK, Progress, Tasks

LEMMA EndTyped == ASSUME ServerTypeOK, ProcessEnds PROVE main' = "exited" /\ task' \in
  [Tasks -> {"none", "running", "statement", "answered", "cut"}]
BY DEF ServerTypeOK, ProcessEnds

LEMMA StartKeeps ==
  ASSUME ServerInv, LoadConfig \/ Ping \/ Wire \/ Listen
  PROVE  ServerInv'
<1>1. ASSUME LoadConfig PROVE ServerInv'
  <2>1. CASE ProcessEnds
    BY <1>1, <2>1, EndTyped DEF ServerInv, ServerTypeOK, Progress, LoadConfig
  <2>2. CASE ~ProcessEnds
    BY <1>1, <2>2 DEF ServerInv, ServerTypeOK, Progress, LoadConfig
  <2> QED
    BY <2>1, <2>2
<1>2. ASSUME Ping PROVE ServerInv'
  <2>1. CASE ProcessEnds
    BY <1>2, <2>1, EndTyped DEF ServerInv, ServerTypeOK, Progress, Ping
  <2>2. CASE ~ProcessEnds
    BY <1>2, <2>2 DEF ServerInv, ServerTypeOK, Progress, Ping
  <2> QED
    BY <2>1, <2>2
<1>3. ASSUME Wire PROVE ServerInv'
  <2>1. task' \in [Tasks -> {"none", "running", "statement", "answered", "cut"}]
    BY <1>3 DEF Wire, ServerInv, ServerTypeOK
  <2> QED
    BY <1>3, <2>1 DEF ServerInv, ServerTypeOK, Progress, Wire
<1>4. ASSUME Listen PROVE ServerInv'
  <2>1. CASE ProcessEnds
    BY <1>4, <2>1, EndTyped DEF ServerInv, ServerTypeOK, Progress, Listen
  <2>2. CASE ~ProcessEnds
    BY <1>4, <2>2 DEF ServerInv, ServerTypeOK, Progress, Listen
  <2> QED
    BY <2>1, <2>2
<1> QED
  BY <1>1, <1>2, <1>3, <1>4

\* A task goes on only while main is past the start: it is not "none" there.
LEMMA TasksKeep ==
  ASSUME ServerInv, NEW t \in Tasks,
         \/ t \in Handlers /\ Accept(t)
         \/ BeginStatement(t) \/ EndStatement(t) \/ Finish(t)
  PROVE  ServerInv'
<1>1. PICK s \in {"running", "statement", "answered"} : task' = [task EXCEPT ![t] = s]
  BY DEF Accept, BeginStatement, EndStatement, Finish
<1>2. task' \in [Tasks -> {"none", "running", "statement", "answered", "cut"}]
  BY <1>1 DEF ServerInv, ServerTypeOK
<1>3. UNCHANGED <<main, shutdown, server, cancelled, poolOpen, deadline>>
  BY DEF Accept, BeginStatement, EndStatement, Finish
<1>4. CASE t \in Handlers /\ Accept(t)
  BY <1>2, <1>3, <1>4 DEF ServerInv, ServerTypeOK, Progress, Accept, Alive
<1>5. CASE BeginStatement(t) \/ EndStatement(t) \/ Finish(t)
  <2>1. task[t] # "none"
    BY <1>5 DEF BeginStatement, EndStatement, Finish
  <2> QED
    BY <1>2, <1>3, <2>1 DEF ServerInv, ServerTypeOK, Progress
<1> QED
  BY <1>4, <1>5

LEMMA SignalsKeep ==
  ASSUME ServerInv, Notify \/ Signal \/ Signalled \/ Deadline
  PROVE  ServerInv'
<1>1. ASSUME Notify \/ Signalled \/ Deadline PROVE ServerInv'
  BY <1>1 DEF ServerInv, ServerTypeOK, Progress, Notify, Signalled,
    CancelContext, CloseListener,
    Drained, Deadline
<1>2. ASSUME Signal PROVE ServerInv'
  <2>1. CASE ProcessEnds
    BY <1>2, <2>1, EndTyped DEF ServerInv, ServerTypeOK, Progress, Signal
  <2>2. CASE ~ProcessEnds
    BY <1>2, <2>2 DEF ServerInv, ServerTypeOK, Progress, Signal
  <2> QED
    BY <2>1, <2>2
<1> QED
  BY <1>1, <1>2

LEMMA EndKeeps ==
  ASSUME ServerInv,
         \/ ServeReturns \/ ServeFails \/ DeferCancel \/ CloseRedis
         \/ ClosePool \/ Exit
  PROVE  ServerInv'
<1>1. ASSUME ServeReturns \/ DeferCancel \/ CloseRedis \/ ClosePool
      PROVE  ServerInv'
  BY <1>1 DEF ServerInv, ServerTypeOK, Progress, ServeReturns, DeferCancel,
    CloseRedis, ClosePool
<1>2. ASSUME Exit \/ ServeFails PROVE ServerInv'
  BY <1>2, EndTyped DEF ServerInv, ServerTypeOK, Progress, Exit, ServeFails
<1> QED
  BY <1>1, <1>2

LEMMA ServerStepKeeps == ServerInv /\ [ServerNext]_serverVars => ServerInv'
<1> SUFFICES ASSUME ServerInv, [ServerNext]_serverVars PROVE ServerInv'
  OBVIOUS
<1>1. CASE UNCHANGED serverVars
  BY <1>1 DEF ServerInv, ServerTypeOK, Progress, serverVars
<1>2. ASSUME NEW h \in Handlers, Accept(h) PROVE ServerInv'
  BY <1>2, TasksKeep DEF Tasks
<1>3. ASSUME NEW t \in Tasks,
             BeginStatement(t) \/ EndStatement(t) \/ Finish(t)
      PROVE  ServerInv'
  BY <1>3, TasksKeep
<1>4. CASE Notify \/ Signal \/ Signalled \/ Deadline
  BY <1>4, SignalsKeep
<1>5. CASE LoadConfig \/ Ping \/ Wire \/ Listen
  BY <1>5, StartKeeps
<1>6. CASE \/ ServeReturns \/ ServeFails \/ DeferCancel \/ CloseRedis
           \/ ClosePool \/ Exit
  BY <1>6, EndKeeps
<1> QED
  BY <1>1, <1>2, <1>3, <1>4, <1>5, <1>6 DEF ServerNext, Control, Main

LEMMA ServerInvariance == ServerSpec => []ServerInv
<1>1. ServerInit => ServerInv
  BY ServerInitHolds
<1>2. ServerInv /\ [ServerNext]_serverVars => ServerInv'
  BY ServerStepKeeps
<1> QED
  BY <1>1, <1>2, PTL DEF ServerSpec

-----------------------------------------------------------------------------
\* Every reachable state is well typed.
THEOREM ServerTypeCorrect == ServerSpec => []ServerTypeOK
<1>1. ServerInv => ServerTypeOK
  BY DEF ServerInv
<1> QED
  BY <1>1, ServerInvariance, PTL

\* Whichever of main and the signal goroutine comes first, for any number of
\* requests: the pool is not closed under a server that still lets requests
\* in, nor before the aggregator has been told to stop.
THEOREM PoolClosesLast == ServerSpec => []PoolClosesAfterCancel
<1>1. ServerInv => PoolClosesAfterCancel
  <2> SUFFICES ASSUME ServerInv, ~poolOpen, Alive, NEW t \in Tasks, task[t] # "none"
               PROVE  cancelled /\ server = "closed"
    BY DEF PoolClosesAfterCancel
  <2>1. main = "closePool"
    BY DEF ServerInv, Progress, ServerTypeOK, Alive
  <2> QED
    BY <2>1 DEF ServerInv, Progress
<1> QED
  BY <1>1, ServerInvariance, PTL

-----------------------------------------------------------------------------
(* The limiter in the process: ApiProcess.                                 *)

LEMMA LimiterSteps == [ApiNext]_apiVars => [Next]_vars
<1> SUFFICES ASSUME [ApiNext]_apiVars PROVE [Next]_vars
  OBVIOUS
<1>1. CASE UNCHANGED apiVars
  BY <1>1 DEF apiVars
<1>2. ASSUME NEW r \in Requests,
             (\E ip \in IPs : ArriveAt(r, ip)) \/ Limiter(r) \/ DieWithProcess(r)
      PROVE  Next
  BY <1>2 DEF ArriveAt, Limiter, DieWithProcess, Next
<1>3. CASE \/ \E t \in Tasks : TaskStep(t)
           \/ Control /\ UNCHANGED vars
  BY <1>3 DEF TaskStep
<1>4. CASE ((\E k \in Keys : KeyExpires(k)) \/ Clock) /\ UNCHANGED serverVars
  BY <1>4 DEF Next
<1> QED
  BY <1>1, <1>2, <1>3, <1>4 DEF ApiNext

LEMMA ProcessSteps == [ApiNext]_apiVars => [ServerNext]_serverVars
<1> SUFFICES ASSUME [ApiNext]_apiVars PROVE [ServerNext]_serverVars
  OBVIOUS
<1>1. CASE UNCHANGED apiVars
  BY <1>1 DEF apiVars
<1>2. ASSUME NEW r \in Requests, NEW ip \in IPs, ArriveAt(r, ip) PROVE [ServerNext]_serverVars
  BY <1>2 DEF ArriveAt, ServerNext
<1>3. ASSUME NEW r \in Requests, Limiter(r) \/ DieWithProcess(r) PROVE UNCHANGED serverVars
  BY <1>3 DEF Limiter, DieWithProcess
<1>4. CASE \/ \E t \in Tasks : TaskStep(t)
           \/ Control /\ UNCHANGED vars
  BY <1>4 DEF TaskStep, ServerNext
<1>5. CASE ((\E k \in Keys : KeyExpires(k)) \/ Clock) /\ UNCHANGED serverVars
  BY <1>5
<1> QED
  BY <1>1, <1>2, <1>3, <1>4, <1>5 DEF ApiNext

\* Put together, the limiter and the process each behave as they do alone:
\* every step of ApiProcess is a step of RateLimit and one of Shutdown, or
\* leaves that one as it is.
THEOREM ImplementsBoth == ApiSpec => Spec /\ ServerSpec
<1>1. ApiInit => Init /\ ServerInit
  BY DEF ApiInit
<1> QED
  BY <1>1, LimiterSteps, ProcessSteps, PTL DEF ApiSpec, Spec, ServerSpec

\* In a process that starts, is told to stop and ends in any of its steps,
\* and beside other instances, the limit of an address and minute holds.
THEOREM LimitHoldsInProcess == ApiSpec => []LimitHoldsWithinTheMinute
BY ImplementsBoth, LimitHolds, PTL

\* Handlers on their way through the limiter do not keep the process from
\* closing the pool in its order.
THEOREM PoolClosesLastInProcess == ApiSpec => []PoolClosesAfterCancel
BY ImplementsBoth, PoolClosesLast, PTL

=============================================================================
