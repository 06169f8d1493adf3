--------------------------- MODULE SessionsProofs ---------------------------
(***************************************************************************)
(* Proofs about Sessions, for any number of users, tokens and concurrent   *)
(* requests.  Inv is the inductive invariant: besides the types and        *)
(* SessionsStayWithTheirUser it says for whom a request in flight acts,    *)
(* and that a token drawn and not yet stored is known to no one else.      *)
(***************************************************************************)
EXTENDS Sessions, TLAPS

HasPair(r) == req[r].pc = "reply" /\ req[r].code = 200

ActsForItsClient ==
  \A r \in Requests :
    req[r].pc \in {"load", "delete", "mint", "store"} \/ HasPair(r)
      => req[r].client \in Users /\ req[r].user = req[r].client

PresentsOwnToken ==
  \A r \in Requests :
    req[r].pc \in {"load", "delete"} \/ req[r].op \in {"refresh", "logout"}
      => req[r].client \in Users /\ req[r].given \in wallet[req[r].client]

MintedIsIssued ==
  \A r \in Requests :
    req[r].pc = "store" \/ HasPair(r) => req[r].minted \in issued

MintedIsUnknown ==
  \A r \in Requests :
    req[r].pc = "store"
      => /\ store[req[r].minted] = NoUser
         /\ \A c \in Users : req[r].minted \notin wallet[c]

MintedIsUnshared ==
  \A r, s \in Requests :
    r # s /\ req[r].pc = "store" /\ (req[s].pc = "store" \/ HasPair(s))
      => req[r].minted # req[s].minted

PairOpensOwnSession ==
  \A r \in Requests :
    HasPair(r) => store[req[r].minted] \in {req[r].user, NoUser}

OnlyIssuedTokens ==
  /\ \A c \in Users : wallet[c] \subseteq issued
  /\ \A t \in Tokens : store[t] # NoUser => t \in issued

Inv ==
  /\ TypeOK
  /\ ActsForItsClient
  /\ PresentsOwnToken
  /\ MintedIsIssued
  /\ MintedIsUnknown
  /\ MintedIsUnshared
  /\ PairOpensOwnSession
  /\ OnlyIssuedTokens
  /\ SessionsStayWithTheirUser

LEMMA LoginKeeps ==
  ASSUME Inv, NEW r \in Requests, NEW c \in Users, NEW email \in Users \cup {NoUser},
             NEW ok \in BOOLEAN, Login(r, c, email, ok)
  PROVE  Inv'
<1> USE SessionsAssumption DEF Inv, TypeOK, RequestState
<1>1. TypeOK'
  BY DEF Login, Begin
<1>2. ActsForItsClient'
  BY DEF Login, Begin, HasPair, ActsForItsClient
<1>3. PresentsOwnToken'
  BY DEF Login, Begin, PresentsOwnToken, MintedIsIssued
<1>4. MintedIsIssued'
  BY DEF Login, Begin, HasPair, MintedIsIssued
<1>5. MintedIsUnknown'
  BY DEF Login, Begin, MintedIsUnknown
<1>6. MintedIsUnshared'
  BY DEF Login, Begin, HasPair, MintedIsUnshared
<1>7. PairOpensOwnSession'
  BY DEF Login, Begin, HasPair, PairOpensOwnSession
<1>8. OnlyIssuedTokens'
  BY DEF Login, OnlyIssuedTokens
<1>9. SessionsStayWithTheirUser'
  BY DEF Login, SessionsStayWithTheirUser
<1> QED
  BY <1>1, <1>2, <1>3, <1>4, <1>5, <1>6, <1>7, <1>8, <1>9

LEMMA RefreshGetKeeps ==
  ASSUME Inv, NEW r \in Requests, NEW c \in Users, NEW t \in Tokens, RefreshGet(r, c, t)
  PROVE  Inv'
<1> USE SessionsAssumption DEF Inv, TypeOK, RequestState
<1>1. TypeOK'
  BY DEF RefreshGet, Begin
<1>2. ActsForItsClient'
  BY DEF RefreshGet, Begin, HasPair, ActsForItsClient, SessionsStayWithTheirUser
<1>3. PresentsOwnToken'
  BY DEF RefreshGet, Begin, PresentsOwnToken
<1>4. MintedIsIssued'
  BY DEF RefreshGet, Begin, HasPair, MintedIsIssued
<1>5. MintedIsUnknown'
  BY DEF RefreshGet, Begin, MintedIsUnknown
<1>6. MintedIsUnshared'
  BY DEF RefreshGet, Begin, HasPair, MintedIsUnshared
<1>7. PairOpensOwnSession'
  BY DEF RefreshGet, Begin, HasPair, PairOpensOwnSession
<1>8. OnlyIssuedTokens'
  BY DEF RefreshGet, OnlyIssuedTokens
<1>9. SessionsStayWithTheirUser'
  BY DEF RefreshGet, SessionsStayWithTheirUser
<1> QED
  BY <1>1, <1>2, <1>3, <1>4, <1>5, <1>6, <1>7, <1>8, <1>9

LEMMA LogoutKeeps ==
  ASSUME Inv, NEW r \in Requests, NEW c \in Users, NEW t \in Tokens, Logout(r, c, t)
  PROVE  Inv'
<1> USE SessionsAssumption DEF Inv, TypeOK, RequestState
<1>1. TypeOK'
  BY DEF Logout, RedisWrite, Answer204, RevokedIf
<1>2. ActsForItsClient'
  BY DEF Logout, Answer204, HasPair, ActsForItsClient
<1>3. PresentsOwnToken'
  BY DEF Logout, Answer204, PresentsOwnToken
<1>4. MintedIsIssued'
  BY DEF Logout, Answer204, HasPair, MintedIsIssued
<1>5. MintedIsUnknown'
  BY DEF Logout, RedisWrite, Answer204, MintedIsIssued, MintedIsUnknown
<1>6. MintedIsUnshared'
  BY DEF Logout, Answer204, HasPair, MintedIsUnshared
<1>7. PairOpensOwnSession'
  BY DEF Logout, RedisWrite, Answer204, HasPair, MintedIsIssued, PairOpensOwnSession
<1>8. OnlyIssuedTokens'
  BY DEF Logout, RedisWrite, OnlyIssuedTokens
<1>9. SessionsStayWithTheirUser'
  BY DEF Logout, RedisWrite, SessionsStayWithTheirUser
<1> QED
  BY <1>1, <1>2, <1>3, <1>4, <1>5, <1>6, <1>7, <1>8, <1>9

LEMMA RefreshLoadKeeps ==
  ASSUME Inv, NEW r \in Requests, RefreshLoad(r)
  PROVE  Inv'
<1> USE SessionsAssumption DEF Inv, TypeOK, RequestState
<1>1. TypeOK'
  BY DEF RefreshLoad, Goto, Reply
<1>2. ActsForItsClient'
  BY DEF RefreshLoad, Goto, Reply, HasPair, ActsForItsClient
<1>3. PresentsOwnToken'
  BY DEF RefreshLoad, Goto, Reply, PresentsOwnToken, MintedIsIssued
<1>4. MintedIsIssued'
  BY DEF RefreshLoad, Goto, Reply, HasPair, MintedIsIssued
<1>5. MintedIsUnknown'
  BY DEF RefreshLoad, Goto, Reply, MintedIsUnknown, MintedIsUnshared
<1>6. MintedIsUnshared'
  BY DEF RefreshLoad, Goto, Reply, HasPair, MintedIsUnshared
<1>7. PairOpensOwnSession'
  BY DEF RefreshLoad, Goto, Reply, HasPair, PairOpensOwnSession
<1>8. OnlyIssuedTokens'
  BY DEF RefreshLoad, OnlyIssuedTokens
<1>9. SessionsStayWithTheirUser'
  BY DEF RefreshLoad, SessionsStayWithTheirUser
<1> QED
  BY <1>1, <1>2, <1>3, <1>4, <1>5, <1>6, <1>7, <1>8, <1>9

\* The record of a request after its DEL (Deleted).
LEMMA DeletedRecord ==
  ASSUME NEW q \in RequestState, NEW t \in Tokens \cup {NoToken}
  PROVE  [q EXCEPT !.pc = "mint", !.revoked = t] \in RequestState
<1>1. [q EXCEPT !.pc = "mint"] \in RequestState
  BY DEF RequestState
<1>2. \A p \in RequestState : [p EXCEPT !.revoked = t] \in RequestState
  BY DEF RequestState
<1>3. [q EXCEPT !.pc = "mint", !.revoked = t]
        = [[q EXCEPT !.pc = "mint"] EXCEPT !.revoked = t]
  OBVIOUS
<1> QED
  BY <1>1, <1>2, <1>3

LEMMA RefreshDeleteKeeps ==
  ASSUME Inv, NEW r \in Requests, RefreshDelete(r)
  PROVE  Inv'
<1> USE SessionsAssumption DEF Inv, TypeOK
<1>1. TypeOK'
  <2>1. store' \in [Tokens -> Users \cup {NoUser}]
    BY DEF RefreshDelete, RedisWrite
  <2>2. PICK t \in Tokens \cup {NoToken} :
          req' = [req EXCEPT ![r].pc = "mint", ![r].revoked = t]
    BY DEF RefreshDelete, Deleted, RevokedIf, RequestState
  <2>3. PICK q \in RequestState : req' = [req EXCEPT ![r] = q]
    BY <2>2, DeletedRecord
  <2> QED
    BY <2>1, <2>3 DEF RefreshDelete
<1> USE DEF RequestState
<1>2. ActsForItsClient'
  BY DEF RefreshDelete, Deleted, HasPair, ActsForItsClient
<1>3. PresentsOwnToken'
  BY DEF RefreshDelete, Deleted, PresentsOwnToken
<1>4. MintedIsIssued'
  BY DEF RefreshDelete, Deleted, HasPair, MintedIsIssued
<1>5. MintedIsUnknown'
  BY DEF RefreshDelete, RedisWrite, Deleted, MintedIsIssued, MintedIsUnknown
<1>6. MintedIsUnshared'
  BY DEF RefreshDelete, Deleted, HasPair, MintedIsUnshared
<1>7. PairOpensOwnSession'
  BY DEF RefreshDelete, RedisWrite, Deleted, HasPair, MintedIsIssued, PairOpensOwnSession
<1>8. OnlyIssuedTokens'
  BY DEF RefreshDelete, RedisWrite, OnlyIssuedTokens
<1>9. SessionsStayWithTheirUser'
  BY DEF RefreshDelete, RedisWrite, SessionsStayWithTheirUser
<1> QED
  BY <1>1, <1>2, <1>3, <1>4, <1>5, <1>6, <1>7, <1>8, <1>9

LEMMA MintKeeps ==
  ASSUME Inv, NEW r \in Requests, Mint(r)
  PROVE  Inv'
<1> USE SessionsAssumption DEF Inv, TypeOK, RequestState
<1>1. TypeOK'
  BY DEF Mint, Fresh, Reply
<1>2. ActsForItsClient'
  BY DEF Mint, Reply, HasPair, ActsForItsClient
<1>3. PresentsOwnToken'
  BY DEF Mint, Reply, PresentsOwnToken
<1>4. MintedIsIssued'
  BY DEF Mint, Reply, HasPair, MintedIsIssued
<1>5. MintedIsUnknown'
  BY DEF Mint, Fresh, Reply, MintedIsUnknown, OnlyIssuedTokens
<1>6. MintedIsUnshared'
  BY DEF Mint, Fresh, Reply, HasPair, MintedIsIssued, MintedIsUnshared
<1>7. PairOpensOwnSession'
  BY DEF Mint, Reply, HasPair, MintedIsUnshared, PairOpensOwnSession
<1>8. OnlyIssuedTokens'
  BY DEF Mint, OnlyIssuedTokens
<1>9. SessionsStayWithTheirUser'
  BY DEF Mint, SessionsStayWithTheirUser
<1> QED
  BY <1>1, <1>2, <1>3, <1>4, <1>5, <1>6, <1>7, <1>8, <1>9

LEMMA StoreTokenKeeps ==
  ASSUME Inv, NEW r \in Requests, StoreToken(r)
  PROVE  Inv'
<1> USE SessionsAssumption DEF Inv, TypeOK, RequestState
<1>0. PICK code \in {200, 500} : req[r].pc = "store" /\ Reply(r, code)
  BY DEF StoreToken
<1>1. TypeOK'
  <2>1. store' \in [Tokens -> Users \cup {NoUser}]
    BY DEF StoreToken, RedisWrite
  <2> QED
    BY <1>0, <2>1 DEF StoreToken, Reply
<1>2. ActsForItsClient'
  BY DEF StoreToken, RedisWrite, Reply, HasPair, ActsForItsClient, MintedIsIssued
<1>3. PresentsOwnToken'
  BY <1>0 DEF StoreToken, Reply, PresentsOwnToken
<1>4. MintedIsIssued'
  BY <1>0 DEF StoreToken, Reply, HasPair, MintedIsIssued
<1>5. MintedIsUnknown'
  BY DEF StoreToken, RedisWrite, Reply, MintedIsIssued, MintedIsUnknown,
         MintedIsUnshared
<1>6. MintedIsUnshared'
  BY DEF StoreToken, RedisWrite, Reply, HasPair, MintedIsUnshared
<1>7. PairOpensOwnSession'
  BY DEF StoreToken, RedisWrite, Reply, HasPair, MintedIsIssued, MintedIsUnshared,
         PairOpensOwnSession
<1>8. OnlyIssuedTokens'
  BY DEF StoreToken, RedisWrite, MintedIsIssued, OnlyIssuedTokens
<1>9. SessionsStayWithTheirUser'
  BY DEF StoreToken, RedisWrite, MintedIsUnknown, SessionsStayWithTheirUser
<1> QED
  BY <1>1, <1>2, <1>3, <1>4, <1>5, <1>6, <1>7, <1>8, <1>9

LEMMA DeliverKeeps ==
  ASSUME Inv, NEW r \in Requests, Deliver(r)
  PROVE  Inv'
<1> USE SessionsAssumption DEF Inv, TypeOK, RequestState
<1>1. TypeOK'
  BY DEF Deliver, Pair, Idle, HasPair, MintedIsIssued, ActsForItsClient
<1>2. ActsForItsClient'
  BY DEF Deliver, Idle, HasPair, ActsForItsClient
<1>3. PresentsOwnToken'
  BY DEF Deliver, Idle, PresentsOwnToken
<1>4. MintedIsIssued'
  BY DEF Deliver, Idle, HasPair, MintedIsIssued
<1>5. MintedIsUnknown'
  BY DEF Deliver, Pair, Idle, HasPair, MintedIsUnknown, MintedIsUnshared
<1>6. MintedIsUnshared'
  BY DEF Deliver, Idle, HasPair, MintedIsUnshared
<1>7. PairOpensOwnSession'
  BY DEF Deliver, Idle, HasPair, PairOpensOwnSession
<1>8. OnlyIssuedTokens'
  BY DEF Deliver, Pair, HasPair, MintedIsIssued, OnlyIssuedTokens
<1>9. SessionsStayWithTheirUser'
  BY DEF Deliver, Pair, HasPair, ActsForItsClient, PairOpensOwnSession,
         SessionsStayWithTheirUser
<1> QED
  BY <1>1, <1>2, <1>3, <1>4, <1>5, <1>6, <1>7, <1>8, <1>9

LEMMA LoseReplyKeeps ==
  ASSUME Inv, NEW r \in Requests, LoseReply(r)
  PROVE  Inv'
<1> USE SessionsAssumption DEF Inv, TypeOK, RequestState
<1>1. TypeOK'
  BY DEF LoseReply, Idle
<1>2. ActsForItsClient'
  BY DEF LoseReply, Idle, HasPair, ActsForItsClient
<1>3. PresentsOwnToken'
  BY DEF LoseReply, Idle, PresentsOwnToken
<1>4. MintedIsIssued'
  BY DEF LoseReply, Idle, HasPair, MintedIsIssued
<1>5. MintedIsUnknown'
  BY DEF LoseReply, Idle, MintedIsUnknown
<1>6. MintedIsUnshared'
  BY DEF LoseReply, Idle, HasPair, MintedIsUnshared
<1>7. PairOpensOwnSession'
  BY DEF LoseReply, Idle, HasPair, PairOpensOwnSession
<1>8. OnlyIssuedTokens'
  BY DEF LoseReply, OnlyIssuedTokens
<1>9. SessionsStayWithTheirUser'
  BY DEF LoseReply, SessionsStayWithTheirUser
<1> QED
  BY <1>1, <1>2, <1>3, <1>4, <1>5, <1>6, <1>7, <1>8, <1>9

LEMMA ExpireKeeps ==
  ASSUME Inv, NEW t \in Tokens, Expire(t)
  PROVE  Inv'
<1> USE SessionsAssumption DEF Inv, TypeOK, RequestState
<1>1. TypeOK'
  BY DEF Expire
<1>2. ActsForItsClient'
  BY DEF Expire, HasPair, ActsForItsClient
<1>3. PresentsOwnToken'
  BY DEF Expire, PresentsOwnToken
<1>4. MintedIsIssued'
  BY DEF Expire, HasPair, MintedIsIssued
<1>5. MintedIsUnknown'
  BY DEF Expire, MintedIsUnknown
<1>6. MintedIsUnshared'
  BY DEF Expire, HasPair, MintedIsUnshared
<1>7. PairOpensOwnSession'
  BY DEF Expire, HasPair, PairOpensOwnSession
<1>8. OnlyIssuedTokens'
  BY DEF Expire, OnlyIssuedTokens
<1>9. SessionsStayWithTheirUser'
  BY DEF Expire, SessionsStayWithTheirUser
<1> QED
  BY <1>1, <1>2, <1>3, <1>4, <1>5, <1>6, <1>7, <1>8, <1>9

LEMMA CrashKeeps ==
  ASSUME Inv, Crash
  PROVE  Inv'
<1> USE SessionsAssumption DEF Inv, TypeOK, RequestState
<1>1. TypeOK'
  BY DEF Crash, Idle
<1>2. ActsForItsClient'
  BY DEF Crash, Idle, HasPair, ActsForItsClient
<1>3. PresentsOwnToken'
  BY DEF Crash, Idle, PresentsOwnToken
<1>4. MintedIsIssued'
  BY DEF Crash, Idle, HasPair, MintedIsIssued
<1>5. MintedIsUnknown'
  BY DEF Crash, Idle, MintedIsUnknown
<1>6. MintedIsUnshared'
  BY DEF Crash, Idle, MintedIsUnshared
<1>7. PairOpensOwnSession'
  BY DEF Crash, Idle, HasPair, PairOpensOwnSession
<1>8. OnlyIssuedTokens'
  BY DEF Crash, OnlyIssuedTokens
<1>9. SessionsStayWithTheirUser'
  BY DEF Crash, SessionsStayWithTheirUser
<1> QED
  BY <1>1, <1>2, <1>3, <1>4, <1>5, <1>6, <1>7, <1>8, <1>9


LEMMA InitInv == Init => Inv
BY DEF Init, Inv, TypeOK, Idle, RequestState, HasPair, ActsForItsClient,
       PresentsOwnToken, MintedIsIssued, MintedIsUnknown, MintedIsUnshared,
       PairOpensOwnSession, OnlyIssuedTokens, SessionsStayWithTheirUser

\* Every action of Sessions preserves the inductive invariant.
LEMMA NextInv == Inv /\ [Next]_vars => Inv'
<1> SUFFICES ASSUME Inv, [Next]_vars PROVE Inv'
  OBVIOUS
<1>1. CASE UNCHANGED vars
  BY <1>1
  DEF vars, Inv, TypeOK, HasPair, ActsForItsClient, PresentsOwnToken, MintedIsIssued,
      MintedIsUnknown, MintedIsUnshared, PairOpensOwnSession, OnlyIssuedTokens,
      SessionsStayWithTheirUser
<1>2. CASE Next
  BY <1>2, LoginKeeps, RefreshGetKeeps, LogoutKeeps, RefreshLoadKeeps,
     RefreshDeleteKeeps, MintKeeps, StoreTokenKeeps, DeliverKeeps, LoseReplyKeeps,
     ExpireKeeps, CrashKeeps DEF Next, Submit, Handle
<1> QED
  BY <1>1, <1>2

LEMMA Invariance == Spec => []Inv
BY InitInv, NextInv, PTL DEF Spec

\* Every reachable state is well typed.
THEOREM TypeCorrect == Spec => []TypeOK
BY Invariance, PTL DEF Inv

\* No interleaving of logins, refreshes and logouts, and no failure of Redis
\* or of the server between their steps, gives a client a session of another
\* user.
THEOREM SessionOwnership == Spec => []SessionsStayWithTheirUser
BY Invariance, PTL DEF Inv

-----------------------------------------------------------------------------
(* Sessions implements OneLife: Phase(t) and store are the refinement      *)
(* mapping.                                                                *)

\* A step that neither writes a token nor starts or ends the storing of one
\* changes nothing in the abstract state.
LEMMA SameLife ==
  ASSUME store' = store,
         \A t \in Tokens : Fresh(t)' \/ Pending(t)' <=> Fresh(t) \/ Pending(t)
  PROVE  UNCHANGED Life!vars
<1>1. \A t \in Tokens : Phase(t)' = Phase(t)
  BY DEF Phase
<1> QED
  BY <1>1 DEF Life!vars

\* A write of NoUser over a token that is not being stored retires the token,
\* or finds it dead.
LEMMA Removal ==
  ASSUME Inv, NEW t \in Tokens, t \in issued, ~Pending(t),
         store' = [store EXCEPT ![t] = NoUser] \/ store' = store,
         issued' = issued,
         \A x \in Tokens : Pending(x)' <=> Pending(x)
  PROVE  [Life!Next]_Life!vars
<1> USE DEF Inv, TypeOK
<1>1. \A x \in Tokens : Fresh(x)' <=> Fresh(x)
  BY DEF Fresh
<1>2. CASE store' = store
  BY <1>1, <1>2, SameLife
<1>3. CASE store[t] = NoUser
  <2>1. store' = store
    BY <1>3
  <2> QED
    BY <1>1, <2>1, SameLife
<1>4. CASE store' # store /\ store[t] # NoUser
  <2>1. Life!Retire({t})
    BY <1>1, <1>4 DEF Life!Retire, Phase, Fresh
  <2> QED
    BY <2>1 DEF Life!Next
<1> QED
  BY <1>2, <1>3, <1>4

\* What a reply, and the drawing of a token, do to the requests.
LEMMA ReplyEffect ==
  ASSUME TypeOK, NEW r \in Requests, NEW code, Reply(r, code)
  PROVE  /\ req'[r].pc = "reply"
         /\ \A q \in Requests \ {r} : req'[q] = req[q]
BY DEF TypeOK, RequestState, Reply

LEMMA DrawEffect ==
  ASSUME TypeOK, NEW r \in Requests, NEW n \in Tokens,
         req' = [req EXCEPT ![r].pc = "store", ![r].minted = n]
  PROVE  /\ req'[r].pc = "store" /\ req'[r].minted = n
         /\ \A q \in Requests \ {r} : req'[q] = req[q]
BY DEF TypeOK, RequestState

LEMMA LifeStep == Inv /\ [Next]_vars => [Life!Next]_Life!vars
<1> SUFFICES ASSUME Inv, [Next]_vars PROVE [Life!Next]_Life!vars
  OBVIOUS
<1> USE SessionsAssumption DEF Inv, TypeOK, RequestState
<1>1. ASSUME NEW r \in Requests, NEW c \in Users, NEW email \in Users \cup {NoUser},
             NEW ok \in BOOLEAN, Login(r, c, email, ok)
      PROVE [Life!Next]_Life!vars
  <2>1. \A t \in Tokens : Fresh(t)' \/ Pending(t)' <=> Fresh(t) \/ Pending(t)
    BY <1>1 DEF Login, Begin, Fresh, Pending
  <2> QED
    BY <1>1, <2>1, SameLife DEF Login
<1>2. ASSUME NEW r \in Requests, NEW c \in Users, NEW t \in Tokens, RefreshGet(r, c, t)
      PROVE [Life!Next]_Life!vars
  <2>1. \A x \in Tokens : Fresh(x)' \/ Pending(x)' <=> Fresh(x) \/ Pending(x)
    BY <1>2 DEF RefreshGet, Begin, Fresh, Pending
  <2> QED
    BY <1>2, <2>1, SameLife DEF RefreshGet
<1>3. ASSUME NEW r \in Requests, NEW c \in Users, NEW t \in Tokens, Logout(r, c, t)
      PROVE [Life!Next]_Life!vars
  <2>1. t \in issued /\ ~Pending(t)
    BY <1>3 DEF Logout, OnlyIssuedTokens, MintedIsUnknown, Pending
  <2>2. \A x \in Tokens : Pending(x)' <=> Pending(x)
    BY <1>3 DEF Logout, Answer204, Pending
  <2>3. store' = [store EXCEPT ![t] = NoUser] \/ store' = store
    BY <1>3 DEF Logout, RedisWrite
  <2>4. issued' = issued
    BY <1>3 DEF Logout
  <2> QED
    BY <2>1, <2>2, <2>3, <2>4, Removal
<1>4. ASSUME NEW r \in Requests, RefreshLoad(r)
      PROVE [Life!Next]_Life!vars
  <2>1. \A t \in Tokens : Fresh(t)' \/ Pending(t)' <=> Fresh(t) \/ Pending(t)
    BY <1>4 DEF RefreshLoad, Goto, Reply, Fresh, Pending
  <2> QED
    BY <1>4, <2>1, SameLife DEF RefreshLoad
<1>5. ASSUME NEW r \in Requests, RefreshDelete(r)
      PROVE [Life!Next]_Life!vars
  <2>1. req[r].given \in issued /\ ~Pending(req[r].given)
    BY <1>5
    DEF RefreshDelete, PresentsOwnToken, OnlyIssuedTokens, MintedIsUnknown, Pending
  <2>2. \A x \in Tokens : Pending(x)' <=> Pending(x)
    BY <1>5 DEF RefreshDelete, Deleted, Pending
  <2>3. store' = [store EXCEPT ![req[r].given] = NoUser] \/ store' = store
    BY <1>5 DEF RefreshDelete, RedisWrite
  <2>4. issued' = issued
    BY <1>5 DEF RefreshDelete
  <2> QED
    BY <2>1, <2>2, <2>3, <2>4, Removal
<1>6. ASSUME NEW r \in Requests, Mint(r)
      PROVE [Life!Next]_Life!vars
  <2>1. CASE Reply(r, 500) /\ UNCHANGED issued
    <3>1. \A t \in Tokens : Fresh(t)' \/ Pending(t)' <=> Fresh(t) \/ Pending(t)
      BY <1>6, <2>1 DEF Mint, Reply, Fresh, Pending
    <3> QED
      BY <1>6, <3>1, SameLife DEF Mint
  <2>2. ASSUME NEW n \in Tokens, Fresh(n), issued' = issued \cup {n},
               req' = [req EXCEPT ![r].pc = "store", ![r].minted = n]
        PROVE [Life!Next]_Life!vars
    <3>1. req[r].pc # "store"
      BY <1>6 DEF Mint
    <3>2. /\ req'[r].pc = "store" /\ req'[r].minted = n
          /\ \A q \in Requests \ {r} : req'[q] = req[q]
      BY <2>2, DrawEffect
    <3>3. \A t \in Tokens : Pending(t)' <=> Pending(t) \/ t = n
      BY <3>1, <3>2 DEF Pending
    <3>4. \A t \in Tokens : Fresh(t)' <=> Fresh(t) /\ t # n
      BY <2>2 DEF Fresh
    <3>5. \A t \in Tokens : Fresh(t)' \/ Pending(t)' <=> Fresh(t) \/ Pending(t)
      BY <2>2, <3>3, <3>4
    <3> QED
      BY <1>6, <3>5, SameLife DEF Mint
  <2> QED
    BY <1>6, <2>1, <2>2 DEF Mint
<1>7. ASSUME NEW r \in Requests, StoreToken(r)
      PROVE [Life!Next]_Life!vars
  <2> PICK t \in Tokens : t = req[r].minted
    BY <1>7 DEF StoreToken, MintedIsIssued
  <2>1. t \in issued /\ store[t] = NoUser /\ Pending(t)
    BY <1>7 DEF StoreToken, MintedIsIssued, MintedIsUnknown, Pending
  <2>2. ~Pending(t)' /\ \A x \in Tokens \ {t} : Pending(x)' <=> Pending(x)
    <3>1. req[r].pc = "store" /\ (Reply(r, 200) \/ Reply(r, 500))
      BY <1>7 DEF StoreToken
    <3>2. req'[r].pc = "reply" /\ \A q \in Requests \ {r} : req'[q] = req[q]
      BY <3>1, ReplyEffect
    <3>3. \A q \in Requests \ {r} : ~(req[q].pc = "store" /\ req[q].minted = t)
      BY <3>1 DEF MintedIsUnshared
    <3> QED
      BY <3>1, <3>2, <3>3 DEF Pending
  <2>3. req[r].user \in Users
    BY <1>7 DEF StoreToken, ActsForItsClient
  <2>4. \A x \in Tokens : Fresh(x)' <=> Fresh(x)
    BY <1>7 DEF StoreToken, Fresh
  <2>5. CASE store' = [store EXCEPT ![t] = req[r].user]
    <3>1. Life!Grant(t, req[r].user)
      BY <2>1, <2>2, <2>3, <2>4, <2>5 DEF Life!Grant, Phase
    <3> QED
      BY <2>1, <2>3, <3>1 DEF Life!Next
  <2>6. CASE store' = store
    <3>1. Life!Retire({t})
      BY <2>1, <2>2, <2>4, <2>6 DEF Life!Retire, Phase, Fresh
    <3> QED
      BY <2>1, <3>1 DEF Life!Next
  <2> QED
    BY <1>7, <2>5, <2>6 DEF StoreToken, RedisWrite
<1>8. ASSUME NEW r \in Requests, Deliver(r)
      PROVE [Life!Next]_Life!vars
  <2>1. \A t \in Tokens : Fresh(t)' \/ Pending(t)' <=> Fresh(t) \/ Pending(t)
    BY <1>8 DEF Deliver, Idle, Fresh, Pending
  <2> QED
    BY <1>8, <2>1, SameLife DEF Deliver
<1>9. ASSUME NEW r \in Requests, LoseReply(r)
      PROVE [Life!Next]_Life!vars
  <2>1. \A t \in Tokens : Fresh(t)' \/ Pending(t)' <=> Fresh(t) \/ Pending(t)
    BY <1>9 DEF LoseReply, Idle, Fresh, Pending
  <2> QED
    BY <1>9, <2>1, SameLife DEF LoseReply
<1>10. ASSUME NEW t \in Tokens, Expire(t)
       PROVE [Life!Next]_Life!vars
  <2>1. t \in issued /\ ~Pending(t)
    BY <1>10 DEF Expire, OnlyIssuedTokens, MintedIsUnknown, Pending
  <2>2. \A x \in Tokens : Pending(x)' <=> Pending(x)
    BY <1>10 DEF Expire, Pending
  <2> QED
    BY <1>10, <2>1, <2>2, Removal DEF Expire
<1>11. CASE Crash
  <2> DEFINE S == {t \in Tokens : Pending(t)}
  <2>1. \A t \in Tokens : ~Pending(t)'
    BY <1>11 DEF Crash, Idle, Pending
  <2>2. \A t \in S : t \in issued /\ store[t] = NoUser
    BY DEF Pending, MintedIsIssued, MintedIsUnknown
  <2>3. Life!Retire(S)
    BY <1>11, <2>1, <2>2 DEF Crash, Life!Retire, Phase, Fresh
  <2> QED
    BY <2>3 DEF Life!Next
<1>12. CASE UNCHANGED vars
  BY <1>12, SameLife DEF vars, Fresh, Pending
<1> QED
  BY <1>1, <1>2, <1>3, <1>4, <1>5, <1>6, <1>7, <1>8, <1>9, <1>10, <1>11, <1>12
  DEF Next, Submit, Handle

\* The token service keeps the promise of OneLife: whatever interleaves or
\* fails, a token is granted once, to one user, and does not come back.
THEOREM OneLifeRefinement == Spec => TokenHasOneLife
<1>1. Init => Life!Init
  BY SessionsAssumption DEF Init, Life!Init, Phase, Fresh
<1> QED
  BY <1>1, LifeStep, Invariance, PTL DEF Spec, TokenHasOneLife, Life!Spec

-----------------------------------------------------------------------------
(* Revocation.                                                             *)

LEMMA HolderStep == Inv /\ [Next]_vars => [HolderRevokes]_vars
<1> SUFFICES ASSUME Inv, Next PROVE HolderRevokes
  BY DEF HolderRevokes, vars
<1> USE SessionsAssumption DEF Inv, TypeOK, RequestState
<1>1. ASSUME NEW r \in Requests, NEW c \in Users, NEW email \in Users \cup {NoUser},
             NEW ok \in BOOLEAN, Login(r, c, email, ok)
      PROVE HolderRevokes
  BY <1>1 DEF Login, HolderRevokes
<1>2. ASSUME NEW r \in Requests, NEW c \in Users, NEW t \in Tokens, RefreshGet(r, c, t)
      PROVE HolderRevokes
  BY <1>2 DEF RefreshGet, HolderRevokes
<1>3. ASSUME NEW r \in Requests, NEW c \in Users, NEW t \in Tokens, Logout(r, c, t)
      PROVE HolderRevokes
  BY <1>3 DEF Logout, RedisWrite, Answer204, HolderRevokes, SessionsStayWithTheirUser
<1>4. ASSUME NEW r \in Requests, RefreshLoad(r)
      PROVE HolderRevokes
  BY <1>4 DEF RefreshLoad, HolderRevokes
<1>5. ASSUME NEW r \in Requests, RefreshDelete(r)
      PROVE HolderRevokes
  <2>1. /\ req[r].pc = "delete"
        /\ store' = [store EXCEPT ![req[r].given] = NoUser] \/ store' = store
    BY <1>5 DEF RefreshDelete, RedisWrite
  <2>2. /\ req'[r].pc = "mint" /\ req'[r].given = req[r].given
        /\ req'[r].client = req[r].client
    BY <1>5 DEF RefreshDelete, Deleted
  <2>3. store[req[r].given] \in {req[r].client, NoUser}
    BY <2>1 DEF PresentsOwnToken, SessionsStayWithTheirUser
  <2> QED
    BY <2>1, <2>2, <2>3 DEF HolderRevokes
<1>6. ASSUME NEW r \in Requests, Mint(r)
      PROVE HolderRevokes
  BY <1>6 DEF Mint, HolderRevokes
<1>7. ASSUME NEW r \in Requests, StoreToken(r)
      PROVE HolderRevokes
  BY <1>7 DEF StoreToken, RedisWrite, HolderRevokes, ActsForItsClient
<1>8. ASSUME NEW r \in Requests, Deliver(r)
      PROVE HolderRevokes
  BY <1>8 DEF Deliver, HolderRevokes
<1>9. ASSUME NEW r \in Requests, LoseReply(r)
      PROVE HolderRevokes
  BY <1>9 DEF LoseReply, HolderRevokes
<1>10. ASSUME NEW t \in Tokens, Expire(t)
      PROVE HolderRevokes
  BY <1>10 DEF Expire, HolderRevokes
<1>11. CASE Crash
  BY <1>11 DEF Crash, HolderRevokes
<1> QED
  BY <1>1, <1>2, <1>3, <1>4, <1>5, <1>6, <1>7, <1>8, <1>9, <1>10, <1>11
  DEF Next, Submit, Handle

\* A step of a request removes a live token only when the token's own holder
\* sent that request and presented that token.
THEOREM HolderOnlyRevokes == Spec => RevokedByItsHolder
BY Invariance, HolderStep, PTL DEF Spec, RevokedByItsHolder

\* A token whose DEL reported success stays dead as long as the request that
\* sent the DEL is in flight: a client holds it, and what newTokenPair stores
\* is held by none.
RevokedDead(r) ==
  req[r].revoked # NoToken =>
    /\ req[r].client \in Users /\ req[r].revoked \in wallet[req[r].client]
    /\ store[req[r].revoked] = NoUser

RevokedIsDead == \A r \in Requests : RevokedDead(r)

LEMMA RevokedStep ==
  ASSUME Inv, RevokedIsDead, [Next]_vars
  PROVE  RevokedIsDead'
<1> USE SessionsAssumption DEF Inv, TypeOK, RequestState
<1>1. ASSUME NEW r \in Requests, NEW c \in Users, NEW email \in Users \cup {NoUser},
             NEW ok \in BOOLEAN, Login(r, c, email, ok)
      PROVE RevokedIsDead'
  BY <1>1 DEF Login, Begin, RevokedIsDead, RevokedDead
<1>2. ASSUME NEW r \in Requests, NEW c \in Users, NEW t \in Tokens, RefreshGet(r, c, t)
      PROVE RevokedIsDead'
  BY <1>2 DEF RefreshGet, Begin, RevokedIsDead, RevokedDead
<1>3. ASSUME NEW r \in Requests, NEW c \in Users, NEW t \in Tokens, Logout(r, c, t)
      PROVE RevokedIsDead'
  BY <1>3
  DEF Logout, RedisWrite, Answer204, RevokedIf, RevokedIsDead, RevokedDead, PresentsOwnToken
<1>4. ASSUME NEW r \in Requests, RefreshLoad(r)
      PROVE RevokedIsDead'
  BY <1>4 DEF RefreshLoad, Goto, Reply, RevokedIsDead, RevokedDead
<1>5. ASSUME NEW r \in Requests, RefreshDelete(r)
      PROVE RevokedIsDead'
  BY <1>5
  DEF RefreshDelete, RedisWrite, Deleted, RevokedIf, RevokedIsDead, RevokedDead, PresentsOwnToken
<1>6. ASSUME NEW r \in Requests, Mint(r)
      PROVE RevokedIsDead'
  BY <1>6 DEF Mint, Reply, RevokedIsDead, RevokedDead
<1>7. ASSUME NEW r \in Requests, StoreToken(r)
      PROVE RevokedIsDead'
  <2>1. /\ req[r].pc = "store"
        /\ Reply(r, 200) \/ Reply(r, 500)
        /\ store' = [store EXCEPT ![req[r].minted] = req[r].user] \/ store' = store
    BY <1>7 DEF StoreToken, RedisWrite
  <2>2. \A q \in Requests : req'[q].revoked = req[q].revoked /\ req'[q].client = req[q].client
    BY <2>1 DEF Reply
  <2>3. wallet' = wallet
    BY <1>7 DEF StoreToken
  <2>4. ASSUME NEW q \in Requests, req[q].revoked # NoToken
        PROVE  store'[req[q].revoked] = NoUser
    BY <2>1, <2>4 DEF RevokedIsDead, RevokedDead, MintedIsUnknown
  <2> QED
    BY <2>2, <2>3, <2>4 DEF RevokedIsDead, RevokedDead
<1>8. ASSUME NEW r \in Requests, Deliver(r)
      PROVE RevokedIsDead'
  BY <1>8 DEF Deliver, Idle, RevokedIsDead, RevokedDead
<1>9. ASSUME NEW r \in Requests, LoseReply(r)
      PROVE RevokedIsDead'
  BY <1>9 DEF LoseReply, Idle, RevokedIsDead, RevokedDead
<1>10. ASSUME NEW t \in Tokens, Expire(t)
      PROVE RevokedIsDead'
  BY <1>10 DEF Expire, RevokedIsDead, RevokedDead
<1>11. CASE Crash
  BY <1>11 DEF Crash, Idle, RevokedIsDead, RevokedDead
<1>12. CASE UNCHANGED vars
  BY <1>12 DEF vars, RevokedIsDead, RevokedDead
<1> QED
  BY <1>1, <1>2, <1>3, <1>4, <1>5, <1>6, <1>7, <1>8, <1>9, <1>10, <1>11, <1>12
  DEF Next, Submit, Handle

\* A token deleted by a refresh or a logout is dead when the answer is sent,
\* whatever the requests in flight with it had read before.
THEOREM RevocationIsFinal == Spec => []DeletedStaysRevoked
<1>1. Init => RevokedIsDead
  BY DEF Init, Idle, RevokedIsDead, RevokedDead
<1>2. Inv /\ RevokedIsDead /\ [Next]_vars => RevokedIsDead'
  BY RevokedStep
<1>3. RevokedIsDead => DeletedStaysRevoked
  BY DEF RevokedIsDead, RevokedDead, DeletedStaysRevoked
<1> QED
  BY <1>1, <1>2, <1>3, Invariance, PTL DEF Spec

=============================================================================
