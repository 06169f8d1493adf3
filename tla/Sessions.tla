------------------------------ MODULE Sessions ------------------------------
(***************************************************************************)
(* Login, token refresh and logout (internal/service/auth_service.go) over *)
(* the refresh tokens kept in Redis (internal/repository/redis/            *)
(* token_store.go).  Every request is a goroutine of the HTTP server; one  *)
(* action is one call to Redis or Postgres together with the code up to    *)
(* the next call, so requests interleave exactly at the calls.             *)
(*                                                                         *)
(* A Redis command may fail without effect, or take effect and still       *)
(* report an error (reply lost, or the client's disconnect cancelled the   *)
(* request's context).                                                     *)
(***************************************************************************)
EXTENDS FiniteSets

CONSTANTS
  Users,       \* rows of the users table; a user is also the client that knows its password
  Tokens,      \* values secureToken can draw (32 random bytes: never one twice)
  Requests,    \* requests the server may handle at one time
  NoUser,      \* no user; as an e-mail, one that has no row
  NoToken

ASSUME SessionsAssumption ==
  /\ NoUser \notin Users
  /\ NoToken \notin Tokens

VARIABLES
  store,    \* store[t]: value of the Redis key "refresh:"+t, NoUser when absent
  issued,   \* tokens drawn by secureToken so far
  wallet,   \* wallet[c]: refresh tokens delivered to client c
  access,   \* access[c]: subjects of the access tokens delivered to client c
  req       \* req[r]: local state of request r

vars == <<store, issued, wallet, access, req>>

Idle == [pc |-> "idle", op |-> "none", client |-> NoUser, user |-> NoUser,
         given |-> NoToken, revoked |-> NoToken, minted |-> NoToken, code |-> 0]

RequestState ==
  [pc : {"idle", "load", "delete", "mint", "store", "reply"},
   op : {"none", "login", "refresh", "logout"},
   client : Users \cup {NoUser},      \* who sent it
   user   : Users \cup {NoUser},      \* whom the handler acts for
   given  : Tokens \cup {NoToken},    \* refresh token in the body
   revoked : Tokens \cup {NoToken},  \* history: the token a DEL reported deleted
   minted : Tokens \cup {NoToken},    \* refresh token drawn for the reply
   code   : {0, 200, 204, 401, 500}]

Init ==
  /\ store = [t \in Tokens |-> NoUser]
  /\ issued = {}
  /\ wallet = [c \in Users |-> {}]
  /\ access = [c \in Users |-> {}]
  /\ req = [r \in Requests |-> Idle]

Begin(r, op, c, u, t, pc, code) ==
  req' = [req EXCEPT ![r] = [pc |-> pc, op |-> op, client |-> c, user |-> u, given |-> t,
                             revoked |-> NoToken, minted |-> NoToken, code |-> code]]

Goto(r, pc) == req' = [req EXCEPT ![r].pc = pc]

Reply(r, code) == req' = [req EXCEPT ![r].pc = "reply", ![r].code = code]

\* A command that changes one Redis key.  The caller sees ok or an error,
\* and after an error the command may or may not have taken effect.
RedisWrite(t, value, ok) ==
  \/ store' = [store EXCEPT ![t] = value]
  \/ ~ok /\ UNCHANGED store

-----------------------------------------------------------------------------
(* Login: the account is looked up and the password compared; the users    *)
(* table has no update, so the lookup and the comparison are one step.     *)

Login(r, c, email, passwordOk) ==
  /\ req[r].pc = "idle"
  /\ passwordOk => email = c      \* a client knows its own password only
  /\ \/ email # NoUser /\ passwordOk /\ Begin(r, "login", c, email, NoToken, "mint", 0)
     \/ (email = NoUser \/ ~passwordOk) /\ Begin(r, "login", c, email, NoToken, "reply", 401)
     \/ Begin(r, "login", c, email, NoToken, "reply", 500)      \* the query failed
  /\ UNCHANGED <<store, issued, wallet, access>>

(* Refresh: GetUserIDByToken, GetByID, DeleteRefreshToken, newTokenPair.   *)

RefreshGet(r, c, t) ==
  /\ req[r].pc = "idle"
  /\ t \in wallet[c]
  /\ \/ store[t] # NoUser /\ Begin(r, "refresh", c, store[t], t, "load", 0)
     \/ store[t] = NoUser /\ Begin(r, "refresh", c, NoUser, t, "reply", 401)
     \/ Begin(r, "refresh", c, NoUser, t, "reply", 500)      \* GET failed
  /\ UNCHANGED <<store, issued, wallet, access>>

RefreshLoad(r) ==
  /\ req[r].pc = "load"
  /\ Goto(r, "delete") \/ Reply(r, 500)
  /\ UNCHANGED <<store, issued, wallet, access>>

RevokedIf(ok, t) == IF ok THEN t ELSE NoToken

Deleted(r, pc, ok) ==
  req' = [req EXCEPT ![r].pc = pc, ![r].revoked = RevokedIf(ok, req[r].given)]

\* Mutants of RefreshDelete: every session of the user is ended; a failed DEL
\* is tried again from the start.
RefreshDeletesAll(r) ==
  /\ req[r].pc = "delete"
  /\ store' = [t \in Tokens |-> IF store[t] = req[r].user THEN NoUser ELSE store[t]]
  /\ Deleted(r, "mint", TRUE)
  /\ UNCHANGED <<issued, wallet, access>>

RefreshRetries(r) ==
  /\ req[r].pc = "delete"
  /\ \/ RedisWrite(req[r].given, NoUser, TRUE) /\ Deleted(r, "mint", TRUE)
     \/ RedisWrite(req[r].given, NoUser, FALSE) /\ Deleted(r, "load", FALSE)
  /\ UNCHANGED <<issued, wallet, access>>

\* The result of DeleteRefreshToken is discarded.
RefreshDelete(r) ==
  /\ req[r].pc = "delete"
  /\ \E ok \in BOOLEAN : RedisWrite(req[r].given, NoUser, ok) /\ Deleted(r, "mint", ok)
  /\ UNCHANGED <<issued, wallet, access>>

(* newTokenPair, shared by Login and Refresh. *)

\* Mutant of Fresh: the random source repeats itself.
Repeated(t) == t \in Tokens

Fresh(t) == t \notin issued

Mint(r) ==
  /\ req[r].pc = "mint"
  /\ \/ \E t \in Tokens :
          /\ Fresh(t)
          /\ issued' = issued \cup {t}
          /\ req' = [req EXCEPT ![r].pc = "store", ![r].minted = t]
     \/ Reply(r, 500) /\ UNCHANGED issued      \* Generate or rand.Read failed
  /\ UNCHANGED <<store, wallet, access>>

\* Mutant of StoreToken: when the new token cannot be stored the old one is
\* put back.
StoreOrRestore(r) ==
  /\ req[r].pc = "store"
  /\ \/ RedisWrite(req[r].minted, req[r].user, TRUE) /\ Reply(r, 200)
     \/ RedisWrite(req[r].given, req[r].user, FALSE) /\ Reply(r, 500)
  /\ UNCHANGED <<issued, wallet, access>>

StoreToken(r) ==
  /\ req[r].pc = "store"
  /\ \/ RedisWrite(req[r].minted, req[r].user, TRUE) /\ Reply(r, 200)
     \/ RedisWrite(req[r].minted, req[r].user, FALSE) /\ Reply(r, 500)
  /\ UNCHANGED <<issued, wallet, access>>

(* Logout: one DEL; the handler answers 204 whatever it returned.          *)

Answer204(r, c, t, ok) ==
  req' = [req EXCEPT ![r] = [pc |-> "reply", op |-> "logout", client |-> c, user |-> NoUser, given |-> t,
                             revoked |-> RevokedIf(ok, t), minted |-> NoToken, code |-> 204]]

\* Mutant of Logout: nothing is deleted.
LogoutForgets(r, c, t) ==
  /\ req[r].pc = "idle"
  /\ t \in wallet[c]
  /\ Answer204(r, c, t, TRUE)
  /\ UNCHANGED <<store, issued, wallet, access>>

Logout(r, c, t) ==
  /\ req[r].pc = "idle"
  /\ t \in wallet[c]
  /\ \E ok \in BOOLEAN : RedisWrite(t, NoUser, ok) /\ Answer204(r, c, t, ok)
  /\ UNCHANGED <<issued, wallet, access>>

(* The reply reaches the client, or the connection is gone. *)

Pair(r) == req[r].code = 200

Deliver(r) ==
  /\ req[r].pc = "reply"
  /\ wallet' = IF Pair(r) THEN [wallet EXCEPT ![req[r].client] = @ \cup {req[r].minted}]
                          ELSE wallet
  /\ access' = IF Pair(r) THEN [access EXCEPT ![req[r].client] = @ \cup {req[r].user}]
                          ELSE access
  /\ req' = [req EXCEPT ![r] = Idle]
  /\ UNCHANGED <<store, issued>>

LoseReply(r) ==
  /\ req[r].pc = "reply"
  /\ req' = [req EXCEPT ![r] = Idle]
  /\ UNCHANGED <<store, issued, wallet, access>>

(* The environment: the key's TTL runs out; the server process dies with   *)
(* every request in it, while Redis keeps its keys.                        *)

Expire(t) ==
  /\ store[t] # NoUser
  /\ store' = [store EXCEPT ![t] = NoUser]
  /\ UNCHANGED <<issued, wallet, access, req>>

Crash ==
  /\ \E r \in Requests : req[r] # Idle
  /\ req' = [r \in Requests |-> Idle]
  /\ UNCHANGED <<store, issued, wallet, access>>

-----------------------------------------------------------------------------
Submit(r) ==
  \/ \E c \in Users, email \in Users \cup {NoUser}, ok \in BOOLEAN : Login(r, c, email, ok)
  \/ \E c \in Users, t \in Tokens : RefreshGet(r, c, t) \/ Logout(r, c, t)

Handle(r) ==
  \/ RefreshLoad(r) \/ RefreshDelete(r)
  \/ Mint(r) \/ StoreToken(r)
  \/ Deliver(r) \/ LoseReply(r)

Next ==
  \/ \E r \in Requests : Submit(r) \/ Handle(r)
  \/ \E t \in Tokens : Expire(t)
  \/ Crash

Spec == Init /\ [][Next]_vars

\* A handler that is running is scheduled again: every call it makes has a
\* deadline or returns an error, and none waits for another request.
FairSpec == Spec /\ \A r \in Requests : WF_vars(Handle(r))

-----------------------------------------------------------------------------
TypeOK ==
  /\ store \in [Tokens -> Users \cup {NoUser}]
  /\ issued \subseteq Tokens
  /\ wallet \in [Users -> SUBSET Tokens]
  /\ access \in [Users -> SUBSET Users]
  /\ req \in [Requests -> RequestState]

\* Whatever the interleaving and the failures, a refresh token a client
\* holds opens a session of that client or none, and the access tokens it
\* holds name no one else (Login and Refresh pass the user through
\* newTokenPair into the store and the JWT).
SessionsStayWithTheirUser ==
  \A c \in Users :
    /\ \A t \in wallet[c] : store[t] \in {c, NoUser}
    /\ access[c] \subseteq {c}

\* A token that a refresh or a logout has deleted opens no session when the
\* answer is sent, and no request still in flight, not even one that read
\* the token before, brings it back (auth_service.go:116 and 121).
DeletedStaysRevoked ==
  \A r \in Requests :
    req[r].pc = "reply" /\ req[r].revoked # NoToken => store[req[r].revoked] = NoUser

\* A session is revoked by its holder alone: when a request's step removes a
\* live token, that request presented the token and was sent by its user.
\* (Expire changes no request, and a crash removes nothing.)
HolderRevokes ==
  \A t \in Tokens :
    store[t] # NoUser /\ store'[t] = NoUser /\ req' # req
      => \E r \in Requests :
           req'[r] # req[r] /\ req'[r].given = t /\ req'[r].client = store[t]

RevokedByItsHolder == [][HolderRevokes]_vars

\* The life of each token, as the requests in flight show it: drawn but not
\* yet stored is still unused; absent from Redis afterwards is dead.
Pending(t) == \E r \in Requests : req[r].pc = "store" /\ req[r].minted = t

Phase(t) ==
  IF store[t] # NoUser THEN "live"
  ELSE IF Fresh(t) \/ Pending(t) THEN "unused" ELSE "dead"

Life == INSTANCE OneLife WITH
  Holders <- Users, Keys <- Tokens, Nobody <- NoUser,
  phase <- [t \in Tokens |-> Phase(t)],
  holder <- store

\* A token is granted once, to one user, and never comes back from the dead,
\* however logins, refreshes, logouts, expiries and crashes interleave.
TokenHasOneLife == Life!Spec

\* Every request ends: no error path of a handler leaves it waiting.
EveryRequestEnds ==
  \A r \in Requests : req[r].pc # "idle" ~> req[r].pc = "idle"

=============================================================================
