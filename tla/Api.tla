-------------------------------- MODULE Api --------------------------------
(***************************************************************************)
(* What stands between a request and its handler: the routes and groups of *)
(* NewRouter (internal/handler/router.go), JWTAuth and RequireRole         *)
(* (internal/middleware/auth.go) and the token check of pkg/jwt.  The      *)
(* middlewares keep no state: a request is decided by its route and its    *)
(* Authorization header alone.  The rate limiter in front of them is       *)
(* RateLimit.                                                              *)
(***************************************************************************)
EXTENDS Naturals

CONSTANT Users

Roles == {"admin", "developer"}

-----------------------------------------------------------------------------
(* Routes, by the group that registers them.                               *)

Public ==
  {<<"GET", "/health">>, <<"GET", "/swagger">>} \cup
  {"POST"} \X {"/auth/register", "/auth/login", "/auth/refresh", "/auth/logout"}

SavedRoutes ==
  {<<"POST", "/saved-jobs">>, <<"DELETE", "/saved-jobs/{job_id}">>, <<"GET", "/saved-jobs">>}

Authenticated ==
  {<<"GET", "/me">>, <<"PUT", "/me">>, <<"GET", "/jobs">>, <<"GET", "/jobs/{id}">>,
   <<"GET", "/applications">>, <<"POST", "/applications">>,
   <<"PUT", "/applications/{id}">>, <<"DELETE", "/applications/{id}">>} \cup SavedRoutes

\* Mutant of AdminOnly: the deletion is registered one group further out.
AdminButDelete == {<<"POST", "/jobs">>, <<"PUT", "/jobs/{id}">>}

AdminOnly == {<<"POST", "/jobs">>, <<"PUT", "/jobs/{id}">>, <<"DELETE", "/jobs/{id}">>}

JobWrites == {"POST", "PUT", "DELETE"} \X {"/jobs", "/jobs/{id}"}

Routes == Public \cup Authenticated \cup AdminOnly \cup {<<"DELETE", "/jobs/{id}">>}

-----------------------------------------------------------------------------
(* Tokens and the middlewares.                                             *)

\* An access token as it arrives: its claims, whether the HMAC was made with
\* the server's secret, and whether its "exp" has passed.
Tokens == [user : Users, role : Roles, ours : BOOLEAN, expired : BOOLEAN]

\* bearer: does the header begin with "Bearer "?  (No header: it does not.)
Headers == [bearer : BOOLEAN, token : Tokens]

Parse(t) == t.ours /\ ~t.expired

\* What JWTAuth puts under ContextKeyUserID: claims.UserID, a string.
ContextUserID(h) == [type |-> "string", user |-> h.token.user]

\* Every other handler takes a string out of the context and parses it
\* (userIDFromCtx); the saved-job handlers assert a uuid.UUID.
AssertUUID(value) == value.type = "uuid"

\* The status that answers the request before a handler runs; 0: a handler runs.
Admit(route, h) ==
  IF route \in Public THEN 0
  ELSE IF ~h.bearer \/ ~Parse(h.token) THEN 401
  ELSE IF route \in AdminOnly /\ h.token.role # "admin" THEN 403
  ELSE 0

=============================================================================
