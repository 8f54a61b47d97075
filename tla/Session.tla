------------------------------- MODULE Session ------------------------------
(***************************************************************************)
(* Site users' logins and sessions: the endpoints of internal/authhttp,    *)
(* the Redis store and the gate of internal/session, the OAuth state and   *)
(* the providers of internal/auth, and the users table.                    *)
(*                                                                         *)
(* One browser shares its cookie jar between several requests.  A request  *)
(* is answered by the server and its response reaches the jar later, in    *)
(* any order, or never.  Every call to a provider, to Postgres or to Redis *)
(* may fail; one that fails may have been applied.                         *)
(***************************************************************************)
EXTENDS Integers, FiniteSets

CONSTANTS
  Providers,     \* the providers a deployment may enable
  Subjects,      \* the users a provider knows
  Requests,      \* requests of the browser under way at a time
  Sids,          \* BOUND: session ids; 32 random bytes, so never drawn twice
  None,          \* no cookie, no identity
  Anonymous,     \* AnonymousSubject, the id of every request in none-mode
  SessionTTL,    \* what SESSION_TTL says: a duration, or what is none, such as 30d
  MaxDeploy      \* BOUND: redeployments

ASSUME SessionAssumption ==
  /\ MaxDeploy \in Nat /\ Providers # {}
  /\ None \notin Sids \cup (Providers \X Subjects) /\ Anonymous \notin Sids \cup {None}

VARIABLES
  none,          \* AUTH_PROVIDERS=none
  registry,      \* auth.Registry: the enabled providers
  deploys,
  states,        \* the providers of the signed states the browser was given
  users,         \* Postgres: users
  redis,         \* sess:<id> -> value
  issued,        \* the ids drawn so far
  jar,           \* the browser's docz_session cookie
  req,           \* the requests under way
  \* history, read by no action
  owner,         \* who logged in when the id was drawn
  loggedOut,     \* ids whose logout was answered 200
  good,          \* requests whose session was usable ever since they were sent
  late           \* requests sent with an id already logged out

vars == <<none, registry, deploys, states, users, redis, issued, jar, req,
          owner, loggedOut, good, late>>
environment == <<none, registry, deploys>>

Identity == Providers \X Subjects
Value == [who : Identity, decodable : BOOLEAN, expires : BOOLEAN]
Gated == {"session", "logout"}
Idle == [pc |-> "idle", kind |-> "none", sid |-> None, who |-> None,
         status |-> 0, cookie |-> "keep"]

Req == [pc : {"idle", "upsert", "issue", "gate", "handle", "answered"},
        kind : Gated \cup {"none", "callback"}, sid : Sids \cup {None, Anonymous},
        who : Identity \cup {None, Anonymous},
        status : {0, 200, 302, 400, 401, 500, 503}, cookie : {"keep", "set", "clear"}]

Usable(store, s) == s \in DOMAIN store /\ store[s].decodable

TypeOK ==
  /\ none \in BOOLEAN
  /\ registry \in SUBSET Providers /\ (none <=> registry = {})
  /\ deploys \in 0 .. MaxDeploy
  /\ states \in SUBSET Providers
  /\ users \in SUBSET Identity
  /\ DOMAIN redis \subseteq issued /\ \A s \in DOMAIN redis : redis[s] \in Value
  /\ issued \in SUBSET Sids
  /\ jar \in issued \cup {None}
  /\ req \in [Requests -> Req]
  /\ owner \in [issued -> Identity]
  /\ loggedOut \in SUBSET issued
  /\ good \in SUBSET Requests /\ late \in SUBSET Requests

\* AUTH_PROVIDERS is "none" alone or a list of providers.
Init ==
  /\ none \in BOOLEAN
  /\ registry = IF none THEN {} ELSE Providers
  /\ deploys = 0 /\ states = {} /\ users = {}
  /\ redis = [s \in {} |-> None] /\ issued = {} /\ jar = None
  /\ req = [q \in Requests |-> Idle]
  /\ owner = [s \in {} |-> None] /\ loggedOut = {} /\ good = {} /\ late = {}

-----------------------------------------------------------------------------
(***************************************************************************)
(* The responses.                                                          *)
(***************************************************************************)
Goto(q, pc) == req' = [req EXCEPT ![q].pc = pc]

\* An answer without an identity or a cookie header.
Answer(q, status) ==
  req' = [req EXCEPT ![q] = [Idle EXCEPT !.pc = "answered", !.status = status,
                                         !.kind = req[q].kind, !.sid = req[q].sid]]

Refused(status) == [Idle EXCEPT !.pc = "answered", !.kind = "callback", !.status = status]

Write(s, v) == redis' = [x \in DOMAIN redis \cup {s} |-> IF x = s THEN v ELSE redis[x]]

Drop(ss) == redis' = [x \in DOMAIN redis \ ss |-> redis[x]]

\* A browser keeps what the last response told it.
SetCookie(q) == jar' = req[q].sid

ClearCookie == jar' = None

Deliver(q) ==
  /\ req[q].pc = "answered"
  /\ CASE req[q].cookie = "set" -> SetCookie(q)
       [] req[q].cookie = "clear" -> ClearCookie
       [] req[q].cookie = "keep" -> UNCHANGED jar
  /\ req' = [req EXCEPT ![q] = Idle]
  /\ UNCHANGED <<environment, states, users, redis, issued, owner, loggedOut>>

Lose(q) ==
  /\ req[q].pc = "answered"
  /\ req' = [req EXCEPT ![q] = Idle]
  /\ UNCHANGED <<environment, states, users, redis, issued, jar, owner, loggedOut>>

-----------------------------------------------------------------------------
(***************************************************************************)
(* Login.  /auth/login and /auth/callback are mounted unless none-mode.    *)
(***************************************************************************)
\* The signed state names its provider; one that has expired or was not signed here is
\* refused in Callback.
EncodeState(p) == states' = states \cup {p}

VerifyState == states

\* login: a provider that is not enabled is answered 400 and leaves nothing behind.
Login(p) ==
  /\ p \in registry
  /\ EncodeState(p)
  /\ UNCHANGED <<environment, users, redis, issued, jar, req, owner, loggedOut>>

\* Exchange: the provider trades the code for one of its users, or some call of it fails.
Exchange(p) == {[Idle EXCEPT !.pc = "upsert", !.kind = "callback", !.who = <<p, u>>] : u \in Subjects}
               \cup {Refused(401)}

\* callback up to the Exchange, which shares nothing with other requests: denied by the
\* provider, without code or state, with a state that is expired or not ours, or with
\* one that VerifyState accepts and whose provider may have been disabled since.
Callback(q) ==
  /\ req[q].pc = "idle" /\ ~none
  /\ \E r \in {Refused(400), Refused(401)}
               \cup UNION {IF p \in registry THEN Exchange(p) ELSE {Refused(400)} : p \in VerifyState} :
       req' = [req EXCEPT ![q] = r]
  /\ UNCHANGED <<environment, states, users, redis, issued, jar, owner, loggedOut>>

\* MUTANT: a failed upsert is logged and the login goes on.
UpsertUserBestEffort(q) ==
  /\ req[q].pc = "upsert"
  /\ users' \in {users, users \cup {req[q].who}} /\ Goto(q, "issue")
  /\ UNCHANGED <<environment, states, redis, issued, jar, owner, loggedOut>>

UpsertUser(q) ==
  /\ req[q].pc = "upsert"
  /\ \/ users' = users \cup {req[q].who} /\ Goto(q, "issue")
     \/ users' \in {users, users \cup {req[q].who}} /\ Answer(q, 500)
  /\ UNCHANGED <<environment, states, redis, issued, jar, owner, loggedOut>>

\* MUTANT: a second login keeps the id of the cookie.
NewIdReused(q, s) == s \notin issued \/ s = jar

\* The id is drawn when the session is stored.
NewId(q, s) == s \in Sids \ issued

\* viper.GetDuration makes 0 of what time.ParseDuration refuses, and nobody checks the value.
TTL == IF SessionTTL \in Int THEN SessionTTL ELSE 0

\* SET with a ttl that is not positive stores the key for good.
Stored(q) == [who |-> req[q].who, decodable |-> TRUE, expires |-> TTL > 0]

Issue(q) ==
  /\ req[q].pc = "issue"
  /\ \E s \in Sids :
       /\ NewId(q, s)
       /\ issued' = issued \cup {s}
       /\ owner' = [x \in issued' |-> IF x = s THEN req[q].who ELSE owner[x]]
       /\ \/ /\ Write(s, Stored(q))
             /\ req' = [req EXCEPT ![q].pc = "answered", ![q].status = 302,
                                   ![q].cookie = "set", ![q].sid = s]
          \/ /\ Write(s, Stored(q)) \/ UNCHANGED redis
             /\ Answer(q, 500)
  /\ UNCHANGED <<environment, states, users, jar, loggedOut>>

-----------------------------------------------------------------------------
(***************************************************************************)
(* The /api/v1 gate and the two endpoints behind it.  The gate treats the  *)
(* read API, which Serving.tla models, like GET /auth/session.             *)
(***************************************************************************)
Request(q, kind) ==
  /\ req[q].pc = "idle"
  /\ req' = [req EXCEPT ![q] = [Idle EXCEPT !.pc = "gate", !.kind = kind, !.sid = jar]]
  /\ UNCHANGED <<environment, states, users, redis, issued, jar, owner, loggedOut>>

\* authorize.Middleware behind both: it lists the repositories, or answers 500.
Authorized(q, s, who) ==
  \/ req' = [req EXCEPT ![q].pc = "handle", ![q].sid = s, ![q].who = who]
  \/ Answer(q, 500)

AnonymousMiddleware(q) == none /\ Authorized(q, Anonymous, Anonymous)

Lookup(s) == IF s \notin DOMAIN redis THEN "notFound"
             ELSE IF redis[s].decodable THEN "found" ELSE "corrupt"

\* MUTANT: whatever went wrong, the caller has to log in.
LookupStatusRefuses(result) == 401

\* The answer to a lookup that failed, or found what does not decode.
LookupStatus(result) == IF result \in {"notFound", "corrupt"} THEN 401 ELSE 503

Middleware(q) ==
  /\ ~none
  /\ \/ req[q].sid = None /\ Answer(q, 401)
     \/ /\ req[q].sid # None
        /\ \E result \in {Lookup(req[q].sid), "unreachable"} :
             \/ result = "found" /\ Authorized(q, req[q].sid, redis[req[q].sid].who)
             \/ result # "found" /\ Answer(q, LookupStatus(result))

Gate(q) ==
  /\ req[q].pc = "gate"
  /\ AnonymousMiddleware(q) \/ Middleware(q)
  /\ UNCHANGED <<environment, states, users, redis, issued, jar, owner, loggedOut>>

GetSession(q) ==
  /\ req[q].pc = "handle" /\ req[q].kind = "session"
  /\ req' = [req EXCEPT ![q].pc = "answered", ![q].status = 200]
  /\ UNCHANGED <<environment, states, users, redis, issued, jar, owner, loggedOut>>

\* MUTANT: only the cookie is cleared.
RevokeNothing(s) == UNCHANGED redis

Revoke(s) == Drop({s})

Logout(q) ==
  /\ req[q].pc = "handle" /\ req[q].kind = "logout"
  /\ \/ /\ Revoke(req[q].sid)
        /\ req' = [req EXCEPT ![q].pc = "answered", ![q].status = 200, ![q].cookie = "clear"]
        /\ loggedOut' = loggedOut \cup ({req[q].sid} \ {Anonymous})
     \/ /\ Revoke(req[q].sid) \/ UNCHANGED redis
        /\ Answer(q, 500)
        /\ UNCHANGED loggedOut
  /\ UNCHANGED <<environment, states, users, issued, jar, owner>>

-----------------------------------------------------------------------------
(***************************************************************************)
(* Time, deployments and the browser.                                      *)
(***************************************************************************)
Expire(s) ==
  /\ s \in DOMAIN redis /\ redis[s].expires
  /\ Drop({s})
  /\ UNCHANGED <<environment, states, users, issued, jar, req, owner, loggedOut>>

\* MUTANT: an empty list of providers is accepted.
RedeployUnvalidated ==
  /\ ~none /\ deploys < MaxDeploy
  /\ deploys' = deploys + 1
  /\ registry' \in SUBSET Providers
  /\ UNCHANGED <<none, states, users, redis, issued, jar, req, owner, loggedOut>>

\* A new version may enable other providers and may not decode the sessions that are
\* stored; requests under way are drained.
Redeploy ==
  /\ ~none /\ deploys < MaxDeploy
  /\ deploys' = deploys + 1
  /\ registry' \in (SUBSET Providers) \ {{}}
  /\ redis' \in {redis, [s \in DOMAIN redis |-> [redis[s] EXCEPT !.decodable = FALSE]]}
  /\ UNCHANGED <<none, states, users, issued, jar, req, owner, loggedOut>>

ForgetCookie ==
  /\ jar # None /\ ClearCookie
  /\ UNCHANGED <<environment, states, users, redis, issued, req, owner, loggedOut>>

History ==
  /\ good' = {q \in Requests : /\ req'[q].kind \in Gated /\ Usable(redis', req'[q].sid)
                               /\ q \in good \/ req[q].pc = "idle"}
  /\ late' = {q \in Requests : /\ req'[q].kind \in Gated
                               /\ q \in late \/ (req[q].pc = "idle" /\ req'[q].sid \in loggedOut)}

RequestStep(q) ==
  \/ Callback(q) \/ UpsertUser(q) \/ Issue(q)
  \/ \E kind \in Gated : Request(q, kind)
  \/ Gate(q) \/ GetSession(q) \/ Logout(q)
  \/ Deliver(q) \/ Lose(q)

Step ==
  \/ \E q \in Requests : RequestStep(q)
  \/ \E p \in Providers : Login(p)
  \/ \E s \in Sids : Expire(s)
  \/ Redeploy \/ ForgetCookie

Next == Step /\ History

Spec == Init /\ [][Next]_vars

-----------------------------------------------------------------------------
(***************************************************************************)
(* Properties.                                                             *)
(***************************************************************************)
\* A logout answered 200 is final (endpoints.go:111): no request sent after it is let
\* through with the id that was revoked, whatever responses and cookies were still on
\* their way when it was answered.
LogoutIsFinal ==
  \A q \in late : req[q].pc \in {"gate", "answered"} /\ req[q].status \in {0, 401, 503}

\* A 401 of the gate is deserved (middleware.go:36-43): the caller sent no cookie, or its
\* session was gone or unreadable at some moment of the request.  A Redis that does not
\* answer, at whatever moment, signs nobody out; none-mode never refuses.
UnauthorizedIsDeserved ==
  \A q \in Requests :
    req[q].kind \in Gated /\ req[q].status = 401 => q \notin good /\ ~none

\* Whoever is let through is let through as the user who logged in when the id was
\* drawn (store.go:82-106), also across a second login in another tab, a redeployment
\* and a reused cookie; none-mode makes everybody the anonymous user.
AdmittedAsOwner ==
  \A q \in Requests :
    req[q].kind \in Gated /\ (req[q].pc = "handle" \/ req[q].status = 200)
      => IF none THEN req[q].who = Anonymous
         ELSE req[q].sid \in issued /\ req[q].who = owner[req[q].sid]

\* The users table is the audit record of who has logged in (users.sql.go:30-32): no
\* session of a user exists before, or without, the row.
SessionHasUser == \A s \in DOMAIN redis : redis[s].who \in users
=============================================================================
