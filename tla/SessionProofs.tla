---------------------------- MODULE SessionProofs ---------------------------
(***************************************************************************)
(* Session's safety properties for any number of providers, users, session *)
(* ids, requests under way and redeployments.                              *)
(*                                                                         *)
(* The properties are about single requests, so the inductive invariant is *)
(* one about the stored state (StateInv) and one about each request        *)
(* (RequestInv), and a step disturbs only the request that takes it        *)
(* (OtherRequests).                                                        *)
(***************************************************************************)
EXTENDS Session, TLAPS

\* The types of everything but the requests; a stored session is its owner's, who has a
\* row, and a revoked id does not come back.
StateInv ==
  /\ none \in BOOLEAN /\ registry \in SUBSET Providers /\ (none <=> registry = {})
  /\ deploys \in 0 .. MaxDeploy /\ states \in SUBSET Providers /\ users \in SUBSET Identity
  /\ issued \in SUBSET Sids /\ jar \in issued \cup {None}
  /\ owner \in [issued -> Identity] /\ loggedOut \in SUBSET issued
  /\ DOMAIN redis \subseteq issued /\ \A s \in DOMAIN redis : redis[s] \in Value
  /\ \A s \in DOMAIN redis : redis[s].who = owner[s] /\ redis[s].who \in users /\ s \notin loggedOut
  /\ none => loggedOut = {}

\* Where a request stands decides what it carries.
Placed(q) ==
  /\ req[q].pc = "idle" <=> req[q].kind = "none"
  /\ req[q].pc \in {"upsert", "issue"} => req[q].kind = "callback" /\ req[q].who \in Identity
  /\ req[q].pc = "issue" => req[q].who \in users
  /\ req[q].pc \in {"gate", "handle"} => req[q].kind \in Gated
  /\ req[q].pc # "answered" => req[q].status = 0 /\ req[q].cookie = "keep"
  /\ req[q].pc = "gate" => req[q].sid \in issued \cup {None}
  /\ req[q].pc = "handle" /\ none => req[q].sid = Anonymous
  /\ req[q].cookie = "set" => req[q].sid \in issued

\* The three properties of a request that is let through, refused, or late.
Admitted(q) ==
  req[q].kind \in Gated /\ (req[q].pc = "handle" \/ req[q].status = 200)
    => IF none THEN req[q].who = Anonymous
       ELSE req[q].sid \in issued /\ req[q].who = owner[req[q].sid]

Deserved(q) == req[q].kind \in Gated /\ req[q].status = 401 => q \notin good /\ ~none

Final(q) ==
  q \in late => /\ req[q].kind \in Gated /\ req[q].sid \in loggedOut
                /\ req[q].pc \in {"gate", "answered"} /\ req[q].status \in {0, 401, 503}

RequestInv(q) == Placed(q) /\ Admitted(q) /\ Deserved(q) /\ Final(q)

SessionInv ==
  /\ StateInv
  /\ req \in [Requests -> Req] /\ good \in SUBSET Requests /\ late \in SUBSET Requests
  /\ \A q \in Requests : RequestInv(q)

LEMMA InvImplies ==
  SessionInv => /\ TypeOK /\ SessionHasUser
                /\ AdmittedAsOwner /\ LogoutIsFinal /\ UnauthorizedIsDeserved
<1> SUFFICES ASSUME SessionInv
             PROVE  /\ TypeOK /\ SessionHasUser
                    /\ AdmittedAsOwner /\ LogoutIsFinal /\ UnauthorizedIsDeserved
  OBVIOUS
<1>1. TypeOK /\ SessionHasUser
  BY DEF SessionInv, StateInv, TypeOK, SessionHasUser
<1>2. AdmittedAsOwner
  BY DEF SessionInv, RequestInv, Admitted, AdmittedAsOwner
<1>3. LogoutIsFinal
  BY DEF SessionInv, RequestInv, Final, LogoutIsFinal
<1>4. UnauthorizedIsDeserved
  BY DEF SessionInv, RequestInv, Deserved, UnauthorizedIsDeserved
<1> QED
  BY <1>1, <1>2, <1>3, <1>4

LEMMA IdleIsReq ==
  /\ Idle \in Req /\ Idle.pc = "idle" /\ Idle.kind = "none" /\ Idle.sid = None
  /\ Idle.who = None /\ Idle.status = 0 /\ Idle.cookie = "keep"
  BY DEF Idle, Req

LEMMA InitInv == Init => SessionInv
<1> SUFFICES ASSUME Init PROVE SessionInv
  OBVIOUS
<1> USE SessionAssumption DEF Init
<1>1. StateInv
  BY DEF StateInv
<1>2. ASSUME NEW q \in Requests PROVE RequestInv(q)
  BY IdleIsReq DEF RequestInv, Placed, Admitted, Deserved, Final, Gated
<1> QED
  BY <1>1, <1>2, IdleIsReq DEF SessionInv

-----------------------------------------------------------------------------
(***************************************************************************)
(* What the helpers make of req.                                           *)
(***************************************************************************)
\* A step gives request q the record r.
Becomes(q, r) == r \in Req /\ req' = [req EXCEPT ![q] = r]

LEMMA AnswerBecomes ==
  ASSUME req \in [Requests -> Req], NEW q \in Requests,
         NEW status \in {200, 302, 400, 401, 500, 503}, Answer(q, status)
  PROVE  \E r \in Req : /\ Becomes(q, r)
                        /\ r.pc = "answered" /\ r.status = status /\ r.kind = req[q].kind
                        /\ r.sid = req[q].sid /\ r.who = None /\ r.cookie = "keep"
<1> DEFINE r == [Idle EXCEPT !.pc = "answered", !.status = status, !.kind = req[q].kind,
                             !.sid = req[q].sid]
           r1 == [Idle EXCEPT !.pc = "answered"]
           r2 == [r1 EXCEPT !.status = status]
           r3 == [r2 EXCEPT !.kind = req[q].kind]
<1>1. /\ req[q].kind \in Gated \cup {"none", "callback"}
      /\ req[q].sid \in Sids \cup {None, Anonymous}
  BY DEF Req
<1>2. r1 \in Req
  BY IdleIsReq DEF Req
<1>3. r2 \in Req
  <2> HIDE DEF r1
  <2> QED BY <1>2 DEF Req
<1>4. r3 \in Req
  <2> HIDE DEF r2
  <2> QED BY <1>1, <1>3 DEF Req
<1>5. [r3 EXCEPT !.sid = req[q].sid] \in Req
  <2> HIDE DEF r3
  <2> QED BY <1>1, <1>4 DEF Req
<1>6. r \in Req
  BY <1>5
<1>7. /\ r.pc = "answered" /\ r.status = status /\ r.kind = req[q].kind
      /\ r.sid = req[q].sid /\ r.who = None /\ r.cookie = "keep"
  BY DEF Idle
<1>8. req' = [req EXCEPT ![q] = r]
  BY DEF Answer
<1> HIDE DEF r
<1> QED
  BY <1>6, <1>7, <1>8 DEF Becomes

\* Nobody but the request that takes a step is disturbed by it.
LEMMA OtherRequests ==
  ASSUME SessionInv, NEW p \in Requests, req'[p] = req[p], History, none' = none,
         users \subseteq users', issued \subseteq issued', loggedOut \subseteq loggedOut',
         \A s \in issued : owner'[s] = owner[s]
  PROVE  RequestInv(p)'
<1> USE DEF SessionInv
<1>1. RequestInv(p)
  OBVIOUS
<1>2. Placed(p)'
  BY <1>1 DEF RequestInv, Placed
<1>3. Admitted(p)'
  BY <1>1 DEF RequestInv, Admitted
<1>4. Deserved(p)'
  BY <1>1 DEF RequestInv, Deserved, Placed, History, Gated
<1>5. Final(p)'
  BY <1>1 DEF RequestInv, Final, Placed, History, Gated
<1> QED
  BY <1>2, <1>3, <1>4, <1>5 DEF RequestInv
\* A step of one request: what is left to show is about the store and about that request.
LEMMA OneRequest ==
  ASSUME SessionInv, NEW q \in Requests, NEW r \in Req, Becomes(q, r), History, none' = none,
         users \subseteq users', issued \subseteq issued', loggedOut \subseteq loggedOut',
         \A s \in issued : owner'[s] = owner[s],
         StateInv', RequestInv(q)'
  PROVE  SessionInv'
<1>1. req' \in [Requests -> Req] /\ \A p \in Requests \ {q} : req'[p] = req[p]
  BY DEF SessionInv, Becomes
<1>2. ASSUME NEW p \in Requests PROVE RequestInv(p)'
  BY <1>1, OtherRequests
<1>3. good' \in SUBSET Requests /\ late' \in SUBSET Requests
  BY DEF History
<1> QED
  BY <1>1, <1>2, <1>3 DEF SessionInv

\* A step of nobody's request.
LEMMA NoRequest ==
  ASSUME SessionInv, UNCHANGED <<none, users, issued, loggedOut, owner, req>>, History, StateInv'
  PROVE  SessionInv'
<1>1. req' \in [Requests -> Req]
  BY DEF SessionInv
<1>2. ASSUME NEW p \in Requests PROVE RequestInv(p)'
  BY OtherRequests
<1>3. good' \in SUBSET Requests /\ late' \in SUBSET Requests
  BY DEF History
<1> QED
  BY <1>1, <1>2, <1>3 DEF SessionInv
\* An answer that carries nothing leaves its request in order unless it is the gate's 401.
LEMMA AnswerInv ==
  ASSUME SessionInv, NEW q \in Requests, NEW status \in {401, 500, 503}, Answer(q, status),
         History, none' = none, req[q].pc # "idle",
         loggedOut \subseteq loggedOut', users \subseteq users', issued \subseteq issued',
         req[q].pc = "gate" \/ (q \notin late /\ status # 401),
         q \in late => status # 500,
         status = 401 => ~none /\ q \notin good'
  PROVE  \E r \in Req : Becomes(q, r) /\ RequestInv(q)'
<1> USE DEF SessionInv
<1>1. PICK r \in Req : /\ Becomes(q, r)
                       /\ r.pc = "answered" /\ r.status = status /\ r.kind = req[q].kind
                       /\ r.sid = req[q].sid /\ r.who = None /\ r.cookie = "keep"
  BY AnswerBecomes
<1>2. req'[q] = r
  BY <1>1 DEF Becomes
<1>3. RequestInv(q)
  OBVIOUS
<1>4. Placed(q)'
  BY <1>1, <1>2, <1>3 DEF RequestInv, Placed
<1>5. Admitted(q)'
  BY <1>1, <1>2 DEF Admitted
<1>6. Deserved(q)'
  BY <1>1, <1>2 DEF Deserved
<1>7. Final(q)'
  BY <1>1, <1>2, <1>3 DEF Final, RequestInv, History
<1> QED
  BY <1>1, <1>4, <1>5, <1>6, <1>7 DEF RequestInv

\* A browser with nothing under way is in order.
LEMMA IdleInv ==
  ASSUME SessionInv, NEW q \in Requests, req' = [req EXCEPT ![q] = Idle], History
  PROVE  Becomes(q, Idle) /\ RequestInv(q)'
<1>1. req'[q] = Idle /\ Becomes(q, Idle)
  BY IdleIsReq DEF SessionInv, Becomes
<1>2. Placed(q)' /\ Admitted(q)' /\ Deserved(q)'
  BY <1>1, IdleIsReq, SessionAssumption DEF Placed, Admitted, Deserved, Gated
<1>3. Final(q)'
  BY <1>1, IdleIsReq DEF Final, History, Gated
<1> QED
  BY <1>1, <1>2, <1>3 DEF RequestInv

-----------------------------------------------------------------------------
(***************************************************************************)
(* The steps.                                                              *)
(***************************************************************************)
LEMMA DeliverInv ==
  ASSUME SessionInv, NEW q \in Requests, Deliver(q), History
  PROVE  SessionInv'
<1>1. Becomes(q, Idle) /\ RequestInv(q)'
  BY IdleInv DEF Deliver
<1>2. jar' \in issued \cup {None}
  <2>1. req[q] \in Req /\ Placed(q) /\ jar \in issued \cup {None}
    BY DEF SessionInv, StateInv, RequestInv
  <2>2. req[q].cookie \in {"keep", "set", "clear"}
    BY <2>1 DEF Req
  <2>3. CASE req[q].cookie = "set"
    BY <2>1, <2>3 DEF Deliver, SetCookie, Placed
  <2>4. CASE req[q].cookie = "clear"
    BY <2>4 DEF Deliver, ClearCookie
  <2>5. CASE req[q].cookie = "keep"
    BY <2>1, <2>5 DEF Deliver
  <2> QED
    BY <2>2, <2>3, <2>4, <2>5
<1>3. StateInv'
  BY <1>2 DEF SessionInv, StateInv, Deliver, environment
<1> QED
  BY <1>1, <1>3, OneRequest, IdleIsReq DEF Deliver, environment

LEMMA LoseInv ==
  ASSUME SessionInv, NEW q \in Requests, Lose(q), History
  PROVE  SessionInv'
<1>1. Becomes(q, Idle) /\ RequestInv(q)'
  BY IdleInv DEF Lose
<1>2. StateInv'
  BY DEF SessionInv, StateInv, Lose, environment
<1> QED
  BY <1>1, <1>2, OneRequest, IdleIsReq DEF Lose, environment

LEMMA LoginInv ==
  ASSUME SessionInv, NEW p \in Providers, Login(p), History
  PROVE  SessionInv'
<1>1. StateInv'
  BY DEF SessionInv, StateInv, Login, EncodeState, environment
<1> QED
  BY <1>1, NoRequest DEF Login, environment

LEMMA ExpireInv ==
  ASSUME SessionInv, NEW s \in Sids, Expire(s), History
  PROVE  SessionInv'
<1>1. StateInv'
  BY DEF SessionInv, StateInv, Expire, Drop, environment
<1> QED
  BY <1>1, NoRequest DEF Expire, environment

LEMMA ForgetCookieInv ==
  ASSUME SessionInv, ForgetCookie, History
  PROVE  SessionInv'
<1>1. StateInv'
  BY DEF SessionInv, StateInv, ForgetCookie, ClearCookie, environment
<1> QED
  BY <1>1, NoRequest DEF ForgetCookie, environment

LEMMA RedeployInv ==
  ASSUME SessionInv, Redeploy, History
  PROVE  SessionInv'
<1> USE DEF SessionInv, StateInv, Redeploy
<1>1. /\ DOMAIN redis' = DOMAIN redis
      /\ \A s \in DOMAIN redis : redis'[s] \in Value /\ redis'[s].who = redis[s].who
  <2>1. CASE redis' = redis
    BY <2>1
  <2>2. CASE redis' = [s \in DOMAIN redis |-> [redis[s] EXCEPT !.decodable = FALSE]]
    BY <2>2 DEF Value
  <2> QED
    BY <2>1, <2>2
<1>2. deploys' \in 0 .. MaxDeploy
  BY SessionAssumption
<1>3. registry' \in SUBSET Providers /\ registry' # {} /\ ~none'
  OBVIOUS
<1>4. StateInv'
  BY <1>1, <1>2, <1>3
<1> QED
  BY <1>4, NoRequest
LEMMA RequestInvStep ==
  ASSUME SessionInv, NEW q \in Requests, NEW kind \in Gated, Request(q, kind), History
  PROVE  SessionInv'
<1> DEFINE r == [Idle EXCEPT !.pc = "gate", !.kind = kind, !.sid = jar]
           r1 == [Idle EXCEPT !.pc = "gate"]
           r2 == [r1 EXCEPT !.kind = kind]
<1>1. jar \in issued \cup {None} /\ issued \subseteq Sids /\ req \in [Requests -> Req]
  BY DEF SessionInv, StateInv
<1>2. r1 \in Req
  BY IdleIsReq DEF Req
<1>3. r2 \in Req
  <2> HIDE DEF r1
  <2> QED BY <1>2 DEF Req
<1>4. [r2 EXCEPT !.sid = jar] \in Req
  <2> HIDE DEF r2
  <2> QED BY <1>1, <1>3 DEF Req
<1>5. r \in Req
  BY <1>4
<1>6. /\ r.pc = "gate" /\ r.kind = kind /\ r.sid = jar
      /\ r.who = None /\ r.status = 0 /\ r.cookie = "keep"
  BY DEF Idle
<1>7. Becomes(q, r)
  BY <1>5 DEF Request, Becomes
<1> HIDE DEF r
<1>8. req'[q] = r
  BY <1>1, <1>7 DEF Becomes
<1>9. StateInv'
  BY DEF SessionInv, StateInv, Request, environment
<1>10. req[q].pc = "idle" /\ UNCHANGED <<loggedOut, none, issued, users, owner>>
  BY DEF Request, environment
<1>11. Placed(q)' /\ Admitted(q)' /\ Deserved(q)'
  BY <1>1, <1>6, <1>8, <1>10 DEF Placed, Admitted, Deserved, Gated
<1>12. q \notin late
  BY <1>10 DEF SessionInv, RequestInv, Final
<1>13. Final(q)'
  BY <1>6, <1>8, <1>10, <1>12 DEF Final, History
<1>14. RequestInv(q)'
  BY <1>11, <1>13 DEF RequestInv
<1> QED
  BY <1>5, <1>7, <1>9, <1>10, <1>14, OneRequest

LEMMA GetSessionInv ==
  ASSUME SessionInv, NEW q \in Requests, GetSession(q), History
  PROVE  SessionInv'
<1> DEFINE r == [req[q] EXCEPT !.pc = "answered", !.status = 200]
           r1 == [req[q] EXCEPT !.pc = "answered"]
<1>1. req \in [Requests -> Req] /\ req[q] \in Req /\ RequestInv(q)
  BY DEF SessionInv
<1>2. r1 \in Req
  BY <1>1 DEF Req
<1>3. [r1 EXCEPT !.status = 200] \in Req
  <2> HIDE DEF r1
  <2> QED BY <1>2 DEF Req
<1>4. r \in Req
  BY <1>3
<1>5. /\ r.pc = "answered" /\ r.status = 200 /\ r.kind = req[q].kind
      /\ r.sid = req[q].sid /\ r.who = req[q].who /\ r.cookie = req[q].cookie
  BY <1>1 DEF Req
<1>6. Becomes(q, r)
  BY <1>1, <1>4 DEF GetSession, Becomes
<1> HIDE DEF r
<1>7. req'[q] = r
  BY <1>1, <1>6 DEF Becomes
<1>8. StateInv'
  BY DEF SessionInv, StateInv, GetSession, environment
<1>9. req[q].pc = "handle" /\ UNCHANGED <<loggedOut, none, issued, users, owner>>
  BY DEF GetSession, environment
<1>10. Placed(q)' /\ Admitted(q)' /\ Deserved(q)'
  BY <1>1, <1>5, <1>7, <1>9 DEF RequestInv, Placed, Admitted, Deserved, Gated
<1>11. Final(q)'
  BY <1>1, <1>5, <1>7, <1>9 DEF Final, History, RequestInv
<1>12. RequestInv(q)'
  BY <1>10, <1>11 DEF RequestInv
<1> QED
  BY <1>4, <1>6, <1>8, <1>9, <1>12, OneRequest

LEMMA UpsertUserInv ==
  ASSUME SessionInv, NEW q \in Requests, UpsertUser(q), History
  PROVE  SessionInv'
<1>1. /\ req \in [Requests -> Req] /\ req[q] \in Req /\ RequestInv(q)
      /\ UNCHANGED <<loggedOut, none, issued, owner>> /\ req[q].pc = "upsert"
      /\ q \notin late
  BY DEF SessionInv, UpsertUser, environment, RequestInv, Final
<1>2. req[q].who \in Identity /\ users' \in {users, users \cup {req[q].who}}
  BY <1>1 DEF UpsertUser, RequestInv, Placed
<1>3. StateInv'
  BY <1>2 DEF SessionInv, StateInv, UpsertUser, environment
<1>4. CASE users' = users \cup {req[q].who} /\ Goto(q, "issue")
  <2> DEFINE r == [req[q] EXCEPT !.pc = "issue"]
  <2>1. /\ r \in Req /\ r.pc = "issue" /\ r.status = req[q].status /\ r.kind = req[q].kind
        /\ r.sid = req[q].sid /\ r.who = req[q].who /\ r.cookie = req[q].cookie
    BY <1>1 DEF Req
  <2>2. Becomes(q, r)
    BY <1>1, <1>4, <2>1 DEF Goto, Becomes
  <2> HIDE DEF r
  <2>3. req'[q] = r
    BY <1>1, <2>2 DEF Becomes
  <2>4. Placed(q)' /\ Admitted(q)' /\ Deserved(q)'
    BY <1>1, <1>4, <2>1, <2>3 DEF RequestInv, Placed, Admitted, Deserved, Gated
  <2>5. Final(q)'
    BY <1>1, <2>1, <2>3 DEF Final, History
  <2> QED
    BY <1>1, <1>2, <1>3, <2>1, <2>2, <2>4, <2>5, OneRequest DEF RequestInv
<1>5. CASE Answer(q, 500)
  BY <1>1, <1>2, <1>3, <1>5, AnswerInv, OneRequest
<1> QED
  BY <1>4, <1>5 DEF UpsertUser
LEMMA CallbackInv ==
  ASSUME SessionInv, NEW q \in Requests, Callback(q), History
  PROVE  SessionInv'
<1>1. /\ req \in [Requests -> Req] /\ req[q].pc = "idle" /\ q \notin late
      /\ UNCHANGED <<loggedOut, none, issued, users, owner>>
  BY DEF SessionInv, Callback, environment, RequestInv, Final
<1>2. StateInv'
  BY DEF SessionInv, StateInv, Callback, environment
<1>3. ASSUME NEW status \in {400, 401}
      PROVE  /\ Refused(status) \in Req /\ Refused(status).pc = "answered"
             /\ Refused(status).kind = "callback" /\ Refused(status).cookie = "keep"
  <2> DEFINE r1 == [Idle EXCEPT !.pc = "answered"]
             r2 == [r1 EXCEPT !.kind = "callback"]
  <2>1. r1 \in Req
    BY IdleIsReq DEF Req
  <2>2. r2 \in Req
    <3> HIDE DEF r1
    <3> QED BY <2>1 DEF Req
  <2>3. [r2 EXCEPT !.status = status] \in Req
    <3> HIDE DEF r2
    <3> QED BY <2>2 DEF Req
  <2> QED
    BY <2>3 DEF Refused, Idle
<1> DEFINE Signing(p, u) ==
             [Idle EXCEPT !.pc = "upsert", !.kind = "callback", !.who = <<p, u>>]
<1>4. ASSUME NEW p \in Providers, NEW u \in Subjects
      PROVE  /\ Signing(p, u) \in Req
             /\ Signing(p, u).pc = "upsert" /\ Signing(p, u).kind = "callback"
             /\ Signing(p, u).who = <<p, u>> /\ Signing(p, u).status = 0
             /\ Signing(p, u).cookie = "keep"
  <2> DEFINE r1 == [Idle EXCEPT !.pc = "upsert"]
             r2 == [r1 EXCEPT !.kind = "callback"]
  <2>1. r1 \in Req
    BY IdleIsReq DEF Req
  <2>2. r2 \in Req
    <3> HIDE DEF r1
    <3> QED BY <2>1 DEF Req
  <2>3. [r2 EXCEPT !.who = <<p, u>>] \in Req
    <3> HIDE DEF r2
    <3> QED BY <2>2 DEF Req, Identity
  <2> QED
    BY <2>3 DEF Idle
<1>5. PICK r \in {Refused(400), Refused(401)}
               \cup UNION {IF p \in registry THEN Exchange(p) ELSE {Refused(400)} : p \in VerifyState} :
        req' = [req EXCEPT ![q] = r]
  BY DEF Callback
<1> HIDE DEF Signing
<1>6. VerifyState \subseteq Providers
  BY DEF SessionInv, StateInv, VerifyState
<1>7. /\ r \in Req /\ r.kind = "callback" /\ r.cookie = "keep"
      /\ r.pc = "answered" \/ (r.pc = "upsert" /\ r.who \in Identity /\ r.status = 0)
  <2>1. CASE r \in {Refused(400), Refused(401)}
    BY <1>3, <2>1
  <2>2. CASE \E p \in Providers, u \in Subjects : r = Signing(p, u)
    <3>1. PICK p \in Providers, u \in Subjects : r = Signing(p, u)
      BY <2>2
    <3>2. /\ r \in Req /\ r.pc = "upsert" /\ r.kind = "callback"
          /\ r.who = <<p, u>> /\ r.status = 0 /\ r.cookie = "keep"
      BY <1>4, <3>1
    <3> QED
      BY <3>2 DEF Identity
  <2>3. CASE \E p \in VerifyState : r \in Exchange(p)
    <3>1. PICK p \in VerifyState : r \in Exchange(p)
      BY <2>3
    <3>2. CASE r = Refused(401)
      BY <2>1, <3>2
    <3>3. CASE r # Refused(401)
      <4>1. PICK u \in Subjects : r = Signing(p, u)
        BY <3>1, <3>3, Zenon DEF Exchange, Signing
      <4> QED
        BY <1>6, <2>2, <4>1
    <3> QED
      BY <3>2, <3>3
  <2> QED
    BY <1>5, <2>1, <2>3
<1>8. Becomes(q, r) /\ req'[q] = r
  BY <1>1, <1>5, <1>7 DEF Becomes
<1>9. Placed(q)' /\ Admitted(q)' /\ Deserved(q)' /\ Final(q)'
  BY <1>1, <1>7, <1>8 DEF Placed, Admitted, Deserved, Final, History, Gated
<1> QED
  BY <1>1, <1>2, <1>7, <1>8, <1>9, OneRequest DEF RequestInv

LEMMA IssueInv ==
  ASSUME SessionInv, NEW q \in Requests, Issue(q), History
  PROVE  SessionInv'
<1>1. /\ req \in [Requests -> Req] /\ req[q] \in Req /\ RequestInv(q) /\ StateInv
      /\ UNCHANGED <<loggedOut, none, registry, deploys, states, users, jar>>
      /\ req[q].pc = "issue" /\ q \notin late
  BY DEF SessionInv, Issue, environment, RequestInv, Final
<1>2. req[q].who \in Identity /\ req[q].who \in users /\ req[q].kind = "callback"
  BY <1>1 DEF RequestInv, Placed
<1>3. PICK s \in Sids \ issued :
        /\ issued' = issued \cup {s}
        /\ owner' = [x \in issued' |-> IF x = s THEN req[q].who ELSE owner[x]]
        /\ \/ /\ Write(s, Stored(q))
              /\ req' = [req EXCEPT ![q].pc = "answered", ![q].status = 302,
                                    ![q].cookie = "set", ![q].sid = s]
           \/ /\ Write(s, Stored(q)) \/ UNCHANGED redis
              /\ Answer(q, 500)
  BY DEF Issue, NewId
<1>4. \A x \in issued : owner'[x] = owner[x]
  BY <1>3
<1>5. StateInv'
  <2>1. owner' \in [issued' -> Identity] /\ owner'[s] = req[q].who
    BY <1>1, <1>2, <1>3 DEF StateInv
  <2>2. Stored(q) \in Value /\ Stored(q).who = req[q].who
    BY <1>2, SessionAssumption DEF Stored, Value
  <2>3. /\ DOMAIN redis' \subseteq issued' /\ \A x \in DOMAIN redis' : redis'[x] \in Value
        /\ \A x \in DOMAIN redis' :
             redis'[x].who = owner'[x] /\ redis'[x].who \in users' /\ x \notin loggedOut'
    <3>1. CASE Write(s, Stored(q))
      BY <1>1, <1>2, <1>3, <1>4, <2>1, <2>2, <3>1 DEF StateInv, Write
    <3>2. CASE UNCHANGED redis
      BY <1>1, <1>3, <1>4, <3>2 DEF StateInv
    <3> QED
      BY <1>3, <3>1, <3>2
  <2>4. /\ issued' \in SUBSET Sids /\ jar' \in issued' \cup {None}
        /\ loggedOut' \in SUBSET issued'
    BY <1>1, <1>3 DEF StateInv
  <2> QED
    BY <1>1, <2>1, <2>3, <2>4 DEF StateInv
<1>6. CASE req' = [req EXCEPT ![q].pc = "answered", ![q].status = 302,
                              ![q].cookie = "set", ![q].sid = s]
  <2> DEFINE r1 == [req[q] EXCEPT !.pc = "answered"]
             r2 == [r1 EXCEPT !.status = 302]
             r3 == [r2 EXCEPT !.cookie = "set"]
             r == [r3 EXCEPT !.sid = s]
  <2>1. r1 \in Req
    BY <1>1 DEF Req
  <2>2. r2 \in Req
    <3> HIDE DEF r1
    <3> QED BY <2>1 DEF Req
  <2>3. r3 \in Req
    <3> HIDE DEF r2
    <3> QED BY <2>2 DEF Req
  <2>4. r \in Req
    <3> HIDE DEF r3
    <3> QED BY <2>3 DEF Req
  <2>5. /\ r.pc = "answered" /\ r.kind = "callback" /\ r.sid = s
    BY <1>1, <1>2 DEF Req
  <2>6. Becomes(q, r)
    <3>1. q \in DOMAIN req
      BY <1>1
    <3>2. [req EXCEPT ![q].pc = "answered", ![q].status = 302] = [req EXCEPT ![q] = r2]
      BY <3>1
    <3>3. req' = [[req EXCEPT ![q] = r2] EXCEPT ![q].cookie = "set", ![q].sid = s]
      BY <1>6, <3>2, Zenon
    <3>4. req' = [req EXCEPT ![q] = r]
      <4> HIDE DEF r2
      <4> QED
        BY <1>1, <3>3
    <3> HIDE DEF r
    <3> QED
      BY <2>4, <3>4 DEF Becomes
  <2> HIDE DEF r
  <2>7. req'[q] = r
    BY <1>1, <2>6 DEF Becomes
  <2>8. Placed(q)' /\ Admitted(q)' /\ Deserved(q)' /\ Final(q)'
    BY <1>1, <1>3, <2>5, <2>7 DEF Placed, Admitted, Deserved, Final, History, Gated
  <2> QED
    BY <1>1, <1>3, <1>4, <1>5, <2>4, <2>6, <2>8, OneRequest DEF RequestInv
<1>7. CASE Answer(q, 500)
  BY <1>1, <1>3, <1>4, <1>5, <1>7, AnswerInv, OneRequest
<1> QED
  BY <1>3, <1>6, <1>7
\* The gate lets a request through as the owner of its session, or as the anonymous user.
LEMMA AuthorizedInv ==
  ASSUME SessionInv, NEW q \in Requests, NEW s, NEW who, Authorized(q, s, who), History,
         req[q].pc = "gate", q \notin late, StateInv',
         UNCHANGED <<loggedOut, none, issued, users, owner>>,
         IF none THEN s = Anonymous /\ who = Anonymous
                 ELSE s \in issued /\ who = owner[s]
  PROVE  SessionInv'
<1>1. /\ req \in [Requests -> Req] /\ req[q] \in Req /\ RequestInv(q)
      /\ s \in Sids \cup {None, Anonymous} /\ who \in Identity \cup {None, Anonymous}
  BY DEF SessionInv, StateInv
<1>2. CASE req' = [req EXCEPT ![q].pc = "handle", ![q].sid = s, ![q].who = who]
  <2> DEFINE r1 == [req[q] EXCEPT !.pc = "handle"]
             r2 == [r1 EXCEPT !.sid = s]
             r == [r2 EXCEPT !.who = who]
  <2>1. r1 \in Req
    BY <1>1 DEF Req
  <2>2. r2 \in Req
    <3> HIDE DEF r1
    <3> QED BY <1>1, <2>1 DEF Req
  <2>3. r \in Req
    <3> HIDE DEF r2
    <3> QED BY <1>1, <2>2 DEF Req
  <2>4. /\ r.pc = "handle" /\ r.kind = req[q].kind /\ r.sid = s
        /\ r.who = who /\ r.status = req[q].status /\ r.cookie = req[q].cookie
    BY <1>1 DEF Req
  <2>5. Becomes(q, r)
    BY <1>1, <1>2, <2>3 DEF Becomes
  <2> HIDE DEF r
  <2>6. req'[q] = r
    BY <1>1, <2>5 DEF Becomes
  <2>7. Placed(q)' /\ Admitted(q)' /\ Deserved(q)'
    BY <1>1, <2>4, <2>6 DEF RequestInv, Placed, Admitted, Deserved, Gated
  <2>8. Final(q)'
    BY <2>4, <2>6 DEF Final, History
  <2> QED
    BY <2>3, <2>5, <2>7, <2>8, OneRequest DEF RequestInv
<1>3. CASE Answer(q, 500)
  BY <1>3, AnswerInv, OneRequest
<1> QED
  BY <1>2, <1>3 DEF Authorized

LEMMA GateInv ==
  ASSUME SessionInv, NEW q \in Requests, Gate(q), History
  PROVE  SessionInv'
<1>1. /\ req[q].pc = "gate" /\ RequestInv(q) /\ StateInv
      /\ UNCHANGED <<redis, loggedOut, none, issued, users, owner>>
  BY DEF SessionInv, Gate, environment
<1>2. StateInv'
  BY DEF SessionInv, StateInv, Gate, environment
<1>3. CASE AnonymousMiddleware(q)
  <2>1. none /\ q \notin late
    BY <1>1, <1>3 DEF AnonymousMiddleware, RequestInv, StateInv, Final
  <2> QED
    BY <1>1, <1>2, <1>3, <2>1, AuthorizedInv DEF AnonymousMiddleware
<1>4. CASE Middleware(q)
  <2>1. CASE req[q].sid = None /\ Answer(q, 401)
    <3>1. ~none /\ q \notin good'
      <4>1. ~Usable(redis', req[q].sid) /\ req'[q].sid = req[q].sid
        BY <1>1, <2>1, AnswerBecomes, SessionAssumption DEF SessionInv, StateInv, Usable, Becomes
      <4> QED
        BY <1>4, <4>1 DEF Middleware, History
    <3>2. PICK r \in Req : Becomes(q, r) /\ RequestInv(q)'
      BY <1>1, <2>1, <3>1, AnswerInv
    <3> QED
      BY <1>1, <1>2, <3>2, OneRequest
  <2>2. ASSUME NEW result \in {Lookup(req[q].sid), "unreachable"}, result = "found",
               Authorized(q, req[q].sid, redis[req[q].sid].who)
        PROVE  SessionInv'
    <3>1. req[q].sid \in DOMAIN redis
      BY <2>2 DEF Lookup
    <3>2. /\ req[q].sid \in issued /\ redis[req[q].sid].who = owner[req[q].sid]
          /\ q \notin late /\ ~none
      BY <1>1, <1>4, <3>1 DEF StateInv, RequestInv, Final, Middleware
    <3> QED
      BY <1>1, <1>2, <2>2, <3>2, AuthorizedInv
  <2>3. ASSUME NEW result \in {Lookup(req[q].sid), "unreachable"}, result # "found",
               Answer(q, LookupStatus(result))
        PROVE  SessionInv'
    <3>1. LookupStatus(result) \in {401, 503}
      BY DEF LookupStatus
    <3>2. LookupStatus(result) = 401 => ~none /\ q \notin good'
      <4>1. LookupStatus(result) = 401 => ~Usable(redis', req[q].sid)
        BY <1>1, <2>3 DEF LookupStatus, Lookup, Usable
      <4>2. req'[q].sid = req[q].sid
        BY <2>3, <3>1, AnswerBecomes DEF SessionInv, Becomes
      <4> QED
        BY <1>4, <4>1, <4>2 DEF Middleware, History
    <3>3. PICK r \in Req : Becomes(q, r) /\ RequestInv(q)'
      BY <1>1, <2>3, <3>1, <3>2, AnswerInv
    <3> QED
      BY <1>1, <1>2, <3>3, OneRequest
  <2> QED
    BY <1>4, <2>1, <2>2, <2>3 DEF Middleware
<1> QED
  BY <1>3, <1>4 DEF Gate

LEMMA LogoutInv ==
  ASSUME SessionInv, NEW q \in Requests, Logout(q), History
  PROVE  SessionInv'
<1>1. /\ req \in [Requests -> Req] /\ req[q] \in Req /\ RequestInv(q) /\ StateInv
      /\ UNCHANGED <<none, registry, deploys, states, users, issued, jar, owner>>
      /\ req[q].pc = "handle" /\ req[q].kind \in Gated /\ q \notin late
  BY DEF SessionInv, Logout, environment, RequestInv, Final, Gated
<1>2. IF none THEN req[q].sid = Anonymous ELSE req[q].sid \in issued
  BY <1>1 DEF RequestInv, Placed, Admitted
<1>3. CASE /\ Revoke(req[q].sid)
           /\ req' = [req EXCEPT ![q].pc = "answered", ![q].status = 200, ![q].cookie = "clear"]
           /\ loggedOut' = loggedOut \cup ({req[q].sid} \ {Anonymous})
  <2> DEFINE r1 == [req[q] EXCEPT !.pc = "answered"]
             r2 == [r1 EXCEPT !.status = 200]
             r == [r2 EXCEPT !.cookie = "clear"]
  <2>1. r1 \in Req
    BY <1>1 DEF Req
  <2>2. r2 \in Req
    <3> HIDE DEF r1
    <3> QED BY <2>1 DEF Req
  <2>3. r \in Req
    <3> HIDE DEF r2
    <3> QED BY <2>2 DEF Req
  <2>4. /\ r.pc = "answered" /\ r.kind = req[q].kind /\ r.sid = req[q].sid
        /\ r.who = req[q].who /\ r.status = 200 /\ r.cookie = "clear"
    BY <1>1 DEF Req
  <2>5. Becomes(q, r)
    BY <1>1, <1>3, <2>3 DEF Becomes
  <2> HIDE DEF r
  <2>6. req'[q] = r
    BY <1>1, <2>5 DEF Becomes
  <2>7. StateInv'
    <3>1. loggedOut' \in SUBSET issued' /\ (none' => loggedOut' = {})
      BY <1>1, <1>2, <1>3 DEF StateInv
    <3>2. /\ DOMAIN redis' = DOMAIN redis \ {req[q].sid}
          /\ \A x \in DOMAIN redis' : redis'[x] = redis[x]
      BY <1>3 DEF Revoke, Drop
    <3> QED
      BY <1>1, <1>3, <3>1, <3>2 DEF StateInv
  <2>8. Placed(q)' /\ Admitted(q)' /\ Deserved(q)'
    BY <1>1, <2>4, <2>6 DEF RequestInv, Placed, Admitted, Deserved, Gated
  <2>9. Final(q)'
    BY <1>1, <2>4, <2>6 DEF Final, History
  <2> QED
    BY <1>1, <1>3, <2>3, <2>5, <2>7, <2>8, <2>9, OneRequest DEF RequestInv
<1>4. CASE (Revoke(req[q].sid) \/ UNCHANGED redis) /\ Answer(q, 500) /\ UNCHANGED loggedOut
  <2>1. StateInv'
    BY <1>1, <1>4 DEF StateInv, Revoke, Drop
  <2> QED
    BY <1>1, <1>4, <2>1, AnswerInv, OneRequest
<1> QED
  BY <1>3, <1>4 DEF Logout

LEMMA NextInv == SessionInv /\ [Next]_vars => SessionInv'
<1> SUFFICES ASSUME SessionInv, [Next]_vars PROVE SessionInv'
  OBVIOUS
<1>1. CASE UNCHANGED vars
  BY <1>1 DEF vars, SessionInv, StateInv, RequestInv, Placed, Admitted, Deserved, Final
<1>2. ASSUME NEW q \in Requests, RequestStep(q), History PROVE SessionInv'
  BY <1>2, CallbackInv, UpsertUserInv, IssueInv, RequestInvStep, GateInv, GetSessionInv,
     LogoutInv, DeliverInv, LoseInv DEF RequestStep
<1> QED
  BY <1>1, <1>2, LoginInv, ExpireInv, RedeployInv, ForgetCookieInv DEF Next, Step

\* Every reachable state satisfies the inductive invariant.
LEMMA InductiveInvariant == Spec => []SessionInv
  BY InitInv, NextInv, PTL DEF Spec

-----------------------------------------------------------------------------
(***************************************************************************)
(* The theorems.                                                           *)
(***************************************************************************)
\* Every value keeps its type: a cookie is None or an id that was drawn, the registry is
\* empty exactly in none-mode (config.go:239-249), every key of Redis is a drawn id.
THEOREM TypeCorrect == Spec => []TypeOK
  BY InductiveInvariant, InvImplies, PTL

\* No session exists before, or without, its user's row (endpoints.go callback upserts the
\* user before it issues the session).
THEOREM SessionsHaveUsers == Spec => []SessionHasUser
  BY InductiveInvariant, InvImplies, PTL

\* Whoever the gate lets through (middleware.go) is the user who logged in when the id was
\* drawn, whatever the other requests and logins of the browser do.
THEOREM AdmissionIsOwners == Spec => []AdmittedAsOwner
  BY InductiveInvariant, InvImplies, PTL

\* After a logout answered 200 (endpoints.go logout) no request that is sent with the
\* revoked id is let through.
THEOREM LogoutFinal == Spec => []LogoutIsFinal
  BY InductiveInvariant, InvImplies, PTL

\* The gate's 401 (middleware.go) is answered only to a caller whose session was gone or
\* unreadable at some moment of the request.
THEOREM UnauthorizedDeserved == Spec => []UnauthorizedIsDeserved
  BY InductiveInvariant, InvImplies, PTL
=============================================================================
