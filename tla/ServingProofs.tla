---------------------------- MODULE ServingProofs ---------------------------
(***************************************************************************)
(* Serving's safety properties for any repositories, contents and ids, and *)
(* for any number of changes of the catalog during a request.              *)
(*                                                                         *)
(* The strengthening says what ids are worth: one belongs to one name for  *)
(* ever, in the catalogs of the request and in the index (IdsInv), and a   *)
(* repository that is there under another id than the request knows has    *)
(* been away meanwhile (WatchInv).                                         *)
(***************************************************************************)
EXTENDS Serving, FiniteSetTheorems, TLAPS

\* A request is a record of these fields, whatever they hold.
ReqInv ==
  req = [pc |-> req.pc, kind |-> req.kind, name |-> req.name, arg |-> req.arg, seg |-> req.seg,
         allowed |-> req.allowed, repo |-> req.repo, type |-> req.type, status |-> req.status,
         body |-> req.body]

Active == req.pc \in {"serve", "resolved", "typed"}

\* Every catalog that matters to the request.
Catalogs == seen \cup {catalog}

Has(c, n, id) == c[n] # Absent /\ c[n].id = id

CatalogInv ==
  /\ DOMAIN catalog = Names /\ catalog = [n \in Names |-> catalog[n]]
  /\ nextId \in 1 .. MaxId + 1
  /\ \A c \in Catalogs : \A n \in Names :
       c[n] # Absent => c[n] \in Row(n) /\ c[n].id < nextId
  /\ \A x \in index : x \in [id : Ids, repo : Names] /\ x.id < nextId

IdsInv ==
  /\ \A c, d \in Catalogs : \A n, m \in Names : \A id \in Ids : Has(c, n, id) /\ Has(d, m, id) => n = m
  /\ \A x \in index : \A c \in Catalogs : \A n \in Names : Has(c, n, x.id) => n = x.repo

\* From the authorization on, the request knows the ids of one of its catalogs; a name that
\* has one of them has it in all of them, and a name that has another id was away once.
WatchInv ==
  Active =>
    /\ catalog \in seen
    /\ \A id \in req.allowed : id \in Ids /\ id < nextId
    /\ \E c \in seen : req.allowed = {c[n].id : n \in {m \in Names : c[m] # Absent}}
    /\ \A n \in Names : catalog[n] # Absent /\ catalog[n].id \in req.allowed =>
         \A c \in seen : Has(c, n, catalog[n].id)
    /\ \A n \in Names : catalog[n] # Absent /\ catalog[n].id \notin req.allowed =>
         \E c \in seen : c[n] = Absent

\* What a request has read is of one of its catalogs.
ReadInv ==
  /\ req.pc # "idle" /\ req.kind \in InRepo => req.name \in Names
  /\ req.pc \in {"resolved", "typed"} =>
       /\ req.kind \in InRepo /\ req.repo # Absent /\ req.repo.id \in req.allowed
       /\ \E c \in seen : c[req.name] = req.repo
  /\ req.pc = "typed" => \E c \in seen : req.type \in resolveType(TypesOf(c, req.name), req.seg)

FieldsInv ==
  /\ req.pc \in {"idle", "authorize", "serve", "resolved", "typed", "answered"}
  /\ req.kind \in InRepo \cup {"repos", "search"}
  /\ req.status \in {0, 200, 400, 404, 500} /\ (req.pc # "answered" => req.status = 0)
  /\ ~Active => req.allowed = {}
  /\ req.status = 200 /\ req.kind \in {"doc", "page", "repo"} \cup OneRead => Cardinality(req.body) = 1

ServingInv ==
  /\ ReqInv /\ CatalogInv /\ IdsInv /\ WatchInv /\ ReadInv /\ FieldsInv
  /\ MissWasTrue /\ AnswerWasServed /\ RepoListIsStable /\ SearchIsScoped

-----------------------------------------------------------------------------
(***************************************************************************)
(* The request record under each kind of step.                             *)
(***************************************************************************)
\* An answer keeps what was asked and forgets what was read.
LEMMA AnswerFields ==
  ASSUME NEW status, NEW body, ReqInv, Answer(status, body)
  PROVE  /\ ReqInv' /\ req'.pc = "answered" /\ req'.status = status /\ req'.body = body
         /\ req'.kind = req.kind /\ req'.name = req.name /\ req'.arg = req.arg
         /\ req'.seg = req.seg /\ req'.allowed = {} /\ seen' = seen
<1>1. req' = [pc |-> "answered", kind |-> req.kind, name |-> req.name, arg |-> req.arg,
              seg |-> req.seg, allowed |-> {}, repo |-> Absent, type |-> Absent,
              status |-> status, body |-> body]
  BY DEF ReqInv, Answer
<1> QED  BY <1>1 DEF ReqInv, Answer

LEMMA ReceiveFields ==
  ASSUME NEW kind, NEW n, NEW arg, NEW seg, Receive(kind, n, arg, seg)
  PROVE  /\ ReqInv' /\ req'.pc = "authorize" /\ req'.status = 0 /\ req'.kind = kind
         /\ req'.name = n /\ req'.allowed = {} /\ seen' = seen /\ req.pc = "idle"
<1>1. req' = [pc |-> "authorize", kind |-> kind, name |-> n, arg |-> arg,
              seg |-> seg, allowed |-> {}, repo |-> Absent, type |-> Absent,
              status |-> 0, body |-> {}]
  BY DEF Receive, Idle
<1>2. seen' = seen /\ req.pc = "idle"
  BY DEF Receive
<1> QED  BY <1>1, <1>2 DEF ReqInv

LEMMA AuthorizeFields ==
  ASSUME ReqInv, Authorize
  PROVE  /\ ReqInv' /\ req.pc = "authorize" /\ req'.pc = "serve"
         /\ req'.status = req.status /\ req'.body = req.body
         /\ req'.kind = req.kind /\ req'.name = req.name
         /\ req'.allowed = {catalog[n].id : n \in {m \in Names : catalog[m] # Absent}}
<1>1. {r.id : r \in ListRepos} = {catalog[n].id : n \in {m \in Names : catalog[m] # Absent}}
  <2> DEFINE There0 == {m \in Names : catalog[m] # Absent}
             Row0(n) == [id |-> catalog[n].id, name |-> n]
  <2>1. \A n \in There0 : Row0(n) \in ListRepos /\ Row0(n).id = catalog[n].id
    BY DEF ListRepos
  <2>2. \A r \in ListRepos : \E n \in There0 : r = Row0(n)
    BY DEF ListRepos
  <2>3. \A r \in ListRepos : \E n \in There0 : r.id = catalog[n].id
    BY <2>1, <2>2
  <2> HIDE DEF There0, Row0
  <2>4. {r.id : r \in ListRepos} = {catalog[n].id : n \in There0}
    BY <2>1, <2>3
  <2> QED  BY <2>4 DEF There0
<1>2. req' = [pc |-> "serve", kind |-> req.kind, name |-> req.name, arg |-> req.arg,
              seg |-> req.seg, allowed |-> {r.id : r \in ListRepos}, repo |-> req.repo,
              type |-> req.type, status |-> req.status, body |-> req.body]
  BY DEF ReqInv, Authorize
<1> QED  BY <1>1, <1>2 DEF ReqInv, Authorize

\* The two steps of a request that neither answer nor start it.
Resolve ==
  /\ req.pc = "serve" /\ req.kind \in InRepo
  /\ GetRepo(req.name) # Absent /\ GetRepo(req.name).id \in req.allowed
  /\ Continue([req EXCEPT !.pc = "resolved", !.repo = GetRepo(req.name)])
  /\ Stored

ResolveType ==
  /\ Resolved(NeedsType)
  /\ \E t \in resolveType(ListDocTypes(req.repo.id), req.seg) :
       Continue([req EXCEPT !.pc = "typed", !.type = t])
  /\ Stored

LEMMA ResolveFields ==
  ASSUME ReqInv, Resolve
  PROVE  /\ ReqInv' /\ req.pc = "serve" /\ req'.pc = "resolved" /\ req'.repo = catalog[req.name]
         /\ req'.status = req.status /\ req'.body = req.body
         /\ req'.kind = req.kind /\ req'.name = req.name /\ req'.seg = req.seg
         /\ req'.allowed = req.allowed /\ seen' = seen
<1>1. req' = [pc |-> "resolved", kind |-> req.kind, name |-> req.name, arg |-> req.arg,
              seg |-> req.seg, allowed |-> req.allowed, repo |-> catalog[req.name],
              type |-> req.type, status |-> req.status, body |-> req.body]
  BY DEF ReqInv, Resolve, Continue, GetRepo
<1>2. seen' = seen /\ req.pc = "serve"
  BY DEF Resolve, Continue
<1> QED  BY <1>1, <1>2 DEF ReqInv

LEMMA ResolveTypeFields ==
  ASSUME ReqInv, ResolveType
  PROVE  /\ ReqInv' /\ req.pc = "resolved" /\ req'.pc = "typed" /\ req'.repo = req.repo
         /\ req'.type \in resolveType(ListDocTypes(req.repo.id), req.seg)
         /\ req'.status = req.status /\ req'.body = req.body
         /\ req'.kind = req.kind /\ req'.name = req.name /\ req'.seg = req.seg
         /\ req'.allowed = req.allowed /\ seen' = seen
<1>1. PICK t \in resolveType(ListDocTypes(req.repo.id), req.seg) :
        Continue([req EXCEPT !.pc = "typed", !.type = t])
  BY DEF ResolveType
<1>2. req' = [pc |-> "typed", kind |-> req.kind, name |-> req.name, arg |-> req.arg,
              seg |-> req.seg, allowed |-> req.allowed, repo |-> req.repo,
              type |-> t, status |-> req.status, body |-> req.body]
  BY <1>1 DEF ReqInv, Continue
<1> QED  BY <1>1, <1>2 DEF ReqInv, ResolveType, Continue, Resolved

-----------------------------------------------------------------------------
(***************************************************************************)
(* The steps, grouped by what they change.                                 *)
(***************************************************************************)
NoRepo ==
  /\ req.pc = "serve" /\ req.kind \in InRepo
  /\ GetRepo(req.name) = Absent \/ GetRepo(req.name).id \notin req.allowed
  /\ notFound
  /\ Stored

NoType ==
  /\ Resolved(NeedsType)
  /\ resolveType(ListDocTypes(req.repo.id), req.seg) = {}
  /\ notFound
  /\ Stored

Answering ==
  \/ listRepos \/ NoRepo \/ getRepo \/ getRepoIndex \/ getRepoChangelog \/ listRepoPages
  \/ getRepoPage \/ listTypes \/ NoType \/ listDocs \/ getDoc \/ searchDocs \/ serverError

Arriving ==
  \E kind \in InRepo \cup {"repos", "search"} : \E n, arg, seg :
    (kind \in InRepo => n \in Names) /\ Receive(kind, n, arg, seg)

\* The row that a commit leaves.
Committed(n, t) == [id |-> IF catalog[n] = Absent THEN nextId ELSE catalog[n].id, content |-> t]

Replaced(n, row) == Changed([catalog EXCEPT ![n] = row]) /\ UNCHANGED index

Committing ==
  \E n \in Names : \E t \in Contents[n] :
    /\ catalog[n] = Absent => nextId <= MaxId
    /\ nextId' = IF catalog[n] = Absent THEN nextId + 1 ELSE nextId
    /\ Replaced(n, Committed(n, t))

Removing == \E n \in Names : Replaced(n, Absent) /\ nextId' = nextId

Indexing ==
  \/ \E n \in Names : Indexed(n)
  \/ \E r \in index : Purged(r)

LEMMA NextSteps ==
  ASSUME [Next]_vars
  PROVE  \/ UNCHANGED vars \/ Arriving \/ Authorize \/ Resolve \/ ResolveType \/ Answering
         \/ Read \/ Committing \/ Removing \/ Indexing
<1>1. CASE UNCHANGED vars
  BY <1>1
<1>2. CASE Arrive
  <2>1. {"page", "docs", "doc"} \subseteq InRepo
    BY DEF InRepo, NeedsType
  <2>2. {"repos", "search"} \cap InRepo = {}
    BY DEF InRepo, NeedsType, OneRead
  <2>3. CASE \E kind \in {"repos", "search"} : Receive(kind, Absent, Absent, Absent)
    BY <2>2, <2>3 DEF Arriving
  <2>4. CASE \E n \in Names : \E kind \in InRepo \ {"page", "docs", "doc"} :
               Receive(kind, n, Absent, Absent)
    BY <2>4 DEF Arriving
  <2>5. CASE \E n \in Names : \E p \in Paths : Receive("page", n, p, Absent)
    BY <2>1, <2>5 DEF Arriving
  <2>6. CASE \E n \in Names : \E s \in Segments : Receive("docs", n, Absent, s)
    BY <2>1, <2>6 DEF Arriving
  <2>7. CASE \E n \in Names : \E s \in Segments : \E d \in DocIds : Receive("doc", n, d, s)
    BY <2>1, <2>7 DEF Arriving
  <2> QED  BY <1>2, <2>3, <2>4, <2>5, <2>6, <2>7 DEF Arrive
<1>3. CASE Handle
  <2>1. CASE resolveRepo
    BY <2>1 DEF resolveRepo, NoRepo, Resolve, Answering
  <2>2. CASE resolveRepoType
    BY <2>2 DEF resolveRepoType, NoType, ResolveType, Answering
  <2> QED  BY <1>3, <2>1, <2>2 DEF Handle, Answering
<1>4. CASE Read
  BY <1>4
<1>5. ASSUME NEW n \in Names, NEW t \in Contents[n], Commit(n, t)
      PROVE  Committing
  BY <1>5 DEF Commit, Committing, Replaced, Committed
<1>6. ASSUME NEW n \in Names, RemoveRepo(n)
      PROVE  Removing
  BY <1>6 DEF RemoveRepo, Removing, Replaced
<1> QED  BY <1>1, <1>2, <1>3, <1>4, <1>5, <1>6 DEF Next, Indexing

\* Every answer of a handler ends a request that was under way.
LEMMA AnswerShape ==
  ASSUME Answering
  PROVE  /\ Stored /\ req.pc \in {"authorize", "serve", "resolved", "typed"}
         /\ \E status \in {200, 400, 404, 500} : \E body : Answer(status, body)
<1> USE DEF writeJSON, notFound
<1>1. CASE listRepos \/ NoRepo \/ serverError
  BY <1>1 DEF listRepos, NoRepo, serverError
<1>2. CASE searchDocs
  <2>1. Answer(400, {}) \/ \E result : Answer(200, {result})
    BY <1>2 DEF searchDocs
  <2>2. CASE Answer(400, {})
    BY <1>2, <2>2 DEF searchDocs
  <2>3. CASE \E result : Answer(200, {result})
    BY <1>2, <2>3 DEF searchDocs
  <2> QED  BY <2>1, <2>2, <2>3
<1>3. CASE getRepo
  BY <1>3 DEF getRepo, Resolved
<1>4. CASE getRepoIndex \/ getRepoChangelog
  <2>0. Stored /\ req.pc = "resolved"
    BY <1>4 DEF getRepoIndex, getRepoChangelog, Resolved
  <2>1. Answer(404, {}) \/ \E result : Answer(200, {result})
    BY <1>4 DEF getRepoIndex, getRepoChangelog
  <2>2. CASE Answer(404, {})
    BY <2>0, <2>2
  <2>3. CASE \E result : Answer(200, {result})
    BY <2>0, <2>3
  <2> QED  BY <2>1, <2>2, <2>3
<1>5. CASE listRepoPages \/ getRepoPage \/ listTypes \/ NoType
  BY <1>5 DEF listRepoPages, getRepoPage, listTypes, NoType, Resolved
<1>6. CASE listDocs \/ getDoc
  BY <1>6 DEF listDocs, getDoc
<1> QED  BY <1>1, <1>2, <1>3, <1>4, <1>5, <1>6 DEF Answering

-----------------------------------------------------------------------------
(***************************************************************************)
(* The catalogs and the ids.                                               *)
(***************************************************************************)
\* A step that leaves the stored rows alone and sees no new catalog.
LEMMA StoredStep ==
  ASSUME CatalogInv, IdsInv, Stored, Catalogs' \subseteq Catalogs
  PROVE  CatalogInv' /\ IdsInv'
<1>1. catalog' = catalog /\ nextId' = nextId /\ index' = index
  BY DEF Stored
<1>2. CatalogInv'
  BY <1>1 DEF CatalogInv
<1>3. IdsInv'
  BY <1>1 DEF IdsInv, Has
<1> QED  BY <1>2, <1>3

LEMMA ReplacedCatalog ==
  ASSUME NEW n \in Names, NEW row, CatalogInv, Replaced(n, row)
  PROVE  /\ DOMAIN catalog' = Names /\ catalog' = [m \in Names |-> catalog'[m]]
         /\ catalog'[n] = row /\ \A m \in Names : m # n => catalog'[m] = catalog[m]
         /\ Catalogs' \subseteq Catalogs \cup {catalog'}
         /\ index' = index /\ req' = req
         /\ seen' = IF Active THEN seen \cup {catalog'} ELSE seen
  BY DEF CatalogInv, Replaced, Changed, Catalogs, Active

\* Which name has which id is all that IdsInv is about.
LEMMA IdsStep ==
  ASSUME IdsInv, index' \subseteq index,
         \A c \in Catalogs' : \A m \in Names : \A id : Has(c, m, id) =>
           \E d \in Catalogs : Has(d, m, id)
  PROVE  IdsInv'
<1>1. ASSUME NEW c \in Catalogs', NEW d \in Catalogs', NEW m \in Names, NEW k \in Names,
             NEW id \in Ids, Has(c, m, id), Has(d, k, id)
      PROVE  m = k
  <2>1. PICK c1 \in Catalogs, d1 \in Catalogs : Has(c1, m, id) /\ Has(d1, k, id)
    BY <1>1
  <2> QED  BY <2>1 DEF IdsInv
<1>2. ASSUME NEW x \in index', NEW c \in Catalogs', NEW m \in Names, Has(c, m, x.id)
      PROVE  m = x.repo
  <2>1. PICK d \in Catalogs : Has(d, m, x.id)
    BY <1>2
  <2> QED  BY <2>1 DEF IdsInv
<1>3. \A c, d \in Catalogs' : \A m, k \in Names : \A id \in Ids :
        Has(c, m, id) /\ Has(d, k, id) => m = k
  BY <1>1
<1>4. \A x \in index' : \A c \in Catalogs' : \A m \in Names : Has(c, m, x.id) => m = x.repo
  BY <1>2
<1> QED  BY <1>3, <1>4 DEF IdsInv, Has

LEMMA CatalogStep ==
  ASSUME ReqInv, CatalogInv, IdsInv, [Next]_vars
  PROVE  CatalogInv' /\ IdsInv'
<1>0. MaxId \in Nat
  BY ServingAssumption
<1>1. CASE UNCHANGED vars
  BY <1>1, StoredStep DEF vars, Stored, Catalogs
<1>2. CASE Arriving
  <2>1. Stored /\ seen' = seen
    BY <1>2 DEF Arriving, Receive
  <2> QED  BY <2>1, StoredStep DEF Stored, Catalogs
<1>3. CASE Authorize
  BY <1>3, StoredStep DEF Authorize, Stored, Catalogs
<1>4. CASE Resolve \/ ResolveType
  <2>1. Stored /\ seen' = seen
    BY <1>4 DEF Resolve, ResolveType, Continue
  <2> QED  BY <2>1, StoredStep DEF Stored, Catalogs
<1>5. CASE Answering
  <2>1. Stored /\ seen' = seen
    BY <1>5, AnswerShape DEF Answer
  <2> QED  BY <2>1, StoredStep DEF Stored, Catalogs
<1>6. CASE Read
  BY <1>6, StoredStep DEF Read, Stored, Catalogs
<1>7. CASE Removing
  <2>1. PICK n \in Names : Replaced(n, Absent) /\ nextId' = nextId
    BY <1>7 DEF Removing
  <2>2. /\ DOMAIN catalog' = Names /\ catalog' = [m \in Names |-> catalog'[m]]
        /\ catalog'[n] = Absent /\ \A m \in Names : m # n => catalog'[m] = catalog[m]
        /\ Catalogs' \subseteq Catalogs \cup {catalog'} /\ index' = index
    BY <2>1, ReplacedCatalog
  <2>3. catalog \in Catalogs
    BY DEF Catalogs
  <2>4. \A c \in Catalogs' : \A m \in Names : c[m] # Absent =>
          \E d \in Catalogs : d[m] = c[m]
    BY <2>2, <2>3
  <2>5. CatalogInv'
    <3>1. \A c \in Catalogs' : \A m \in Names :
            c[m] # Absent => c[m] \in Row(m) /\ c[m].id < nextId
      BY <2>4 DEF CatalogInv
    <3>2. \A x \in index : x \in [id : Ids, repo : Names] /\ x.id < nextId
      BY DEF CatalogInv
    <3>3. nextId \in 1 .. MaxId + 1
      BY DEF CatalogInv
    <3> QED  BY <2>1, <2>2, <3>1, <3>2, <3>3 DEF CatalogInv
  <2>6. IdsInv'
    <3>1. \A c \in Catalogs' : \A m \in Names : \A id : Has(c, m, id) =>
            \E d \in Catalogs : Has(d, m, id)
      BY <2>4 DEF Has
    <3> QED  BY <2>2, <3>1, IdsStep
  <2> QED  BY <2>5, <2>6
<1>8. CASE Committing
  <2>0. PICK n \in Names : \E t \in Contents[n] :
          /\ catalog[n] = Absent => nextId <= MaxId
          /\ nextId' = IF catalog[n] = Absent THEN nextId + 1 ELSE nextId
          /\ Replaced(n, Committed(n, t))
    BY <1>8 DEF Committing
  <2>1. PICK t \in Contents[n] :
          /\ catalog[n] = Absent => nextId <= MaxId
          /\ nextId' = IF catalog[n] = Absent THEN nextId + 1 ELSE nextId
          /\ Replaced(n, Committed(n, t))
    BY <2>0
  <2> DEFINE row == Committed(n, t)
  <2>2. /\ DOMAIN catalog' = Names /\ catalog' = [m \in Names |-> catalog'[m]]
        /\ catalog'[n] = row /\ \A m \in Names : m # n => catalog'[m] = catalog[m]
        /\ Catalogs' \subseteq Catalogs \cup {catalog'} /\ index' = index
    BY <2>1, ReplacedCatalog
  <2>3. catalog \in Catalogs
    BY DEF Catalogs
  <2>4. /\ nextId \in 1 .. MaxId + 1
        /\ catalog[n] # Absent => catalog[n] \in Row(n) /\ catalog[n].id < nextId
    BY <2>3 DEF CatalogInv
  <2>5. /\ row \in Row(n) /\ row.id < nextId' /\ nextId' \in 1 .. MaxId + 1
        /\ row.id = IF catalog[n] = Absent THEN nextId ELSE catalog[n].id
        /\ nextId <= nextId'
    BY <1>0, <2>1, <2>4 DEF Committed, Row, Ids
  <2> HIDE DEF row
  <2>6. CatalogInv'
    <3>1. \A c \in Catalogs : \A m \in Names :
            c[m] # Absent => c[m] \in Row(m) /\ c[m].id < nextId /\ c[m].id \in Ids
      BY DEF CatalogInv, Row
    <3>2. \A c \in Catalogs : \A m \in Names :
            c[m] # Absent => c[m] \in Row(m) /\ c[m].id < nextId'
      BY <1>0, <2>4, <2>5, <3>1 DEF Ids
    <3>3. \A m \in Names : catalog'[m] # Absent =>
            catalog'[m] \in Row(m) /\ catalog'[m].id < nextId'
      BY <2>2, <2>3, <2>5, <3>2
    <3>4. \A x \in index : x \in [id : Ids, repo : Names] /\ x.id < nextId'
      <4>1. \A x \in index : x \in [id : Ids, repo : Names] /\ x.id < nextId /\ x.id \in Ids
        BY DEF CatalogInv
      <4> QED  BY <1>0, <2>4, <2>5, <4>1 DEF Ids
    <3> QED  BY <2>2, <2>5, <3>2, <3>3, <3>4 DEF CatalogInv
  \* the row has the id its name had, or one no one had
  <2>7. \A c \in Catalogs : \A m \in Names : Has(c, m, row.id) => m = n
    <3>1. CASE catalog[n] = Absent
      <4>1. ASSUME NEW c \in Catalogs, NEW m \in Names, Has(c, m, row.id)
            PROVE  FALSE
        <5>1. c[m].id = nextId /\ c[m].id < nextId
          BY <2>5, <3>1, <4>1 DEF CatalogInv, Has
        <5> QED  BY <1>0, <2>4, <5>1
      <4> QED  BY <4>1
    <3>2. CASE catalog[n] # Absent
      <4>1. Has(catalog, n, row.id) /\ row.id \in Ids
        BY <2>4, <2>5, <3>2 DEF Has, Row
      <4> QED  BY <2>3, <4>1 DEF IdsInv
    <3> QED  BY <3>1, <3>2
  <2>8. \A x \in index : x.id = row.id => x.repo = n
    <3>1. CASE catalog[n] = Absent
      <4>1. ASSUME NEW x \in index, x.id = row.id
            PROVE  FALSE
        <5>1. x.id = nextId /\ x.id < nextId
          BY <2>5, <3>1, <4>1 DEF CatalogInv
        <5> QED  BY <1>0, <2>4, <5>1
      <4> QED  BY <4>1
    <3>2. CASE catalog[n] # Absent
      <4>1. Has(catalog, n, row.id)
        BY <2>5, <3>2 DEF Has
      <4> QED  BY <2>3, <4>1 DEF IdsInv
    <3> QED  BY <3>1, <3>2
  <2>9. \A m \in Names : \A id : Has(catalog', m, id) =>
          (m = n /\ id = row.id) \/ Has(catalog, m, id)
    BY <2>2 DEF Has
  <2>10. \A c \in Catalogs' : \A m \in Names : \A id : Has(c, m, id) =>
           (m = n /\ id = row.id) \/ \E d \in Catalogs : Has(d, m, id)
    BY <2>2, <2>3, <2>9
  <2>11. IdsInv'
    <3>1. ASSUME NEW c \in Catalogs', NEW d \in Catalogs', NEW m \in Names, NEW k \in Names,
                 NEW id \in Ids, Has(c, m, id), Has(d, k, id)
          PROVE  m = k
      <4>1. /\ (m = n /\ id = row.id) \/ \E e \in Catalogs : Has(e, m, id)
            /\ (k = n /\ id = row.id) \/ \E e \in Catalogs : Has(e, k, id)
        BY <2>10, <3>1
      <4> QED  BY <2>7, <4>1 DEF IdsInv
    <3>2. ASSUME NEW x \in index', NEW c \in Catalogs', NEW m \in Names, Has(c, m, x.id)
          PROVE  m = x.repo
      <4>1. (m = n /\ x.id = row.id) \/ \E e \in Catalogs : Has(e, m, x.id)
        BY <2>10, <3>2
      <4> QED  BY <2>2, <2>8, <4>1 DEF IdsInv
    <3>3. \A c, d \in Catalogs' : \A m, k \in Names : \A id \in Ids :
            Has(c, m, id) /\ Has(d, k, id) => m = k
      BY <3>1
    <3>4. \A x \in index' : \A c \in Catalogs' : \A m \in Names : Has(c, m, x.id) => m = x.repo
      BY <3>2
    <3> QED  BY <3>3, <3>4 DEF IdsInv, Has
  <2> QED  BY <2>6, <2>11
<1>9. CASE Indexing
  <2>1. catalog' = catalog /\ nextId' = nextId /\ Catalogs' = Catalogs
    BY <1>9 DEF Indexing, Indexed, Purged, Catalogs
  <2>2. \A x \in index' : x \in index
          \/ \E n \in Names : catalog[n] # Absent /\ x = [id |-> catalog[n].id, repo |-> n]
    BY <1>9 DEF Indexing, Indexed, Purged
  <2>3. catalog \in Catalogs
    BY DEF Catalogs
  <2>4. \A n \in Names : catalog[n] # Absent => catalog[n].id \in Ids /\ catalog[n].id < nextId
    BY <2>3 DEF CatalogInv, Row
  <2>5. CatalogInv'
    <3>1. \A x \in index' : x \in [id : Ids, repo : Names] /\ x.id < nextId
      <4>1. \A n \in Names : catalog[n] # Absent =>
              LET x == [id |-> catalog[n].id, repo |-> n]
              IN  x \in [id : Ids, repo : Names] /\ x.id < nextId
        BY <2>4
      <4>2. \A x \in index : x \in [id : Ids, repo : Names] /\ x.id < nextId
        BY DEF CatalogInv
      <4> QED  BY <2>2, <4>1, <4>2
    <3> QED  BY <2>1, <3>1 DEF CatalogInv
  <2>6. IdsInv'
    <3>1. ASSUME NEW x \in index', NEW c \in Catalogs, NEW m \in Names, Has(c, m, x.id)
          PROVE  m = x.repo
      <4>1. CASE x \in index
        BY <3>1, <4>1 DEF IdsInv
      <4>2. ASSUME NEW n \in Names, catalog[n] # Absent, x = [id |-> catalog[n].id, repo |-> n]
            PROVE  m = x.repo
        <5>1. Has(catalog, n, x.id) /\ x.id \in Ids /\ x.repo = n
          BY <2>4, <4>2 DEF Has
        <5> QED  BY <2>3, <3>1, <5>1 DEF IdsInv
      <4> QED  BY <2>2, <4>1, <4>2
    <3> QED  BY <2>1, <3>1 DEF IdsInv, Has
  <2> QED  BY <2>5, <2>6
<1> QED  BY <1>1, <1>2, <1>3, <1>4, <1>5, <1>6, <1>7, <1>8, <1>9, NextSteps

-----------------------------------------------------------------------------
(***************************************************************************)
(* What a request knows of the repositories while they change.             *)
(***************************************************************************)
\* A row replaced by one of the same id, by none, or by one of an id nobody had.
LEMMA ReplacedWatch ==
  ASSUME NEW n \in Names, NEW row, CatalogInv, WatchInv, Replaced(n, row),
         nextId' \in Nat, nextId <= nextId',
         row # Absent => \/ catalog[n] # Absent /\ row.id = catalog[n].id
                         \/ catalog[n] = Absent /\ row.id = nextId
  PROVE  WatchInv'
<1> SUFFICES ASSUME Active'
             PROVE  WatchInv'
  BY DEF WatchInv
<1>0. MaxId \in Nat
  BY ServingAssumption
<1>1. /\ catalog'[n] = row /\ \A m \in Names : m # n => catalog'[m] = catalog[m]
      /\ req' = req /\ seen' = IF Active THEN seen \cup {catalog'} ELSE seen
  BY ReplacedCatalog
<1>2. Active
  BY <1>1 DEF Active
<1>3. /\ catalog \in seen
      /\ \A id \in req.allowed : id \in Ids /\ id < nextId
      /\ \E c \in seen : req.allowed = {c[m].id : m \in {k \in Names : c[k] # Absent}}
  BY <1>2 DEF WatchInv
<1>4. \A m \in Names : catalog[m] # Absent /\ catalog[m].id \in req.allowed =>
        \A c \in seen : Has(c, m, catalog[m].id)
  BY <1>2 DEF WatchInv
<1>5. \A m \in Names : catalog[m] # Absent /\ catalog[m].id \notin req.allowed =>
        \E c \in seen : c[m] = Absent
  BY <1>2 DEF WatchInv
<1>6. nextId \in Nat
  BY <1>0 DEF CatalogInv
<1>7. nextId \notin req.allowed
  BY <1>3, <1>6
<1>8. seen' = seen \cup {catalog'}
  BY <1>1, <1>2
<1>9. \A id \in req.allowed : id \in Ids /\ id < nextId'
  BY <1>0, <1>3, <1>6 DEF Ids
<1>10. ASSUME NEW m \in Names, catalog'[m] # Absent, catalog'[m].id \in req.allowed
       PROVE  \A c \in seen' : Has(c, m, catalog'[m].id)
  <2>1. catalog[m] # Absent /\ catalog'[m].id = catalog[m].id
    BY <1>1, <1>7, <1>10
  <2>2. \A c \in seen : Has(c, m, catalog[m].id)
    BY <1>4, <1>10, <2>1
  <2> QED  BY <1>8, <1>10, <2>1, <2>2 DEF Has
<1>11. ASSUME NEW m \in Names, catalog'[m] # Absent, catalog'[m].id \notin req.allowed
       PROVE  \E c \in seen' : c[m] = Absent
  BY <1>1, <1>3, <1>5, <1>8, <1>11
<1>12. \E c \in seen' : req.allowed = {c[m].id : m \in {k \in Names : c[k] # Absent}}
  BY <1>3, <1>8
<1>13. catalog' \in seen'
  BY <1>8
<1>14. req'.allowed = req.allowed
  BY <1>1
<1>15. \A m \in Names : catalog'[m] # Absent /\ catalog'[m].id \in req.allowed =>
         \A c \in seen' : Has(c, m, catalog'[m].id)
  BY <1>10
<1> QED  BY <1>9, <1>11, <1>12, <1>13, <1>14, <1>15 DEF WatchInv, Has

LEMMA WatchStep ==
  ASSUME ReqInv, CatalogInv, WatchInv, ReadInv, [Next]_vars
  PROVE  WatchInv'
<1>0. MaxId \in Nat
  BY ServingAssumption
<1>1. CASE UNCHANGED vars \/ Indexing
  <2>1. UNCHANGED <<catalog, nextId, req, seen>>
    BY <1>1 DEF vars, Indexing, Indexed, Purged
  <2> QED  BY <2>1 DEF WatchInv, Active, Has
<1>2. CASE Arriving \/ Answering \/ Read
  <2>1. req'.pc \in {"authorize", "answered", "idle"}
    <3>1. CASE Arriving
      BY <3>1, ReceiveFields DEF Arriving
    <3>2. CASE Answering
      BY <3>2, AnswerShape, AnswerFields
    <3>3. CASE Read
      BY <3>3 DEF Read, Idle
    <3> QED  BY <1>2, <3>1, <3>2, <3>3
  <2> QED  BY <2>1 DEF WatchInv, Active
<1>3. CASE Authorize
  <2>1. catalog' = catalog /\ nextId' = nextId /\ seen' = {catalog}
    BY <1>3 DEF Authorize, Stored
  <2>2. req'.allowed = {catalog[n].id : n \in {m \in Names : catalog[m] # Absent}}
    BY <1>3, AuthorizeFields
  <2>3. \A n \in Names : catalog[n] # Absent => catalog[n].id \in Ids /\ catalog[n].id < nextId
    BY DEF CatalogInv, Catalogs, Row
  <2>4. \A id \in req'.allowed : id \in Ids /\ id < nextId
    BY <2>2, <2>3
  <2>5. \A n \in Names : catalog[n] # Absent => catalog[n].id \in req'.allowed
    BY <2>2
  <2> QED  BY <2>1, <2>2, <2>4, <2>5 DEF WatchInv, Has
<1>4. CASE Resolve \/ ResolveType
  <2>1. catalog' = catalog /\ nextId' = nextId
    BY <1>4 DEF Resolve, ResolveType, Stored
  <2>2. seen' = seen /\ req'.allowed = req.allowed /\ Active
    BY <1>4, ResolveFields, ResolveTypeFields DEF Active
  <2> QED  BY <2>1, <2>2 DEF WatchInv, Has
<1>5. CASE Removing
  <2>1. PICK n \in Names : Replaced(n, Absent) /\ nextId' = nextId
    BY <1>5 DEF Removing
  <2>2. nextId \in Nat
    BY <1>0 DEF CatalogInv
  <2> QED  BY <2>1, <2>2, ReplacedWatch
<1>6. CASE Committing
  <2>1. PICK n \in Names : \E t \in Contents[n] :
          /\ nextId' = IF catalog[n] = Absent THEN nextId + 1 ELSE nextId
          /\ Replaced(n, Committed(n, t))
    BY <1>6 DEF Committing
  <2>2. PICK t \in Contents[n] :
          /\ nextId' = IF catalog[n] = Absent THEN nextId + 1 ELSE nextId
          /\ Replaced(n, Committed(n, t))
    BY <2>1
  <2>3. nextId \in Nat
    BY <1>0 DEF CatalogInv
  <2>4. nextId' \in Nat /\ nextId <= nextId'
    BY <2>2, <2>3
  <2>5. Committed(n, t).id = IF catalog[n] = Absent THEN nextId ELSE catalog[n].id
    BY DEF Committed
  <2> QED  BY <2>2, <2>4, <2>5, ReplacedWatch
<1> QED  BY <1>1, <1>2, <1>3, <1>4, <1>5, <1>6, NextSteps

-----------------------------------------------------------------------------
(***************************************************************************)
(* What a request has read.                                                *)
(***************************************************************************)
\* The rows that reference an id are those of the one repository that has it.
LEMMA TablesOne ==
  ASSUME NEW n \in Names, NEW id \in Ids, NEW c \in Catalogs, NEW d \in Catalogs,
         IdsInv, Has(c, n, id)
  PROVE  /\ Has(d, n, id) => Tables(d, id) = {d[n].content}
         /\ ~Has(d, n, id) => Tables(d, id) = {}
<1>1. \A m \in Names : Has(d, m, id) => m = n
  BY DEF IdsInv
<1> QED  BY <1>1 DEF Tables, Has

\* The doc types of the repository the request resolved, if it is still there.
LEMMA TypesRead ==
  ASSUME CatalogInv, IdsInv, WatchInv, ReadInv, req.pc \in {"resolved", "typed"}
  PROVE  \/ Has(catalog, req.name, req.repo.id) /\ ListDocTypes(req.repo.id) = TypesOf(catalog, req.name)
         \/ ~Has(catalog, req.name, req.repo.id) /\ ListDocTypes(req.repo.id) = {}
<1>1. PICK c \in seen : c[req.name] = req.repo
  BY DEF ReadInv
<1>2. req.name \in Names /\ req.repo # Absent /\ req.repo.id \in Ids
  BY DEF ReadInv, WatchInv, Active
<1>3. c \in Catalogs /\ catalog \in Catalogs /\ Has(c, req.name, req.repo.id)
  BY <1>1, <1>2 DEF Catalogs, Has
<1>4. CASE Has(catalog, req.name, req.repo.id)
  <2>1. Tables(catalog, req.repo.id) = {catalog[req.name].content}
    BY <1>2, <1>3, <1>4, TablesOne
  <2>2. There(catalog, req.name) = {catalog[req.name]}
    BY <1>4 DEF There, Has
  <2>3. ListDocTypes(req.repo.id) = catalog[req.name].content.types
    BY <2>1 DEF ListDocTypes
  <2>4. TypesOf(catalog, req.name) = catalog[req.name].content.types
    BY <2>2 DEF TypesOf
  <2> QED  BY <1>4, <2>3, <2>4
<1>5. CASE ~Has(catalog, req.name, req.repo.id)
  <2>1. Tables(catalog, req.repo.id) = {}
    BY <1>2, <1>3, <1>5, TablesOne
  <2> QED  BY <1>5, <2>1 DEF ListDocTypes
<1> QED  BY <1>4, <1>5

LEMMA ReadStep ==
  ASSUME ReqInv, CatalogInv, IdsInv, WatchInv, ReadInv, [Next]_vars
  PROVE  ReadInv'
<1>1. CASE UNCHANGED vars \/ Indexing
  <2>1. UNCHANGED <<req, seen>>
    BY <1>1 DEF vars, Indexing, Indexed, Purged
  <2> QED  BY <2>1 DEF ReadInv
<1>2. CASE Committing \/ Removing
  <2>1. req' = req /\ seen \subseteq seen'
    BY <1>2 DEF Committing, Removing, Replaced, Changed
  <2>2. /\ req.pc # "idle" /\ req.kind \in InRepo => req.name \in Names
        /\ req.pc \in {"resolved", "typed"} =>
             req.kind \in InRepo /\ req.repo # Absent /\ req.repo.id \in req.allowed
    BY DEF ReadInv
  <2>3. req.pc \in {"resolved", "typed"} => \E c \in seen' : c[req.name] = req.repo
    BY <2>1 DEF ReadInv
  <2>4. req.pc = "typed" => \E c \in seen' : req.type \in resolveType(TypesOf(c, req.name), req.seg)
    BY <2>1 DEF ReadInv
  <2> QED  BY <2>1, <2>2, <2>3, <2>4 DEF ReadInv
<1>3. CASE Arriving
  BY <1>3, ReceiveFields DEF Arriving, ReadInv
<1>4. CASE Answering
  <2>1. req.pc \in {"authorize", "serve", "resolved", "typed"}
    BY <1>4, AnswerShape
  <2>2. req'.pc = "answered" /\ req'.kind = req.kind /\ req'.name = req.name
    BY <1>4, AnswerShape, AnswerFields
  <2> QED  BY <2>1, <2>2 DEF ReadInv
<1>5. CASE Read
  BY <1>5 DEF Read, ReadInv, Idle
<1>6. CASE Authorize
  BY <1>6, AuthorizeFields DEF ReadInv
<1>7. CASE Resolve
  <2>1. catalog \in seen /\ req.kind \in InRepo /\ req.name \in Names
    BY <1>7 DEF Resolve, WatchInv, Active, ReadInv
  <2>2. catalog[req.name] # Absent /\ catalog[req.name].id \in req.allowed
    BY <1>7 DEF Resolve, GetRepo
  <2>3. /\ req'.pc = "resolved" /\ req'.repo = catalog[req.name] /\ req'.kind = req.kind
        /\ req'.name = req.name /\ req'.allowed = req.allowed /\ seen' = seen
    BY <1>7, ResolveFields
  <2> QED  BY <2>1, <2>2, <2>3 DEF ReadInv
<1>8. CASE ResolveType
  <2>1. /\ req.pc = "resolved" /\ req'.pc = "typed" /\ req'.repo = req.repo
        /\ req'.type \in resolveType(ListDocTypes(req.repo.id), req.seg)
        /\ req'.kind = req.kind /\ req'.name = req.name /\ req'.seg = req.seg
        /\ req'.allowed = req.allowed /\ seen' = seen
    BY <1>8, ResolveTypeFields
  <2>2. resolveType({}, req.seg) = {}
    BY DEF resolveType
  <2>3. catalog \in seen
    BY <2>1 DEF WatchInv, Active
  <2>4. ListDocTypes(req.repo.id) = TypesOf(catalog, req.name)
    BY <2>1, <2>2, TypesRead
  <2>5. \E c \in seen : req'.type \in resolveType(TypesOf(c, req.name), req.seg)
    BY <2>1, <2>3, <2>4
  <2>6. /\ req.kind \in InRepo /\ req.name \in Names /\ req.repo # Absent
        /\ req.repo.id \in req.allowed /\ \E c \in seen : c[req.name] = req.repo
    BY <2>1 DEF ReadInv
  <2> QED  BY <2>1, <2>5, <2>6 DEF ReadInv
<1> QED  BY <1>1, <1>2, <1>3, <1>4, <1>5, <1>6, <1>7, <1>8, NextSteps

-----------------------------------------------------------------------------
(***************************************************************************)
(* The answers.                                                            *)
(***************************************************************************)
OneBody ==
  req.status = 200 /\ req.kind \in {"doc", "page", "repo"} \cup OneRead => Cardinality(req.body) = 1

Responses == MissWasTrue /\ AnswerWasServed /\ RepoListIsStable /\ SearchIsScoped /\ OneBody

\* The parts of a request the properties speak of, as parameters.
MissingAt(kind, name, arg, seg, c, d) ==
  \/ There(d, name) = {}
  \/ kind = "index" /\ \A r \in There(d, name) : r.content.index = "no file"
  \/ kind = "changelog" /\ \A r \in There(d, name) : ~r.content.changelog
  \/ kind = "page" /\ \A r \in PagesOf(d, name) : r.path # arg
  \/ kind \in NeedsType /\ resolveType(TypesOf(c, name), seg) = {}
  \/ /\ kind = "doc"
     /\ \E t \in resolveType(TypesOf(c, name), seg) :
          [doc |-> arg, type |-> t] \notin
            {[doc |-> r.doc, type |-> r.type] : r \in DocsOf(d, name)}

ServedAt(kind, name, seg, body, c, d) ==
  CASE kind = "repo" ->
         \E b \in body, r \in There(c, name) :
           /\ b.id = r.id /\ b.index = r.content.index
           /\ b.types \in {TypesOf(d, name), {}}
    [] kind = "index" ->
         body = {[id |-> r.id, index |-> r.content.index] : r \in There(c, name)}
    [] kind = "changelog" -> \E r \in There(c, name) : r.content.changelog
    [] kind \in {"pages", "page"} -> body \subseteq PagesOf(c, name)
    [] kind = "types" -> body \subseteq TypesOf(c, name)
    [] kind \in NeedsType ->
         /\ body \subseteq DocsOf(d, name)
         /\ \E t \in resolveType(TypesOf(c, name), seg) : \A r \in body : r.type = t

MissForm ==
  Answered(404) =>
    IF req.kind = "doc" THEN \E c, d \in seen : MissingAt(req.kind, req.name, req.arg, req.seg, c, d)
                        ELSE \E c \in seen : MissingAt(req.kind, req.name, req.arg, req.seg, c, c)

ServedForm ==
  Answered(200) /\ req.kind \in InRepo =>
    \E c, d \in seen : ServedAt(req.kind, req.name, req.seg, req.body, c, d)

LEMMA MissParts == MissWasTrue <=> MissForm
BY DEF MissWasTrue, MissForm, MissingIn, MissingAt

LEMMA ServedParts == AnswerWasServed <=> ServedForm
BY DEF AnswerWasServed, ServedForm, ServedAt

\* The properties are about answers, and an answer is about the catalogs seen.
LEMMA ResponsesKept ==
  ASSUME Responses, OneBody',
         req'.pc # "answered" \/ UNCHANGED <<req, seen>>
  PROVE  Responses'
<1>1. CASE req'.pc # "answered"
  BY <1>1 DEF Responses, MissWasTrue, AnswerWasServed, RepoListIsStable, SearchIsScoped, Answered
<1>2. CASE UNCHANGED <<req, seen>>
  <2>1. MissForm /\ ServedForm
    BY MissParts, ServedParts DEF Responses
  <2>2. MissForm' /\ ServedForm'
    BY <1>2, <2>1 DEF MissForm, ServedForm, Answered
  <2>3. MissWasTrue' /\ AnswerWasServed'
    BY <2>2, MissParts, ServedParts, PTL
  <2>4. RepoListIsStable' /\ SearchIsScoped'
    BY <1>2 DEF Responses, RepoListIsStable, SearchIsScoped, Answered
  <2> QED  BY <2>3, <2>4 DEF Responses
<1> QED  BY <1>1, <1>2

LEMMA MissResponses ==
  ASSUME ReqInv, notFound,
         IF req.kind = "doc"
         THEN \E c, d \in seen : MissingAt(req.kind, req.name, req.arg, req.seg, c, d)
         ELSE \E c \in seen : MissingAt(req.kind, req.name, req.arg, req.seg, c, c)
  PROVE  Responses'
<1>1. /\ req'.pc = "answered" /\ req'.status = 404 /\ req'.kind = req.kind
      /\ req'.name = req.name /\ req'.arg = req.arg /\ req'.seg = req.seg /\ seen' = seen
  BY AnswerFields DEF notFound
<1>2. MissForm'
  BY <1>1 DEF MissForm
<1>3. MissWasTrue'
  BY <1>2, MissParts, PTL
<1>4. ~Answered(200)' /\ req'.status # 200
  BY <1>1 DEF Answered
<1> QED  BY <1>3, <1>4 DEF Responses, AnswerWasServed, RepoListIsStable, SearchIsScoped, OneBody

LEMMA ErrorResponses ==
  ASSUME ReqInv, NEW status \in {400, 500}, Answer(status, {})
  PROVE  Responses'
<1>1. req'.status \in {400, 500}
  BY AnswerFields
<1>2. ~Answered(200)' /\ ~Answered(404)' /\ req'.status # 200
  BY <1>1 DEF Answered
<1> QED  BY <1>2 DEF Responses, MissWasTrue, AnswerWasServed, RepoListIsStable, SearchIsScoped, OneBody

LEMMA ServedResponses ==
  ASSUME ReqInv, NEW body, writeJSON(body), req.kind \in InRepo,
         \E c, d \in seen : ServedAt(req.kind, req.name, req.seg, body, c, d),
         req.kind \in {"doc", "page", "repo"} \cup OneRead => Cardinality(body) = 1
  PROVE  Responses'
<1>1. /\ req'.status = 200 /\ req'.kind = req.kind /\ req'.body = body
      /\ req'.name = req.name /\ req'.seg = req.seg /\ seen' = seen
  BY AnswerFields DEF writeJSON
<1>2. req.kind \notin {"repos", "search"}
  BY DEF InRepo, NeedsType, OneRead
<1>3. ServedForm'
  BY <1>1 DEF ServedForm
<1>4. AnswerWasServed'
  BY <1>3, ServedParts, PTL
<1> QED  BY <1>1, <1>2, <1>4 DEF Responses, MissWasTrue, RepoListIsStable, SearchIsScoped,
                                 Answered, OneBody

\* A repository that lost the id the request resolved was away at some instant.
LEMMA Gone ==
  ASSUME CatalogInv, WatchInv, ReadInv, req.pc \in {"resolved", "typed"},
         ~Has(catalog, req.name, req.repo.id)
  PROVE  \E c \in seen : There(c, req.name) = {}
<1>1. PICK c \in seen : c[req.name] = req.repo
  BY DEF ReadInv
<1>2. req.name \in Names /\ req.repo # Absent /\ Active
  BY DEF ReadInv, Active
<1>3. catalog \in seen
  BY <1>2 DEF WatchInv
<1>4. CASE catalog[req.name] = Absent
  BY <1>3, <1>4 DEF There
<1>5. CASE catalog[req.name] # Absent
  <2>1. catalog[req.name].id # req.repo.id
    BY <1>5 DEF Has
  <2>2. catalog[req.name].id \notin req.allowed
    BY <1>1, <1>2, <1>5, <2>1 DEF WatchInv, Has
  <2>3. \E d \in seen : d[req.name] = Absent
    BY <1>2, <1>5, <2>2 DEF WatchInv
  <2> QED  BY <2>3 DEF There
<1> QED  BY <1>4, <1>5

\* The documents and the pages that the request reads by the id it resolved are those
\* of its name, or none.
LEMMA RowsRead ==
  ASSUME CatalogInv, IdsInv, WatchInv, ReadInv, req.pc \in {"resolved", "typed"}
  PROVE  \/ /\ Has(catalog, req.name, req.repo.id)
            /\ Documents(catalog, req.repo.id) = DocsOf(catalog, req.name)
            /\ Pages(catalog, req.repo.id) = PagesOf(catalog, req.name)
            /\ \E t : Tables(catalog, req.repo.id) = {t}
         \/ /\ ~Has(catalog, req.name, req.repo.id)
            /\ Documents(catalog, req.repo.id) = {} /\ Pages(catalog, req.repo.id) = {}
<1>1. PICK c \in seen : c[req.name] = req.repo
  BY DEF ReadInv
<1>2. req.name \in Names /\ req.repo # Absent /\ req.repo.id \in Ids
  BY DEF ReadInv, WatchInv, Active
<1>3. c \in Catalogs /\ catalog \in Catalogs /\ Has(c, req.name, req.repo.id)
  BY <1>1, <1>2 DEF Catalogs, Has
<1>4. CASE Has(catalog, req.name, req.repo.id)
  <2>1. Tables(catalog, req.repo.id) = {catalog[req.name].content}
    BY <1>2, <1>3, <1>4, TablesOne
  <2>2. There(catalog, req.name) = {catalog[req.name]} /\ catalog[req.name].id = req.repo.id
    BY <1>4 DEF There, Has
  <2>3. DocsOf(catalog, req.name) = UNION {Documents(catalog, req.repo.id)}
    BY <2>2 DEF DocsOf
  <2>4. PagesOf(catalog, req.name) = UNION {Pages(catalog, req.repo.id)}
    BY <2>2 DEF PagesOf
  <2> QED  BY <1>4, <2>1, <2>3, <2>4
<1>5. CASE ~Has(catalog, req.name, req.repo.id)
  <2>1. Tables(catalog, req.repo.id) = {}
    BY <1>2, <1>3, <1>5, TablesOne
  <2> QED  BY <1>5, <2>1 DEF Documents, Pages
<1> QED  BY <1>4, <1>5

LEMMA NoRepoOK ==
  ASSUME ReqInv, WatchInv, ReadInv, NoRepo
  PROVE  Responses'
<1>1. catalog \in seen /\ req.name \in Names
  BY DEF NoRepo, WatchInv, Active, ReadInv
<1>2. \E c \in seen : c[req.name] = Absent
  BY <1>1 DEF NoRepo, GetRepo, WatchInv, Active
<1>3. \E c \in seen : MissingAt(req.kind, req.name, req.arg, req.seg, c, c)
  BY <1>2 DEF MissingAt, There
<1> QED  BY <1>3, MissResponses DEF NoRepo

LEMMA GetRepoOK ==
  ASSUME ReqInv, CatalogInv, IdsInv, WatchInv, ReadInv, getRepo
  PROVE  Responses'
<1> DEFINE b == toRepoDetail(req.repo, ListDocTypes(req.repo.id))
<1>1. req.pc = "resolved" /\ req.kind = "repo" /\ writeJSON({b})
  BY DEF getRepo, Resolved
<1>2. PICK c \in seen : c[req.name] = req.repo
  BY <1>1 DEF ReadInv
<1>3. catalog \in seen /\ req.repo # Absent
  BY <1>1 DEF WatchInv, Active, ReadInv
<1>4. There(c, req.name) = {req.repo}
  BY <1>2, <1>3 DEF There
<1>5. b.types \in {TypesOf(catalog, req.name), {}}
  BY <1>1, TypesRead DEF toRepoDetail
<1>6. b.id = req.repo.id /\ b.index = req.repo.content.index
  BY DEF toRepoDetail
<1> HIDE DEF b
<1>7. ServedAt(req.kind, req.name, req.seg, {b}, c, catalog)
  BY <1>1, <1>4, <1>5, <1>6 DEF ServedAt, NeedsType
<1>8. Cardinality({b}) = 1
  BY FS_Singleton
<1> QED  BY <1>1, <1>2, <1>3, <1>7, <1>8, ServedResponses DEF InRepo

LEMMA GetRepoIndexOK ==
  ASSUME ReqInv, WatchInv, ReadInv, getRepoIndex
  PROVE  Responses'
<1>1. req.pc = "resolved" /\ req.kind = "index"
  BY DEF getRepoIndex, Resolved
<1>2. PICK c \in seen : c[req.name] = req.repo
  BY <1>1 DEF ReadInv
<1>3. There(c, req.name) = {req.repo}
  BY <1>1, <1>2 DEF There, ReadInv
<1>4. CASE req.repo.content.index = "no file"
  <2>1. notFound
    BY <1>4 DEF getRepoIndex
  <2>2. MissingAt(req.kind, req.name, req.arg, req.seg, c, c)
    BY <1>1, <1>3, <1>4 DEF MissingAt
  <2> QED  BY <1>1, <1>2, <2>1, <2>2, MissResponses
<1>5. CASE req.repo.content.index # "no file"
  <2>1. writeJSON({toRepoIndex(req.repo)})
    BY <1>5 DEF getRepoIndex
  <2>2. {[id |-> r.id, index |-> r.content.index] : r \in There(c, req.name)}
          = {toRepoIndex(req.repo)}
    BY <1>3 DEF toRepoIndex
  <2>3. ServedAt(req.kind, req.name, req.seg, {toRepoIndex(req.repo)}, c, c)
    BY <1>1, <2>2 DEF ServedAt, NeedsType
  <2>4. Cardinality({toRepoIndex(req.repo)}) = 1
    BY FS_Singleton
  <2> QED  BY <1>1, <1>2, <2>1, <2>3, <2>4, ServedResponses DEF InRepo, OneRead
<1> QED  BY <1>4, <1>5

LEMMA GetRepoChangelogOK ==
  ASSUME ReqInv, WatchInv, ReadInv, getRepoChangelog
  PROVE  Responses'
<1>1. req.pc = "resolved" /\ req.kind = "changelog"
  BY DEF getRepoChangelog, Resolved
<1>2. PICK c \in seen : c[req.name] = req.repo
  BY <1>1 DEF ReadInv
<1>3. There(c, req.name) = {req.repo}
  BY <1>1, <1>2 DEF There, ReadInv
<1>4. CASE ~req.repo.content.changelog
  <2>1. notFound
    BY <1>4 DEF getRepoChangelog
  <2>2. MissingAt(req.kind, req.name, req.arg, req.seg, c, c)
    BY <1>1, <1>3, <1>4 DEF MissingAt
  <2> QED  BY <1>1, <1>2, <2>1, <2>2, MissResponses
<1>5. CASE req.repo.content.changelog
  <2>1. writeJSON({toRepoChangelog(req.repo)})
    BY <1>5 DEF getRepoChangelog
  <2>2. ServedAt(req.kind, req.name, req.seg, {toRepoChangelog(req.repo)}, c, c)
    BY <1>1, <1>3, <1>5 DEF ServedAt, NeedsType
  <2>3. Cardinality({toRepoChangelog(req.repo)}) = 1
    BY FS_Singleton
  <2> QED  BY <1>1, <1>2, <2>1, <2>2, <2>3, ServedResponses DEF InRepo, OneRead
<1> QED  BY <1>4, <1>5

LEMMA ListRepoPagesOK ==
  ASSUME ReqInv, CatalogInv, IdsInv, WatchInv, ReadInv, listRepoPages
  PROVE  Responses'
<1> DEFINE rows == Pages(catalog, req.repo.id)
<1>1. req.pc = "resolved" /\ req.kind = "pages" /\ writeJSON(rows)
  BY DEF listRepoPages, Resolved
<1>2. catalog \in seen
  BY <1>1 DEF WatchInv, Active
<1>3. rows \subseteq PagesOf(catalog, req.name)
  BY <1>1, RowsRead
<1> HIDE DEF rows
<1>4. ServedAt(req.kind, req.name, req.seg, rows, catalog, catalog)
  BY <1>1, <1>3 DEF ServedAt, NeedsType
<1> QED  BY <1>1, <1>2, <1>4, ServedResponses DEF InRepo, OneRead

LEMMA ListTypesOK ==
  ASSUME ReqInv, CatalogInv, IdsInv, WatchInv, ReadInv, listTypes
  PROVE  Responses'
<1> DEFINE rows == ListDocTypes(req.repo.id)
<1>1. req.pc = "resolved" /\ req.kind = "types" /\ writeJSON(rows)
  BY DEF listTypes, Resolved
<1>2. catalog \in seen
  BY <1>1 DEF WatchInv, Active
<1>3. rows \subseteq TypesOf(catalog, req.name)
  BY <1>1, TypesRead
<1> HIDE DEF rows
<1>4. ServedAt(req.kind, req.name, req.seg, rows, catalog, catalog)
  BY <1>1, <1>3 DEF ServedAt, NeedsType
<1> QED  BY <1>1, <1>2, <1>4, ServedResponses DEF InRepo, OneRead

LEMMA NoTypeOK ==
  ASSUME ReqInv, CatalogInv, IdsInv, WatchInv, ReadInv, NoType
  PROVE  Responses'
<1>1. /\ req.pc = "resolved" /\ req.kind \in NeedsType /\ notFound
      /\ resolveType(ListDocTypes(req.repo.id), req.seg) = {}
  BY DEF NoType, Resolved
<1>2. catalog \in seen
  BY <1>1 DEF WatchInv, Active
<1>3. \E c \in seen : MissingAt(req.kind, req.name, req.arg, req.seg, c, c)
  <2>1. CASE ~Has(catalog, req.name, req.repo.id)
    BY <1>1, <2>1, Gone DEF MissingAt
  <2>2. CASE ListDocTypes(req.repo.id) = TypesOf(catalog, req.name)
    BY <1>1, <1>2, <2>2 DEF MissingAt
  <2> QED  BY <1>1, <2>1, <2>2, TypesRead
<1> QED  BY <1>1, <1>3, MissResponses

LEMMA GetRepoPageOK ==
  ASSUME ReqInv, CatalogInv, IdsInv, WatchInv, ReadInv, getRepoPage
  PROVE  Responses'
<1> DEFINE rows == GetRepoPageByPath(req.repo.id, req.arg)
<1>1. /\ req.pc = "resolved" /\ req.kind = "page"
      /\ IF req.arg \notin Valid \/ rows = {} THEN notFound ELSE writeJSON(rows)
  BY DEF getRepoPage, Resolved
<1>2. catalog \in seen
  BY <1>1 DEF WatchInv, Active
<1>3. \A c, id : \A r \in Pages(c, id) : r.path \in Valid
  BY DEF Pages
<1>4. CASE req.arg \notin Valid \/ rows = {}
  <2>1. CASE ~Has(catalog, req.name, req.repo.id)
    <3>1. \E c \in seen : MissingAt(req.kind, req.name, req.arg, req.seg, c, c)
      BY <1>1, <2>1, Gone DEF MissingAt
    <3> QED  BY <1>1, <1>4, <3>1, MissResponses
  <2>2. CASE Has(catalog, req.name, req.repo.id)
    <3>1. PagesOf(catalog, req.name) = Pages(catalog, req.repo.id)
      BY <1>1, <2>2, RowsRead
    <3>2. \A r \in PagesOf(catalog, req.name) : r.path # req.arg
      BY <1>3, <1>4, <3>1 DEF GetRepoPageByPath
    <3>3. MissingAt(req.kind, req.name, req.arg, req.seg, catalog, catalog)
      BY <1>1, <3>2 DEF MissingAt
    <3> QED  BY <1>1, <1>2, <1>4, <3>3, MissResponses
  <2> QED  BY <2>1, <2>2
<1>5. CASE req.arg \in Valid /\ rows # {}
  <2>1. rows \subseteq Pages(catalog, req.repo.id)
    BY DEF GetRepoPageByPath
  <2>2. /\ rows \subseteq PagesOf(catalog, req.name)
        /\ \E t : Tables(catalog, req.repo.id) = {t}
    BY <1>1, <1>5, <2>1, RowsRead
  <2>3. PICK t : Tables(catalog, req.repo.id) = {t}
    BY <2>2
  <2>4. \A r \in rows : r = [path |-> req.arg, rev |-> t.pages[req.arg]]
    BY <2>3 DEF GetRepoPageByPath, Pages
  <2>5. rows = {[path |-> req.arg, rev |-> t.pages[req.arg]]}
    BY <1>5, <2>4
  <2>6. Cardinality(rows) = 1
    BY <2>5, FS_Singleton
  <2> HIDE DEF rows
  <2>7. ServedAt(req.kind, req.name, req.seg, rows, catalog, catalog)
    BY <1>1, <2>2 DEF ServedAt, NeedsType
  <2> QED  BY <1>1, <1>2, <1>5, <2>6, <2>7, ServedResponses DEF InRepo, OneRead
<1> QED  BY <1>4, <1>5

LEMMA ListDocsOK ==
  ASSUME ReqInv, CatalogInv, IdsInv, WatchInv, ReadInv, listDocs
  PROVE  Responses'
<1> DEFINE rows == ListDocumentsByType(req.repo.id, req.type)
<1>1. req.pc = "typed" /\ req.kind = "docs" /\ writeJSON(rows)
  BY DEF listDocs
<1>2. catalog \in seen
  BY <1>1 DEF WatchInv, Active
<1>3. PICK c \in seen : req.type \in resolveType(TypesOf(c, req.name), req.seg)
  BY <1>1 DEF ReadInv
<1>4. rows \subseteq Documents(catalog, req.repo.id) /\ \A r \in rows : r.type = req.type
  BY DEF ListDocumentsByType
<1>5. rows \subseteq DocsOf(catalog, req.name)
  BY <1>1, <1>4, RowsRead
<1> HIDE DEF rows
<1>6. ServedAt(req.kind, req.name, req.seg, rows, c, catalog)
  BY <1>1, <1>3, <1>4, <1>5 DEF ServedAt, NeedsType
<1> QED  BY <1>1, <1>2, <1>3, <1>6, ServedResponses DEF InRepo, OneRead, NeedsType

LEMMA GetDocOK ==
  ASSUME ReqInv, CatalogInv, IdsInv, WatchInv, ReadInv, getDoc
  PROVE  Responses'
<1> DEFINE rows == GetDocumentByID(req.repo.id, req.arg)
<1>1. /\ req.pc = "typed" /\ req.kind = "doc"
      /\ IF \E r \in rows : r.type = req.type THEN writeJSON(rows) ELSE notFound
  BY DEF getDoc
<1>2. catalog \in seen
  BY <1>1 DEF WatchInv, Active
<1>3. PICK c \in seen : req.type \in resolveType(TypesOf(c, req.name), req.seg)
  BY <1>1 DEF ReadInv
<1>4. CASE \A r \in rows : r.type # req.type
  <2>1. CASE ~Has(catalog, req.name, req.repo.id)
    <3>1. \E d \in seen : MissingAt(req.kind, req.name, req.arg, req.seg, d, d)
      BY <1>1, <2>1, Gone DEF MissingAt
    <3> QED  BY <1>1, <1>4, <3>1, MissResponses
  <2>2. CASE Has(catalog, req.name, req.repo.id)
    <3>1. DocsOf(catalog, req.name) = Documents(catalog, req.repo.id)
      BY <1>1, <2>2, RowsRead
    <3>2. \A r \in DocsOf(catalog, req.name) : ~(r.doc = req.arg /\ r.type = req.type)
      BY <1>4, <3>1 DEF GetDocumentByID
    <3>3. [doc |-> req.arg, type |-> req.type] \notin
            {[doc |-> r.doc, type |-> r.type] : r \in DocsOf(catalog, req.name)}
      BY <3>2
    <3>4. MissingAt(req.kind, req.name, req.arg, req.seg, c, catalog)
      BY <1>1, <1>3, <3>3 DEF MissingAt
    <3> QED  BY <1>1, <1>2, <1>3, <1>4, <3>4, MissResponses
  <2> QED  BY <2>1, <2>2
<1>5. ASSUME NEW x \in rows, x.type = req.type
      PROVE  Responses'
  <2>1. rows \subseteq Documents(catalog, req.repo.id)
    BY DEF GetDocumentByID
  <2>2. /\ rows \subseteq DocsOf(catalog, req.name)
        /\ \E t : Tables(catalog, req.repo.id) = {t}
    BY <1>1, <1>5, <2>1, RowsRead
  <2>3. PICK t : Tables(catalog, req.repo.id) = {t}
    BY <2>2
  <2>4. \A r \in rows : r = DocRow(t, req.arg)
    <3>1. \A d : DocRow(t, d).doc = d
      BY DEF DocRow
    <3>2. \A r \in Documents(catalog, req.repo.id) : \E d \in DocIds : r = DocRow(t, d)
      BY <2>3 DEF Documents
    <3> QED  BY <3>1, <3>2 DEF GetDocumentByID
  <2>5. rows = {x}
    BY <1>5, <2>4
  <2>6. Cardinality(rows) = 1
    BY <2>5, FS_Singleton
  <2>7. writeJSON(rows)
    BY <1>1, <1>5
  <2> HIDE DEF rows
  <2>8. ServedAt(req.kind, req.name, req.seg, rows, c, catalog)
    BY <1>1, <1>3, <1>5, <2>2, <2>5 DEF ServedAt, NeedsType
  <2> QED  BY <1>1, <1>2, <1>3, <2>6, <2>7, <2>8, ServedResponses DEF InRepo, NeedsType
<1> QED  BY <1>4, <1>5

\* The list holds what the two statements have in common, and that is what all the
\* catalogs between them have in common.
LEMMA ListReposOK ==
  ASSUME ReqInv, CatalogInv, WatchInv, listRepos
  PROVE  Responses'
<1> DEFINE rows == {r \in ListRepos : r.id \in req.allowed}
<1>1. req.pc = "serve" /\ req.kind = "repos" /\ writeJSON(rows)
  BY DEF listRepos
<1>2. /\ req'.pc = "answered" /\ req'.status = 200 /\ req'.kind = "repos" /\ req'.body = rows
      /\ seen' = seen
  BY <1>1, AnswerFields DEF writeJSON
<1>3. catalog \in seen
  BY <1>1 DEF WatchInv, Active
<1>4. PICK c0 \in seen : req.allowed = {c0[n].id : n \in {m \in Names : c0[m] # Absent}}
  BY <1>1 DEF WatchInv, Active
<1>5. \A c, n, id : (\E r \in There(c, n) : r.id = id) <=> Has(c, n, id)
  BY DEF There, Has
<1>6. ASSUME NEW n \in Names, NEW id \in Ids
      PROVE  [id |-> id, name |-> n] \in rows <=> \A c \in seen : Has(c, n, id)
  <2>1. [id |-> id, name |-> n] \in ListRepos <=> Has(catalog, n, id)
    BY DEF ListRepos, Has
  <2>2. Has(catalog, n, id) /\ id \in req.allowed => \A c \in seen : Has(c, n, id)
    BY <1>1 DEF WatchInv, Active, Has
  <2>3. Has(c0, n, id) => id \in req.allowed
    BY <1>4 DEF Has
  <2> QED  BY <1>3, <2>1, <2>2, <2>3
<1> HIDE DEF rows
<1>7. \A n \in Names, id \in Ids :
        [id |-> id, name |-> n] \in rows <=> \A c \in seen : \E r \in There(c, n) : r.id = id
  <2> SUFFICES ASSUME NEW n \in Names, NEW id \in Ids
               PROVE  [id |-> id, name |-> n] \in rows
                        <=> \A c \in seen : \E r \in There(c, n) : r.id = id
    OBVIOUS
  <2>1. \A c \in seen : Has(c, n, id) <=> \E r \in There(c, n) : r.id = id
    BY <1>5
  <2>2. (\A c \in seen : Has(c, n, id)) <=> \A c \in seen : \E r \in There(c, n) : r.id = id
    BY <2>1
  <2> QED  BY <1>6, <2>2
<1>8. RepoListIsStable'
  <2> SUFFICES ASSUME NEW n \in Names, NEW id \in Ids
               PROVE  [id |-> id, name |-> n] \in req'.body
                        <=> \A c \in seen' : \E r \in There(c, n) : r.id = id
    BY DEF RepoListIsStable
  <2> QED  BY <1>2, <1>7
<1>9. req'.kind \notin InRepo \cup {"search"} \cup {"doc", "page", "repo"} \cup OneRead
  BY <1>2 DEF InRepo, OneRead, NeedsType
<1>10. ~Answered(404)'
  BY <1>2 DEF Answered
<1> QED  BY <1>8, <1>9, <1>10 DEF Responses, MissWasTrue, AnswerWasServed, SearchIsScoped, OneBody

LEMMA SearchDocsOK ==
  ASSUME ReqInv, CatalogInv, IdsInv, WatchInv, searchDocs
  PROVE  Responses'
<1>1. CASE Answer(400, {})
  BY <1>1, ErrorResponses
<1>2. ASSUME NEW result \in Search(req.allowed), writeJSON({result})
      PROVE  Responses'
  <2>1. req.pc = "serve" /\ req.kind = "search"
    BY DEF searchDocs
  <2>2. /\ req'.pc = "answered" /\ req'.status = 200 /\ req'.kind = "search"
        /\ req'.body = {result} /\ seen' = seen
    BY <1>2, <2>1, AnswerFields DEF writeJSON
  <2>3. PICK c \in seen : req.allowed = {c[n].id : n \in {m \in Names : c[m] # Absent}}
    BY <2>1 DEF WatchInv, Active
  <2>4. result.hits \cup result.facets \subseteq buildFilter(req.allowed)
    BY DEF Search
  <2>5. ASSUME NEW h \in buildFilter(req.allowed)
        PROVE  \E d \in seen : \E r \in There(d, h.repo) : r.id = h.id
    <3>1. h \in index /\ h.id \in req.allowed
      BY DEF buildFilter
    <3>2. PICK n \in Names : c[n] # Absent /\ c[n].id = h.id
      BY <2>3, <3>1
    <3>3. n = h.repo
      BY <3>1, <3>2 DEF IdsInv, Has, Catalogs
    <3>4. There(c, h.repo) = {c[n]}
      BY <3>2, <3>3 DEF There
    <3> QED  BY <3>2, <3>4
  <2>6. SearchIsScoped'
    BY <2>2, <2>4, <2>5 DEF SearchIsScoped
  <2>7. req'.kind \notin InRepo \cup {"repos"} \cup {"doc", "page", "repo"} \cup OneRead
    BY <2>2 DEF InRepo, OneRead, NeedsType
  <2>8. ~Answered(404)'
    BY <2>2 DEF Answered
  <2> QED  BY <2>6, <2>7, <2>8 DEF Responses, MissWasTrue, AnswerWasServed, RepoListIsStable, OneBody
<1> QED  BY <1>1, <1>2 DEF searchDocs

LEMMA AnsweringOK ==
  ASSUME ReqInv, CatalogInv, IdsInv, WatchInv, ReadInv, Answering
  PROVE  Responses'
<1>1. CASE serverError
  BY <1>1, ErrorResponses DEF serverError
<1> QED  BY <1>1, ListReposOK, NoRepoOK, GetRepoOK, GetRepoIndexOK, GetRepoChangelogOK,
            ListRepoPagesOK, GetRepoPageOK, ListTypesOK, NoTypeOK, ListDocsOK, GetDocOK,
            SearchDocsOK DEF Answering

-----------------------------------------------------------------------------
(***************************************************************************)
(* The inductive invariant.                                                *)
(***************************************************************************)
LEMMA FieldsStep ==
  ASSUME ReqInv, CatalogInv, IdsInv, WatchInv, ReadInv, FieldsInv, Responses, [Next]_vars
  PROVE  ReqInv' /\ FieldsInv' /\ Responses'
<1>1. CASE UNCHANGED vars \/ Indexing \/ Committing \/ Removing
  <2>1. req' = req /\ (req.pc = "answered" => seen' = seen)
    BY <1>1 DEF vars, Indexing, Indexed, Purged, Committing, Removing, Replaced, Changed
  <2>2. ReqInv' /\ FieldsInv' /\ OneBody'
    BY <2>1 DEF ReqInv, FieldsInv, Active, Responses, OneBody
  <2> QED  BY <2>1, <2>2, ResponsesKept
<1>2. CASE Arriving
  <2>1. /\ ReqInv' /\ req'.pc = "authorize" /\ req'.status = 0 /\ req'.allowed = {}
        /\ req'.kind \in InRepo \cup {"repos", "search"}
    BY <1>2, ReceiveFields DEF Arriving
  <2>2. FieldsInv' /\ OneBody'
    BY <2>1 DEF FieldsInv, OneBody
  <2> QED  BY <2>1, <2>2, ResponsesKept
<1>3. CASE Authorize
  <2>1. /\ ReqInv' /\ req.pc = "authorize" /\ req'.pc = "serve"
        /\ req'.status = req.status /\ req'.kind = req.kind
    BY <1>3, AuthorizeFields
  <2>2. FieldsInv' /\ OneBody'
    BY <2>1 DEF FieldsInv, OneBody, Active
  <2> QED  BY <2>1, <2>2, ResponsesKept
<1>4. CASE Resolve \/ ResolveType
  <2>1. /\ ReqInv' /\ req.pc \in {"serve", "resolved"} /\ req'.pc \in {"resolved", "typed"}
        /\ req'.status = req.status /\ req'.kind = req.kind
    BY <1>4, ResolveFields, ResolveTypeFields
  <2>2. FieldsInv' /\ OneBody'
    BY <2>1 DEF FieldsInv, OneBody, Active
  <2> QED  BY <2>1, <2>2, ResponsesKept
<1>5. CASE Answering
  <2>1. Responses'
    BY <1>5, AnsweringOK
  <2>2. PICK status \in {200, 400, 404, 500} : \E body : Answer(status, body)
    BY <1>5, AnswerShape
  <2>3. PICK body : Answer(status, body)
    BY <2>2
  <2>4. /\ ReqInv' /\ req'.pc = "answered" /\ req'.status = status
        /\ req'.kind = req.kind /\ req'.allowed = {}
    BY <2>3, AnswerFields
  <2>5. FieldsInv'
    BY <2>1, <2>4 DEF FieldsInv, Responses, OneBody, Active
  <2> QED  BY <2>1, <2>4, <2>5
<1>6. CASE Read
  <2>1. req' = Idle
    BY <1>6 DEF Read
  <2>2. ReqInv' /\ req'.pc = "idle"
    BY <2>1 DEF ReqInv, Idle
  <2>3. FieldsInv' /\ OneBody'
    BY <2>1 DEF FieldsInv, OneBody, Idle
  <2> QED  BY <2>2, <2>3, ResponsesKept
<1> QED  BY <1>1, <1>2, <1>3, <1>4, <1>5, <1>6, NextSteps

LEMMA InitOK == Init => ServingInv
<1> SUFFICES ASSUME Init
             PROVE  ServingInv
  OBVIOUS
<1>0. MaxId \in Nat
  BY ServingAssumption
<1>1. ReqInv /\ ReadInv /\ FieldsInv /\ WatchInv
  BY DEF Init, Idle, ReqInv, ReadInv, FieldsInv, WatchInv, Active
<1>2. CatalogInv /\ IdsInv
  BY <1>0 DEF Init, CatalogInv, IdsInv, Catalogs, Has
<1>3. req.pc # "answered"
  BY DEF Init, Idle
<1> QED  BY <1>1, <1>2, <1>3 DEF ServingInv, MissWasTrue, AnswerWasServed, RepoListIsStable,
                                 SearchIsScoped, Answered

LEMMA StepOK == ServingInv /\ [Next]_vars => ServingInv'
<1> SUFFICES ASSUME ServingInv, [Next]_vars
             PROVE  ServingInv'
  OBVIOUS
<1>1. ReqInv /\ CatalogInv /\ IdsInv /\ WatchInv /\ ReadInv /\ FieldsInv /\ Responses
  BY DEF ServingInv, Responses, FieldsInv, OneBody
<1>2. CatalogInv' /\ IdsInv' /\ WatchInv' /\ ReadInv'
  BY <1>1, CatalogStep, WatchStep, ReadStep
<1>3. ReqInv' /\ FieldsInv' /\ Responses'
  BY <1>1, FieldsStep
<1> QED  BY <1>2, <1>3 DEF ServingInv, Responses

\* ServingInv is inductive: it holds of the first state and every step keeps it.
THEOREM ServingInvariant == Spec => []ServingInv
BY InitOK, StepOK, PTL DEF Spec

\* Type correctness: the stored rows are of their repositories, a request holds only ids
\* that have been given out, and one that resolved its repository was allowed it.
THEOREM TypeCorrect == Spec => []TypeOK
<1>1. ServingInv => TypeOK
  <2> SUFFICES ASSUME ServingInv
               PROVE  TypeOK
    OBVIOUS
  <2>0. MaxId \in Nat
    BY ServingAssumption
  <2>1. /\ nextId \in 1 .. MaxId + 1 /\ index \in SUBSET [id : Ids, repo : Names]
        /\ \A n \in Names : catalog[n] \in Row(n) \cup {Absent}
    BY DEF ServingInv, CatalogInv, Catalogs
  <2>2. req.allowed \in SUBSET (1 .. nextId - 1)
    <3>1. CASE Active
      <4>1. \A id \in req.allowed : id \in Ids /\ id < nextId
        BY <3>1 DEF ServingInv, WatchInv
      <4> QED  BY <2>0, <2>1, <4>1 DEF Ids
    <3>2. CASE ~Active
      BY <3>2 DEF ServingInv, FieldsInv
    <3> QED  BY <3>1, <3>2
  <2>3. req.pc \in {"resolved", "typed"} => req.repo.id \in req.allowed
    BY DEF ServingInv, ReadInv
  <2>4. /\ req.pc \in {"idle", "authorize", "serve", "resolved", "typed", "answered"}
        /\ req.kind \in InRepo \cup {"repos", "search"}
        /\ req.status \in {0, 200, 400, 404, 500}
        /\ req.status = 200 /\ req.kind \in {"doc", "page", "repo"} \cup OneRead
             => Cardinality(req.body) = 1
    BY DEF ServingInv, FieldsInv
  <2> QED  BY <2>1, <2>2, <2>3, <2>4 DEF TypeOK
<1> QED  BY <1>1, ServingInvariant, PTL

\* A 404 of the read API was true at an instant of its request: the repository, its type, the
\* page, the document or the file it denies was missing then, whatever was committed,
\* removed or onboarded again between the statements of the handler.
THEOREM MissesAreTrue == Spec => []MissWasTrue
<1>1. ServingInv => MissWasTrue
  BY DEF ServingInv
<1> QED  BY <1>1, ServingInvariant, PTL

\* A 200 carries rows that were stored in the repository asked for, and a document only
\* under a type that the segment named, however the catalog moves under the handler.
THEOREM AnswersWereServed == Spec => []AnswerWasServed
<1>1. ServingInv => AnswerWasServed
  BY DEF ServingInv
<1> QED  BY <1>1, ServingInvariant, PTL

\* The repository list is exactly the repositories that were there all through the request.
THEOREM RepoListsAreStable == Spec => []RepoListIsStable
<1>1. ServingInv => RepoListIsStable
  BY DEF ServingInv
<1> QED  BY <1>1, ServingInvariant, PTL

\* No search result crosses the authorization boundary, left over records of a removed
\* repository included: an id is never given to a second name.
THEOREM SearchesAreScoped == Spec => []SearchIsScoped
<1>1. ServingInv => SearchIsScoped
  BY DEF ServingInv
<1> QED  BY <1>1, ServingInvariant, PTL
=============================================================================
