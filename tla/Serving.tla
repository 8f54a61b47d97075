------------------------------- MODULE Serving ------------------------------
(***************************************************************************)
(* The read API: the handlers of internal/httpapi behind the authorize     *)
(* seam, over the statements of internal/store and over Meilisearch.       *)
(*                                                                         *)
(* A request is a sequence of single statements: the authorizer lists the  *)
(* repositories, the handler looks its repository up, then its doc types,  *)
(* then the row asked for.  No transaction spans them, and between any two *)
(* a reconcile may commit, a repository may be removed or onboarded again. *)
(* Requests share nothing, so one is followed at a time.                   *)
(***************************************************************************)
EXTENDS Naturals, FiniteSets

CONSTANTS
  Names,       \* owner/name
  Contents,    \* of a repository's name: what a reconcile can commit for it
  Segments,    \* {type} segments of a URL
  Fold,        \* Fold[s]: s in lower case
  DocIds,
  Paths,       \* decoded wildcards of /pages/*
  Valid,       \* those of them validPagePath accepts
  Absent,      \* no row
  MaxId,       \* BOUND: repositories ever onboarded
  MaxChanges   \* BOUND: changes of the catalog during one request

TypeRows == UNION {c.types : c \in UNION {Contents[n] : n \in Names}}

\* A stored page has a valid path (ingest/pages.go validPublishedPath); a stored document
\* may have a type its repository no longer has (RowsMatchSnapshot in Reconcile.tla).
ASSUME ServingAssumption ==
  /\ MaxId \in Nat /\ MaxChanges \in Nat /\ Valid \subseteq Paths
  /\ \A n \in Names : \A c \in Contents[n] :
       /\ c.docs \in [DocIds -> [type : {t.name : t \in TypeRows}, rev : Nat] \cup {Absent}]
       /\ c.pages \in [Valid -> Nat \cup {Absent}]
       /\ c.index \in {"no file", "empty", "text"} /\ c.changelog \in BOOLEAN

VARIABLES
  catalog,     \* Postgres: repos, doc_types, documents, repo_pages
  nextId,      \* the sequence of repos.id
  index,       \* Meilisearch: repositories (id and label) with records
  req,         \* the request
  seen         \* history: the catalogs there were since the request was authorized

vars == <<catalog, nextId, index, req, seen>>

Ids == 1 .. MaxId
Row(n) == [id : Ids, content : Contents[n]]
OneRead == {"index", "changelog"}
NeedsType == {"docs", "doc"}
InRepo == OneRead \cup NeedsType \cup {"repo", "pages", "page", "types"}
Idle == [pc |-> "idle", kind |-> "repos", name |-> Absent, arg |-> Absent, seg |-> Absent,
         allowed |-> {}, repo |-> Absent, type |-> Absent, status |-> 0, body |-> {}]

TypeOK ==
  /\ \A n \in Names : catalog[n] \in Row(n) \cup {Absent}
  /\ nextId \in 1 .. MaxId + 1
  /\ index \in SUBSET [id : Ids, repo : Names]
  /\ req.pc \in {"idle", "authorize", "serve", "resolved", "typed", "answered"}
  /\ req.kind \in InRepo \cup {"repos", "search"}
  /\ req.pc \in {"resolved", "typed"} => req.repo.id \in req.allowed
  /\ req.allowed \in SUBSET (1 .. nextId - 1)
  /\ req.status \in {0, 200, 400, 404, 500}
  /\ req.status = 200 /\ req.kind \in {"doc", "page", "repo"} \cup OneRead
       => Cardinality(req.body) = 1

Init ==
  /\ catalog = [n \in Names |-> Absent]
  /\ nextId = 1
  /\ index = {}
  /\ req = Idle
  /\ seen = {}

-----------------------------------------------------------------------------
(***************************************************************************)
(* The stored rows.                                                        *)
(***************************************************************************)
\* The rows of the tables that reference repos(id); none once id is gone.
Tables(c, id) == {c[n].content : n \in {m \in Names : c[m] # Absent /\ c[m].id = id}}

ListRepos == {[id |-> catalog[n].id, name |-> n] : n \in {m \in Names : catalog[m] # Absent}}

ListDocTypes(id) == UNION {t.types : t \in Tables(catalog, id)}

\* toDocument: the fields the properties tell apart.
DocRow(t, d) == [doc |-> d, type |-> t.docs[d].type, rev |-> t.docs[d].rev]

Documents(c, id) ==
  UNION {{DocRow(t, d) : d \in {e \in DocIds : t.docs[e] # Absent}} : t \in Tables(c, id)}

Pages(c, id) ==
  UNION {{[path |-> p, rev |-> t.pages[p]] : p \in {q \in Valid : t.pages[q] # Absent}}
           : t \in Tables(c, id)}

\* The statements of one handler, each on the catalog of its own instant.
GetRepo(n) == catalog[n]

GetRepoPageByPath(id, p) == {r \in Pages(catalog, id) : r.path = p}

ListDocumentsByType(id, t) == {r \in Documents(catalog, id) : r.type = t}

GetDocumentByID(id, d) == {r \in Documents(catalog, id) : r.doc = d}

Changed(c) ==
  /\ catalog' = c
  /\ seen' = IF req.pc \in {"serve", "resolved", "typed"} THEN seen \cup {c} ELSE seen
  /\ Cardinality(seen') <= MaxChanges + 1
  /\ UNCHANGED req

\* A reconcile commits: the row of repos is updated in place or inserted with
\* the next id, and the rows that reference it change with it.
Commit(n, t) ==
  /\ catalog[n] = Absent => nextId <= MaxId
  /\ nextId' = IF catalog[n] = Absent THEN nextId + 1 ELSE nextId
  /\ Changed([catalog EXCEPT ![n] =
       [id |-> IF catalog[n] = Absent THEN nextId ELSE catalog[n].id, content |-> t]])
  /\ UNCHANGED index

\* The repository leaves its installation; its rows go by ON DELETE CASCADE.
\* Its records are purged afterwards, if they are.
RemoveRepo(n) ==
  /\ catalog[n] # Absent
  /\ Changed([catalog EXCEPT ![n] = Absent])
  /\ UNCHANGED <<index, nextId>>

Indexed(n) ==
  /\ catalog[n] # Absent
  /\ index' = index \cup {[id |-> catalog[n].id, repo |-> n]}
  /\ UNCHANGED <<catalog, nextId, req, seen>>

Purged(r) ==
  /\ r \in index /\ r \notin {[id |-> x.id, repo |-> x.name] : x \in ListRepos}
  /\ index' = index \ {r}
  /\ UNCHANGED <<catalog, nextId, req, seen>>

-----------------------------------------------------------------------------
(***************************************************************************)
(* A request.                                                              *)
(***************************************************************************)
Stored == UNCHANGED <<catalog, nextId, index>>

Answer(status, body) ==
  /\ req' = [req EXCEPT !.pc = "answered", !.status = status, !.body = body,
                         !.allowed = {}, !.repo = Absent, !.type = Absent]
  /\ UNCHANGED seen

writeJSON(body) == Answer(200, body)

notFound == Answer(404, {})

Continue(r) == req' = r /\ UNCHANGED seen

Receive(kind, n, arg, seg) ==
  /\ req.pc = "idle"
  /\ req' = [Idle EXCEPT !.pc = "authorize", !.kind = kind, !.name = n, !.arg = arg, !.seg = seg]
  /\ UNCHANGED seen
  /\ Stored

Arrive ==
  \/ \E kind \in {"repos", "search"} : Receive(kind, Absent, Absent, Absent)
  \/ \E n \in Names :
       \/ \E kind \in InRepo \ {"page", "docs", "doc"} : Receive(kind, n, Absent, Absent)
       \/ \E p \in Paths : Receive("page", n, p, Absent)
       \/ \E s \in Segments :
            \/ Receive("docs", n, Absent, s)
            \/ \E d \in DocIds : Receive("doc", n, d, s)

\* authorize.Middleware with AllReposAuthorizer.
Authorize ==
  /\ req.pc = "authorize"
  /\ req' = [req EXCEPT !.pc = "serve", !.allowed = {r.id : r \in ListRepos}]
  /\ seen' = {catalog}
  /\ Stored

\* MUTANT: every listed repository is written out.
listReposUnfiltered ==
  /\ req.pc = "serve" /\ req.kind = "repos"
  /\ writeJSON(ListRepos)
  /\ Stored

listRepos ==
  /\ req.pc = "serve" /\ req.kind = "repos"
  /\ writeJSON({r \in ListRepos : r.id \in req.allowed})
  /\ Stored

\* MUTANT: the allowed set is not consulted.
resolveRepoUnchecked ==
  /\ req.pc = "serve" /\ req.kind \in InRepo
  /\ IF GetRepo(req.name) = Absent
     THEN notFound
     ELSE Continue([req EXCEPT !.pc = "resolved", !.repo = GetRepo(req.name)])
  /\ Stored

\* GetRepo, then the allowed set.
resolveRepo ==
  /\ req.pc = "serve" /\ req.kind \in InRepo
  /\ IF GetRepo(req.name) = Absent \/ GetRepo(req.name).id \notin req.allowed
     THEN notFound
     ELSE Continue([req EXCEPT !.pc = "resolved", !.repo = GetRepo(req.name)])
  /\ Stored

Resolved(kinds) == req.pc = "resolved" /\ req.kind \in kinds

toRepoDetail(r, types) ==
  [id |-> r.id, index |-> r.content.index, changelog |-> r.content.changelog, types |-> types]

toRepoIndex(r) == [id |-> r.id, index |-> r.content.index]

toRepoChangelog(r) == [id |-> r.id, changelog |-> r.content.changelog]

\* The row of repos, and a second statement for the types.
getRepo ==
  /\ Resolved({"repo"})
  /\ writeJSON({toRepoDetail(req.repo, ListDocTypes(req.repo.id))})
  /\ Stored

\* MUTANT: presence is read off the body, which is NULL for an empty file.
getRepoIndexByBody ==
  /\ Resolved({"index"})
  /\ IF req.repo.content.index = "text"
     THEN writeJSON({toRepoIndex(req.repo)})
     ELSE notFound
  /\ Stored

\* Presence is index_sha; index.md may be there and empty.
getRepoIndex ==
  /\ Resolved({"index"})
  /\ IF req.repo.content.index = "no file"
     THEN notFound
     ELSE writeJSON({toRepoIndex(req.repo)})
  /\ Stored

getRepoChangelog ==
  /\ Resolved({"changelog"})
  /\ IF req.repo.content.changelog
     THEN writeJSON({toRepoChangelog(req.repo)})
     ELSE notFound
  /\ Stored

listRepoPages ==
  /\ Resolved({"pages"})
  /\ writeJSON(Pages(catalog, req.repo.id))
  /\ Stored

\* The wildcard is validated again after decoding; the lookup is exact.
getRepoPage ==
  /\ Resolved({"page"})
  /\ LET rows == GetRepoPageByPath(req.repo.id, req.arg) IN
     IF req.arg \notin Valid \/ rows = {} THEN notFound ELSE writeJSON(rows)
  /\ Stored

listTypes ==
  /\ Resolved({"types"})
  /\ writeJSON(ListDocTypes(req.repo.id))
  /\ Stored

\* A name is compared as it is, a prefix or an alias without regard to case.
Matches(t, seg) ==
  \/ t.name = seg
  \/ \E p \in {t.prefix} \cup t.aliases : Fold[p] = Fold[seg]

\* resolveType takes the first match, and ListDocTypes has no ORDER BY.
resolveType(types, seg) == {t.name : t \in {u \in types : Matches(u, seg)}}

resolveRepoType ==
  /\ Resolved(NeedsType)
  /\ LET canonical == resolveType(ListDocTypes(req.repo.id), req.seg) IN
     \/ canonical = {} /\ notFound
     \/ \E t \in canonical : Continue([req EXCEPT !.pc = "typed", !.type = t])
  /\ Stored

listDocs ==
  /\ req.pc = "typed" /\ req.kind = "docs"
  /\ writeJSON(ListDocumentsByType(req.repo.id, req.type))
  /\ Stored

\* MUTANT: the document is served under any type of its repository.
getDocAnyType ==
  /\ req.pc = "typed" /\ req.kind = "doc"
  /\ LET rows == GetDocumentByID(req.repo.id, req.arg) IN
     IF rows = {} THEN notFound ELSE writeJSON(rows)
  /\ Stored

\* Looked up by its id alone; a document of another type is a miss.
getDoc ==
  /\ req.pc = "typed" /\ req.kind = "doc"
  /\ LET rows == GetDocumentByID(req.repo.id, req.arg) IN
     IF \E r \in rows : r.type = req.type THEN writeJSON(rows) ELSE notFound
  /\ Stored

\* MUTANT: an empty set of ids adds no clause.
buildFilterEmptyIsOpen(allowed) == {r \in index : allowed = {} \/ r.id \in allowed}

\* The records the filter leaves: of the allowed repositories, and none if
\* there is none ("repo_id IN [-1]").
buildFilter(allowed) == {r \in index : r.id \in allowed}

\* The query and the other facet filters narrow the records further; hits are a
\* window of what is left, and the facets count all of it.
Search(allowed) ==
  UNION {{[hits |-> hits, facets |-> matched] : hits \in SUBSET matched}
           : matched \in SUBSET buildFilter(allowed)}

\* A sort token out of the enum is a 400.
searchDocs ==
  /\ req.pc = "serve" /\ req.kind = "search"
  /\ \/ Answer(400, {})
     \/ \E result \in Search(req.allowed) : writeJSON({result})
  /\ Stored

\* Postgres or Meilisearch does not answer: authorize.Middleware, serverError.
serverError ==
  /\ req.pc \in {"authorize", "serve", "resolved", "typed"}
  /\ ~Resolved(OneRead)
  /\ Answer(500, {})
  /\ Stored

Read ==
  /\ req.pc = "answered"
  /\ req' = Idle /\ seen' = {}
  /\ Stored

-----------------------------------------------------------------------------
Handle ==
  \/ Authorize \/ listRepos \/ resolveRepo \/ getRepo \/ getRepoIndex \/ getRepoChangelog
  \/ listRepoPages \/ getRepoPage \/ listTypes \/ resolveRepoType \/ listDocs \/ getDoc
  \/ searchDocs \/ serverError

Next ==
  \/ Arrive \/ Handle \/ Read
  \/ \E n \in Names : (\E t \in Contents[n] : Commit(n, t)) \/ RemoveRepo(n) \/ Indexed(n)
  \/ \E r \in index : Purged(r)

Spec == Init /\ [][Next]_vars

-----------------------------------------------------------------------------
(***************************************************************************)
(* Properties.                                                             *)
(***************************************************************************)
Answered(status) == req.pc = "answered" /\ req.status = status

\* What there is in catalog c under a repository's name, whatever its id; the
\* documents under the types a segment names.
There(c, n) == IF c[n] = Absent THEN {} ELSE {c[n]}
TypesOf(c, n) == UNION {r.content.types : r \in There(c, n)}
DocsOf(c, n) == UNION {Documents(c, r.id) : r \in There(c, n)}
PagesOf(c, n) == UNION {Pages(c, r.id) : r \in There(c, n)}

\* In catalogs c (doc types) and d (the rest) the request's target is missing.
MissingIn(c, d) ==
  \/ There(d, req.name) = {}
  \/ req.kind = "index" /\ \A r \in There(d, req.name) : r.content.index = "no file"
  \/ req.kind = "changelog" /\ \A r \in There(d, req.name) : ~r.content.changelog
  \/ req.kind = "page" /\ \A r \in PagesOf(d, req.name) : r.path # req.arg
  \/ req.kind \in NeedsType /\ resolveType(TypesOf(c, req.name), req.seg) = {}
  \/ /\ req.kind = "doc"
     /\ \E t \in resolveType(TypesOf(c, req.name), req.seg) :
          [doc |-> req.arg, type |-> t] \notin
            {[doc |-> r.doc, type |-> r.type] : r \in DocsOf(d, req.name)}

\* A 404 tells the truth about some instant of the request (handler.go:92-110,
\* handlers.go:52-76, 105-125, 182-204): what it denies was missing then, also when the
\* repository was removed, onboarded again under a new id or reconciled between
\* the statements.  Only a document's 404 may combine the doc types of one
\* commit with the rows of a later one.
MissWasTrue ==
  Answered(404) =>
    IF req.kind = "doc" THEN \E c, d \in seen : MissingIn(c, d)
                        ELSE \E c \in seen : MissingIn(c, c)

\* What a 200 carries was stored, in that repository, at an instant of the
\* request, and under a type its segment named at one (handlers.go:148-224): no
\* row of another repository or of an earlier incarnation of this one, no
\* document under a type that never was its own.
AnswerWasServed ==
  Answered(200) /\ req.kind \in InRepo =>
    \E c, d \in seen :
      CASE req.kind = "repo" ->
             \E b \in req.body, r \in There(c, req.name) :
               /\ b.id = r.id /\ b.index = r.content.index
               /\ b.types \in {TypesOf(d, req.name), {}}
        [] req.kind = "index" ->
             req.body = {[id |-> r.id, index |-> r.content.index] : r \in There(c, req.name)}
        [] req.kind = "changelog" -> \E r \in There(c, req.name) : r.content.changelog
        [] req.kind \in {"pages", "page"} -> req.body \subseteq PagesOf(c, req.name)
        [] req.kind = "types" -> req.body \subseteq TypesOf(c, req.name)
        [] req.kind \in NeedsType ->
             /\ req.body \subseteq DocsOf(d, req.name)
             /\ \E t \in resolveType(TypesOf(c, req.name), req.seg) :
                  \A r \in req.body : r.type = t

\* The repository list holds exactly the repositories that were there all
\* through the request, from its authorization on (handlers.go:17-32): one removed and onboarded again
\* meanwhile has a new id and is left out, like one that came or went.
RepoListIsStable ==
  Answered(200) /\ req.kind = "repos" =>
    \A n \in Names, id \in Ids :
      [id |-> id, name |-> n] \in req.body
        <=> \A c \in seen : \E r \in There(c, n) : r.id = id

\* "results never cross the authorization boundary" (httpapi/search.go:13): a
\* hit, and what the facets count, belongs to a repository that was onboarded
\* under that id when the request was authorized; a removed repository's left
\* over records stay hidden even if its name is back.
SearchIsScoped ==
  Answered(200) /\ req.kind = "search" =>
    \A b \in req.body : \A h \in b.hits \cup b.facets :
      \E c \in seen : \E r \in There(c, h.repo) : r.id = h.id
=============================================================================
