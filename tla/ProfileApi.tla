---- MODULE ProfileApi ----
(***************************************************************************)
(* The handlers that create, change and delete searchers:                  *)
(* internal/httpapi/searchers.go (/api/v1/searchers) and the older         *)
(* internal/httpapi/profiles.go (/api/v1/search-profiles) over the same    *)
(* table.  A PUT is not one statement: it SELECTs the row, decodes the     *)
(* request body, merges it into the row in memory and UPDATEs every        *)
(* column, so that other handlers run between the read and the write.      *)
(*                                                                         *)
(* A request slot q stands for one HTTP request after another.  The        *)
(* session user is the owner of the row the request names: for any other   *)
(* user each statement finds no row and the answer is 404.                 *)
(***************************************************************************)
EXTENDS ProfileStore

CONSTANTS
  Requests,       \* slots for POST and PUT requests being served
  Bodies,         \* the request bodies that are sent
  Absent,         \* a field the body leaves out (JSON null, or "")
  Blank,          \* a string of spaces
  CoreSettings,   \* may CORE_URL be set, or unset, when a process starts
  MaxVersion,     \* bound: no write takes config_version beyond it
  NoTitle, Tenders

VARIABLES
  req,            \* [Requests -> RequestStates]
  cat,
  coreEnabled     \* is CORE_URL set for the process that runs

INSTANCE CoreCatalog WITH CategoryIds <- Ids, Titles <- Names

BodyType ==
  [api : {"searchers", "search-profiles"},
   name : Names \cup {Absent, Blank},
   desc : (Descs \ {NoDesc}) \cup {Absent, Blank},
   filters : Filters \cup {Absent}, auto : BOOLEAN \cup {Absent}]

ASSUME ApiConstants ==
  /\ Bodies \subseteq BodyType
  /\ \A b \in Bodies : b.api = "searchers" => b.desc = Absent
  /\ Absent \notin Names \cup Descs \cup Filters \cup BOOLEAN
  /\ Blank \notin Names \cup Descs
  /\ NoTitle \notin Names
  /\ CoreSettings \subseteq BOOLEAN
  /\ MaxVersion \in Nat \ {0}

apiVars == <<storeVars, req, cat, coreEnabled>>

RequestStates ==
  [pc : {"idle"}]
    \cup [pc : {"read"}, body : Bodies, held : Profiles]
    \cup [pc : {"ensure"}, id : Ids, title : Names]

IdleRequest == [pc |-> "idle"]

ApiInit ==
  /\ StoreInit
  /\ CatalogInit
  /\ req = [q \in Requests |-> IdleRequest]
  /\ coreEnabled \in CoreSettings

ApiTypeOK ==
  /\ StoreTypeOK
  /\ CatalogTypeOK
  /\ req \in [Requests -> RequestStates]
  /\ coreEnabled \in CoreSettings

\* strings.TrimSpace of a description; one left out is the empty string.
TrimmedDesc(d) == IF d \in Descs THEN d ELSE NoDesc

\* The handler's last stage: the searcher handlers make sure of the category.
AfterWrite(api, i, name) ==
  IF api = "searchers" /\ coreEnabled
    THEN [pc |-> "ensure", id |-> i, title |-> name]
    ELSE IdleRequest

\* handleCreateSearcher, handleCreateProfile: what the body leaves out is defaulted.
NewProfile(b) ==
  [name |-> b.name, desc |-> TrimmedDesc(b.desc),
   filters |-> IF b.filters = Absent THEN DefaultFilters ELSE b.filters,
   auto |-> IF b.auto = Absent THEN FALSE ELSE b.auto]

CreateProfile(q, u, i, b) ==
  /\ req[q].pc = "idle"
  /\ b.name \in Names
  /\ CreateSearchProfile(u, i, NewProfile(b))
  /\ req' = [req EXCEPT ![q] = AfterWrite(b.api, i, b.name)]
  /\ UNCHANGED <<cat, coreEnabled>>

\* PUT, first half: GetSearchProfile.
BeginUpdate(q, i, b) ==
  /\ req[q].pc = "idle"
  /\ Live(i)
  /\ req' = [req EXCEPT ![q] = [pc |-> "read", body |-> b, held |-> Scan(i)]]
  /\ UNCHANGED <<storeVars, cat, coreEnabled>>

\* The profile handler takes the body's description as soon as the body has a
\* description or a name; the searcher handler never touches it.
KeepsDesc(b) == b.api = "searchers" \/ (b.name = Absent /\ b.desc = Absent)

\* The row as read, with the fields of the body put over it.
Merged(held, b) ==
  [held EXCEPT
     !.name = IF b.name \in Names THEN b.name ELSE @,
     !.desc = IF KeepsDesc(b) THEN @ ELSE TrimmedDesc(b.desc),
     !.filters = IF b.filters = Absent THEN @ ELSE b.filters,
     !.auto = IF b.auto = Absent THEN @ ELSE b.auto]

\* PUT, second half: UpdateSearchProfile.
CommitUpdate(q) ==
  /\ req[q].pc = "read"
  /\ LET p == Merged(req[q].held, req[q].body) IN
       /\ Updated(profile[p.id], p).ver <= MaxVersion
       /\ UpdateSearchProfile(p.user, p.id, p)
       /\ req' = [req EXCEPT ![q] = AfterWrite(req[q].body.api, p.id, p.name)]
  /\ UNCHANGED <<cat, coreEnabled>>

\* A PUT that writes nothing: a bad body, a name already taken, the row deleted
\* in between, a failed statement, or the client gone.
AbandonUpdate(q) ==
  /\ req[q].pc = "read"
  /\ req' = [req EXCEPT ![q] = IdleRequest]
  /\ UNCHANGED <<storeVars, cat, coreEnabled>>

\* Whatever EnsureCategory returns is dropped.
FinishEnsure(q) ==
  /\ req[q].pc = "ensure"
  /\ \E ok \in BOOLEAN : EnsureCategory(req[q].id, req[q].title, ok)
  /\ req' = [req EXCEPT ![q] = IdleRequest]
  /\ UNCHANGED <<storeVars, coreEnabled>>

\* handleSetSearcherAutoAI
SetAutoAI(i, enabled) ==
  /\ SetSearcherAutoAI(profile[i].user, i, enabled)
  /\ UNCHANGED <<req, cat, coreEnabled>>

\* handleDeleteSearcher, handleDeleteProfile; the category stays in the core.
Delete(i) ==
  /\ DeleteSearchProfile(profile[i].user, i)
  /\ UNCHANGED <<req, cat, coreEnabled>>

RequestStep(q) == CommitUpdate(q) \/ AbandonUpdate(q) \/ FinishEnsure(q)

ApiNext ==
  \/ \E q \in Requests, u \in Users, i \in Ids, b \in Bodies : CreateProfile(q, u, i, b)
  \/ \E q \in Requests, i \in Ids, b \in Bodies : BeginUpdate(q, i, b)
  \/ \E q \in Requests : RequestStep(q)
  \/ \E i \in Ids, enabled \in BOOLEAN : SetAutoAI(i, enabled)
  \/ \E i \in Ids : Delete(i)

ApiSpec == ApiInit /\ [][ApiNext]_apiVars

----------------------------------------------------------------------------
\* A user never has two searchers of one name, whatever requests of the user
\* overlap: the handlers do not look before they write, only the statements'
\* UNIQUE (user_id, name) stands in the way.
NamesUnique ==
  \A i, j \in Ids :
    /\ Live(i) /\ Live(j)
    /\ profile[i].user = profile[j].user
    /\ profile[i].name = profile[j].name
    => i = j

ReadsInProgress == {req[q].held : q \in {r \in Requests : req[r].pc = "read"}}

ApiObservations == {Scan(i) : i \in Ids} \cup ReadsInProgress

\* config_version names the filters: any two handlers that saw the same version
\* of a searcher, however long ago and whatever was written since, saw the same
\* filters.  zakupki-core relies on it when it compares synced_config_version.
VersionPinsFilters ==
  \A s, t \in ApiObservations :
    s.id = t.id /\ s.ver = t.ver => s.filters = t.filters

\* A deleted searcher stays deleted: no PUT, auto-ai or run request that read
\* the row before the DELETE brings it back or writes to it afterwards.
DeletedStaysDeleted ==
  [][\A i \in Ids : status[i] = "deleted" =>
       status'[i] = "deleted" /\ profile'[i] = profile[i]]_apiVars

\* What a name-only PUT must leave alone (docs/openapi.yaml: changing only the
\* name or the description does not touch config_version).
NameOnlyPutKeepsVersion ==
  [][\A q \in Requests :
       CommitUpdate(q) /\ req[q].body.filters = Absent =>
         profile'[req[q].held.id].ver = profile[req[q].held.id].ver]_apiVars

\* PUT /search-profiles is a partial update (docs/openapi.yaml): the description
\* and auto_ai stay as they are in the table unless the body carries them.
PutIsPartial ==
  [][\A q \in Requests :
       CommitUpdate(q) /\ req[q].body.api = "search-profiles" =>
         LET body == req[q].body  i == req[q].held.id IN
           /\ body.desc = Absent => profile'[i].desc = profile[i].desc
           /\ body.auto = Absent => profile'[i].auto = profile[i].auto]_apiVars
====
