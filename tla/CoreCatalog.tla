---- MODULE CoreCatalog ----
(***************************************************************************)
(* The part of zakupki-core this service talks to: one category per        *)
(* searcher id, with the tenders linked to it.  The calls are those of     *)
(* internal/coreclient/client.go; what they do on the other side is        *)
(* deploy/core/0001-search-config-sync.patch.                              *)
(*                                                                         *)
(* `ok` is what the caller sees (a nil error).  A call that fails for the  *)
(* caller may have had no effect, part of its effect or all of it: the     *)
(* request was lost, the core stopped half-way, or the answer was lost or  *)
(* came after the client's timeout.  A call takes effect as one step;      *)
(* interleaving inside the core is not modelled here.                      *)
(***************************************************************************)
EXTENDS Naturals

CONSTANTS
  CategoryIds,    \* searcher ids, the key search_config_id
  Titles,         \* category titles
  NoTitle,        \* there is no category yet; not one of Titles
  Tenders         \* notices, by registration number

VARIABLE cat      \* [CategoryIds -> Categories]

Categories == [title : Titles \cup {NoTitle}, synced : Nat, tenders : SUBSET Tenders]

CatalogInit ==
  cat = [i \in CategoryIds |-> [title |-> NoTitle, synced |-> 0, tenders |-> {}]]

CatalogTypeOK == cat \in [CategoryIds -> Categories]

HasCategory(i) == cat[i].title # NoTitle

(***************************************************************************)
(* Client.EnsureCategory: GET the category; on 200 that is all.  Any other *)
(* answer, also an error of a GET for a category that does exist, is       *)
(* followed by POST, which creates the category or renames it (and answers *)
(* 201 also when that renaming UPDATE fails).  The client would take a 409 *)
(* for success as well, which the patched core never answers.              *)
(***************************************************************************)
CategoryFound(i, ok) == HasCategory(i) /\ ok /\ UNCHANGED cat

CategoryCallFails(ok) == ~ok /\ UNCHANGED cat

CategoryPosted(i, t, ok) ==
  /\ ok \in BOOLEAN
  /\ cat' = [cat EXCEPT ![i].title = t]

EnsureCategory(i, t, ok) ==
  \/ CategoryFound(i, ok)
  \/ CategoryCallFails(ok)
  \/ CategoryPosted(i, t, ok)

(***************************************************************************)
(* Client.SyncSearchConfig: POST .../sync.  The core ensures the category  *)
(* under the given title, upserts the hits one by one outside any          *)
(* transaction, records the version (an error of that UPDATE is ignored)   *)
(* and enqueues an ingest job.  It never unlinks a tender.                 *)
(***************************************************************************)
\* Category c under title t, with the hits linked and version v recorded.
Upserted(c, t, hits, v) ==
  [c EXCEPT !.title = t, !.tenders = @ \cup hits, !.synced = v]

\* A category that exists is renamed, and an error of that UPDATE is ignored too.
TitlesAfter(i, t) == {t, cat[i].title} \ {NoTitle}

SyncCut(i, t, hits, ok) ==
  /\ ~ok
  /\ \E title \in TitlesAfter(i, t), done \in SUBSET hits :
       cat' = [cat EXCEPT ![i] = Upserted(cat[i], title, done, cat[i].synced)]

SyncApplied(i, t, v, hits, ok) ==
  /\ ok \in BOOLEAN
  /\ \E title \in TitlesAfter(i, t), recorded \in {cat[i].synced, v} :
       cat' = [cat EXCEPT ![i] = Upserted(cat[i], title, hits, recorded)]

SyncSearchConfig(i, t, v, hits, ok) ==
  \/ CategoryCallFails(ok)
  \/ SyncCut(i, t, hits, ok)
  \/ SyncApplied(i, t, v, hits, ok)
====
