---- MODULE CoreSync ----
(***************************************************************************)
(* zakupki-core's side of the two calls of CoreCatalog, one action per SQL *)
(* statement, as deploy/core/0001-search-config-sync.patch writes them: no *)
(* transaction spans two statements, and any number of calls interleave.   *)
(*                                                                         *)
(* Callers are not restricted.  The service sends one sync of a searcher   *)
(* at a time (CrawlRuns), but a sync it has given up on, by its timeout or *)
(* because it was restarted, goes on here next to the following ones; and  *)
(* POST, PUT and run handlers ensure the category while a crawl syncs.     *)
(*                                                                         *)
(* A statement that fails may have taken effect: the connection can be     *)
(* lost between its commit and the reply.                                  *)
(*                                                                         *)
(* Left out: ids of rows (the slug is unique), the columns of a tender,    *)
(* and that a sync resumes the core's ingest worker.                       *)
(***************************************************************************)
EXTENDS Naturals

CONSTANTS
  CategoryIds,    \* searcher ids, the column search_config_id
  Titles,         \* category titles
  NoTitle,        \* there is no row; not one of Titles
  NoId,           \* search_config_id IS NULL; not one of CategoryIds
  Tenders,        \* notices, by registration number
  Versions,       \* values of config_version a sync may carry
  Slugs,          \* category slugs
  SlugOf,         \* [CategoryIds -> Slugs]: "search-" and twelve digits of the id
  Calls           \* slots for calls the core is working on

ASSUME CoreConstants ==
  /\ NoTitle \notin Titles
  /\ NoId \notin CategoryIds
  /\ Versions \subseteq Nat \ {0}
  /\ SlugOf \in [CategoryIds -> Slugs]

VARIABLES
  category,       \* [Slugs -> Rows]: the table categories with its links
  call            \* [Calls -> CallStates]

vars == <<category, call>>

\* `tenders` are the linked tenders, `ingest` those an ingest job was made for.
Rows == [title : Titles \cup {NoTitle}, id : CategoryIds \cup {NoId},
         synced : Versions \cup {0}, tenders : SUBSET Tenders, ingest : SUBSET Tenders]

NoRow == [title |-> NoTitle, id |-> NoId, synced |-> 0, tenders |-> {}, ingest |-> {}]

\* `pc` names the statement the call is at; `left` are the hits still to upsert.
CallStates ==
  [pc : {"idle"}]
    \cup [pc : {"look", "select", "rename", "insert", "answered"}, kind : {"ensure"},
          id : CategoryIds, title : Titles, ok : BOOLEAN]
    \cup [pc : {"select", "rename", "insert", "upsert", "enqueue", "answered"},
          kind : {"sync"}, id : CategoryIds, title : Titles, ok : BOOLEAN,
          ver : Versions, items : SUBSET Tenders, left : SUBSET Tenders]

IdleCall == [pc |-> "idle"]

Init ==
  /\ category = [s \in Slugs |-> NoRow]
  /\ call = [c \in Calls |-> IdleCall]

TypeOK ==
  /\ category \in [Slugs -> Rows]
  /\ call \in [Calls -> CallStates]

\* GetCategoryBySearchConfigID finds a row.
HasCategory(i) == category[SlugOf[i]].id = i

SlugAt(c) == SlugOf[call[c].id]

Answer(c, ok) == call' = [call EXCEPT ![c].pc = "answered", ![c].ok = ok]

\* A statement returns an error that ends the call; `row` is what the row
\* would have become.
Fails(c, row) ==
  /\ category' \in {category, [category EXCEPT ![SlugAt(c)] = row]}
  /\ Answer(c, FALSE)

\* Client.EnsureCategory begins with a GET of the category.
SendEnsure(c, i, t) ==
  /\ call[c].pc = "idle"
  /\ call' = [call EXCEPT ![c] =
       [pc |-> "look", kind |-> "ensure", id |-> i, title |-> t, ok |-> FALSE]]
  /\ UNCHANGED category

\* Client.SyncSearchConfig, one page of hits.
SendSync(c, i, t, v, items) ==
  /\ call[c].pc = "idle"
  /\ items # {}
  /\ call' = [call EXCEPT ![c] =
       [pc |-> "select", kind |-> "sync", id |-> i, title |-> t, ok |-> FALSE,
        ver |-> v, items |-> items, left |-> items]]
  /\ UNCHANGED category

\* Mutant of Look: any answer to the GET will do.
LookOnce(c) ==
  /\ call[c].pc = "look"
  /\ \E ok \in BOOLEAN : Answer(c, ok)
  /\ UNCHANGED category

\* 200 ends EnsureCategory; any other status, whatever the reason, is followed
\* by POST /categories; no answer at all is an error.
Look(c) ==
  /\ call[c].pc = "look"
  /\ \/ HasCategory(call[c].id) /\ Answer(c, TRUE)
     \/ call' = [call EXCEPT ![c].pc = "select"]
     \/ Answer(c, FALSE)
  /\ UNCHANGED category

\* CreateCategoryWithSearchConfig: SELECT by search_config_id.
Select(c) ==
  /\ call[c].pc = "select"
  /\ \/ call' = [call EXCEPT ![c].pc =
                   IF HasCategory(call[c].id) THEN "rename" ELSE "insert"]
     \/ Answer(c, FALSE)
  /\ UNCHANGED category

\* The category is there: on to the hits of a sync, or done.
Ensured(c) ==
  IF call[c].kind = "sync"
  THEN call' = [call EXCEPT ![c].pc = "upsert"]
  ELSE Answer(c, TRUE)

\* UPDATE categories SET title; its error is dropped.
Rename(c) ==
  /\ call[c].pc = "rename"
  /\ category' \in {category, [category EXCEPT ![SlugAt(c)].title = call[c].title]}
  /\ Ensured(c)

\* INSERT ... ON CONFLICT (slug) DO UPDATE: a row that came in between is
\* renamed, keeps everything else, and gets the id if it had none.
Inserted(row, i, t) ==
  [row EXCEPT !.title = t, !.id = IF row.id = NoId THEN i ELSE @]

Insert(c) ==
  LET row == Inserted(category[SlugAt(c)], call[c].id, call[c].title)
  IN  /\ call[c].pc = "insert"
      /\ \/ category' = [category EXCEPT ![SlugAt(c)] = row] /\ Ensured(c)
         \/ Fails(c, row)

\* Mutant of UpsertTender: a hit that fails is skipped.
UpsertOrSkip(c) ==
  /\ call[c].pc = "upsert"
  /\ \E t \in call[c].left :
       /\ \/ category' = [category EXCEPT ![SlugAt(c)].tenders = @ \cup {t}]
          \/ UNCHANGED category
       /\ call' = [call EXCEPT ![c].left = @ \ {t}]

\* One hit: the tender and its link to the category.
UpsertTender(c) ==
  /\ call[c].pc = "upsert"
  /\ \E t \in call[c].left :
       \/ /\ category' = [category EXCEPT ![SlugAt(c)].tenders = @ \cup {t}]
          /\ call' = [call EXCEPT ![c].left = @ \ {t}]
       \/ Fails(c, [category[SlugAt(c)] EXCEPT !.tenders = @ \cup {t}])

\* Mutants of RecordVersion: the version comes before the hits; it is counted.
RecordFirst(c) ==
  /\ call[c].pc = "upsert"
  /\ category' = [category EXCEPT ![SlugAt(c)].synced = call[c].ver]
  /\ call' = IF call[c].left = {} THEN [call EXCEPT ![c].pc = "enqueue"] ELSE call

RecordNext(c) ==
  /\ call[c].pc = "upsert"
  /\ call[c].left = {}
  /\ category' = [category EXCEPT ![SlugAt(c)].synced = @ + 1]
  /\ call' = [call EXCEPT ![c].pc = "enqueue"]

\* UPDATE categories SET synced_config_version, whatever stands there; its
\* error is dropped.
RecordVersion(c) ==
  /\ call[c].pc = "upsert"
  /\ call[c].left = {}
  /\ category' \in {category, [category EXCEPT ![SlugAt(c)].synced = call[c].ver]}
  /\ call' = [call EXCEPT ![c].pc = "enqueue"]

\* CreateIngestJob for the hits of the page.
Enqueue(c) ==
  LET row == [category[SlugAt(c)] EXCEPT !.ingest = @ \cup call[c].items]
  IN  /\ call[c].pc = "enqueue"
      /\ \/ category' = [category EXCEPT ![SlugAt(c)] = row] /\ Answer(c, TRUE)
         \/ Fails(c, row)

\* The answer is delivered or lost; the core cancels a call whose caller is
\* gone; the core stops.
Leave(c) ==
  /\ call[c].pc # "idle"
  /\ call' = [call EXCEPT ![c] = IdleCall]
  /\ UNCHANGED category

Send(c) ==
  \E i \in CategoryIds, t \in Titles :
    \/ SendEnsure(c, i, t)
    \/ \E v \in Versions, items \in SUBSET Tenders : SendSync(c, i, t, v, items)

Statement(c) ==
  \/ Look(c) \/ Select(c) \/ Rename(c) \/ Insert(c)
  \/ UpsertTender(c) \/ RecordVersion(c) \/ Enqueue(c)

Next == \E c \in Calls : Send(c) \/ Statement(c) \/ Leave(c)

Spec == Init /\ [][Next]_vars

----------------------------------------------------------------------------
Succeeded(c) == call[c].pc = "answered" /\ call[c].ok

\* No two searchers share a slug.
SlugsDistinct ==
  \A i, j \in CategoryIds : SlugOf[i] = SlugOf[j] => i = j

\* EnsureCategory without an error means that the searcher has a category, also
\* when the category was looked up, missed and created by several calls at once,
\* and a sync never works on a searcher without one.
EnsuredHasCategory ==
  \A c \in Calls :
    call[c].pc \in {"upsert", "enqueue"} \/ Succeeded(c) => HasCategory(call[c].id)

\* A sync that answers without an error has linked every hit of the page and
\* made an ingest job for each, however many other calls ran and failed.
AnsweredSyncIsComplete ==
  \A c \in Calls :
    Succeeded(c) /\ call[c].kind = "sync" =>
      /\ call[c].items \subseteq category[SlugAt(c)].tenders
      /\ call[c].items \subseteq category[SlugAt(c)].ingest

\* The refinement mapping: a searcher's category as CoreCatalog has it.
CatalogNow ==
  [i \in CategoryIds |->
     IF HasCategory(i)
     THEN [title |-> category[SlugOf[i]].title, synced |-> category[SlugOf[i]].synced,
           tenders |-> category[SlugOf[i]].tenders]
     ELSE [title |-> NoTitle, synced |-> 0, tenders |-> {}]]

Catalog == INSTANCE CoreCatalog WITH cat <- CatalogNow

\* What CoreCatalog allows the call c to do.
CatalogCall(c, ok) ==
  \/ /\ call[c].kind = "ensure"
     /\ Catalog!EnsureCategory(call[c].id, call[c].title, ok)
  \/ /\ call[c].kind = "sync"
     /\ Catalog!SyncSearchConfig(call[c].id, call[c].title, call[c].ver, call[c].items, ok)

\* What a statement changes in a category is what CoreCatalog allows a call that
\* is under way to do: in particular a version is recorded only with all hits of
\* its page in the list.
ImplementsCatalog ==
  /\ Catalog!CatalogInit
  /\ [][\E c \in Calls, ok \in BOOLEAN : call[c].pc # "idle" /\ CatalogCall(c, ok)]_CatalogNow
====
