---- MODULE ProfileStore ----
(***************************************************************************)
(* The table search_profiles as internal/db/search_profiles.go uses it:    *)
(* one action per SQL statement.  A single statement is atomic in          *)
(* PostgreSQL and each of them names the row by id AND user_id, so a       *)
(* statement that finds no such row changes nothing.                       *)
(*                                                                         *)
(* Left out, because no property tells them apart: source (always "eis"),  *)
(* enabled (stored, never read back by a handler), the timestamps          *)
(* created_at and updated_at.  last_run_at is kept as a flag: has it ever  *)
(* been set.                                                               *)
(***************************************************************************)
EXTENDS Naturals

CONSTANTS
  Users,          \* rows of the table users
  Ids,            \* UUIDs gen_random_uuid() may hand out
  Names,          \* non-empty searcher names
  Descs,          \* descriptions
  NoDesc,         \* the empty description
  Filters,        \* decoded search configurations (models.SearcherConfig)
  DefaultFilters, \* models.DefaultSearcherConfig()
  DemoId, DemoUser, DemoName, DemoDesc, DemoFilters  \* what 001_init.sql inserts

ASSUME StoreConstants ==
  /\ NoDesc \in Descs
  /\ DefaultFilters \in Filters
  /\ DemoId \in Ids
  /\ DemoUser \in Users
  /\ DemoName \in Names
  /\ DemoDesc \in Descs
  /\ DemoFilters \in Filters

VARIABLES
  status,         \* [Ids -> "unused" | "live" | "deleted"]
  profile         \* [Ids -> Rows]; only the row of a live id is ever read

storeVars == <<status, profile>>

(***************************************************************************)
(* The column eis_config is JSON and the code compares it as JSON.  A      *)
(* configuration written by the service has the form json.Marshal gives    *)
(* it; the row 001_init.sql inserts spells the same kind of configuration  *)
(* with the older keys, which UnmarshalJSON still decodes.  Decoding and   *)
(* marshalling again gives the same JSON for a canonical one and different *)
(* JSON for a legacy one.  (A negative records_per_page, which a body can  *)
(* carry as a string, is outside Filters: it does not survive that trip.)  *)
(***************************************************************************)
StoredConfigs == [filters : Filters, form : {"canonical", "legacy"}]

Rows == [user : Users, name : Names, desc : Descs, cfg : StoredConfigs,
         auto : BOOLEAN, ran : BOOLEAN, ver : Nat \ {0}]

\* models.SearchProfile: a row as a handler holds it, the configuration decoded.
Profiles == [id : Ids, user : Users, name : Names, desc : Descs,
             filters : Filters, auto : BOOLEAN, ver : Nat \ {0}]

DemoRow ==
  [user |-> DemoUser, name |-> DemoName, desc |-> DemoDesc,
   cfg |-> [filters |-> DemoFilters, form |-> "legacy"],
   auto |-> FALSE, ran |-> FALSE, ver |-> 1]

StoreInit ==
  /\ status = [i \in Ids |-> IF i = DemoId THEN "live" ELSE "unused"]
  /\ profile = [i \in Ids |-> DemoRow]

StoreTypeOK ==
  /\ status \in [Ids -> {"unused", "live", "deleted"}]
  /\ profile \in [Ids -> Rows]

\* Mutant of Live: rows are only marked deleted and the statements forget it.
LiveIfMarked(i) == status[i] # "unused"

Live(i) == status[i] = "live"

\* WHERE id = $1 AND user_id = $2
Owned(u, i) == Live(i) /\ profile[i].user = u

\* scanProfile: what a handler gets back from SELECT or RETURNING.
Scan(i) ==
  [id |-> i, user |-> profile[i].user, name |-> profile[i].name,
   desc |-> profile[i].desc, filters |-> profile[i].cfg.filters,
   auto |-> profile[i].auto, ver |-> profile[i].ver]

\* json.Marshal(p.Config), the value bound to $5 or $6.
Stored(filters) == [filters |-> filters, form |-> "canonical"]

\* UNIQUE (user_id, name): user u may give the name n to row i.
NameFree(u, n, i) ==
  \A j \in Ids \ {i} : ~(Owned(u, j) /\ profile[j].name = n)

CreateSearchProfile(u, i, p) ==
  /\ status[i] = "unused"
  /\ NameFree(u, p.name, i)
  /\ status' = [status EXCEPT ![i] = "live"]
  /\ profile' = [profile EXCEPT ![i] =
       [user |-> u, name |-> p.name, desc |-> p.desc,
        cfg |-> Stored(p.filters), auto |-> p.auto, ran |-> FALSE, ver |-> 1]]

\* Mutants of Updated: the version comes from the request, which has none; from
\* the copy the handler read; last_run_at is written back empty.
UpdatedFromRequest(row, p) ==
  [row EXCEPT !.name = p.name, !.desc = p.desc, !.auto = p.auto,
              !.cfg = Stored(p.filters),
              !.ver = IF row.cfg # Stored(p.filters) THEN 0 ELSE @]

UpdatedFromCopy(row, p) ==
  [row EXCEPT !.name = p.name, !.desc = p.desc, !.auto = p.auto,
              !.cfg = Stored(p.filters),
              !.ver = IF row.cfg # Stored(p.filters) THEN p.ver + 1 ELSE p.ver]

UpdatedForgetsRun(row, p) ==
  [row EXCEPT !.name = p.name, !.desc = p.desc, !.auto = p.auto,
              !.cfg = Stored(p.filters), !.ran = FALSE,
              !.ver = IF row.cfg # Stored(p.filters) THEN @ + 1 ELSE @]

\* The row UPDATE leaves behind: every column but last_run_at is overwritten,
\* and config_version is computed from the row found, not from p.
Updated(row, p) ==
  [row EXCEPT !.name = p.name, !.desc = p.desc, !.auto = p.auto,
              !.cfg = Stored(p.filters),
              !.ver = IF row.cfg # Stored(p.filters) THEN @ + 1 ELSE @]

\* Mutants of UpdateSearchProfile: names are only unique on INSERT; the row is
\* written whether it is there or not.
UpdateAnyName(u, i, p) ==
  /\ Owned(u, i)
  /\ profile' = [profile EXCEPT ![i] = Updated(@, p)]
  /\ UNCHANGED status

UpdateBlindly(u, i, p) ==
  /\ NameFree(u, p.name, i)
  /\ profile' = [profile EXCEPT ![i] = Updated(@, p)]
  /\ UNCHANGED status

UpdateSearchProfile(u, i, p) ==
  /\ Owned(u, i)
  /\ NameFree(u, p.name, i)
  /\ profile' = [profile EXCEPT ![i] = Updated(@, p)]
  /\ UNCHANGED status

SetSearcherAutoAI(u, i, enabled) ==
  /\ Owned(u, i)
  /\ profile' = [profile EXCEPT ![i].auto = enabled]
  /\ UNCHANGED status

TouchSearcherRun(u, i) ==
  /\ Owned(u, i)
  /\ profile' = [profile EXCEPT ![i].ran = TRUE]
  /\ UNCHANGED status

DeleteSearchProfile(u, i) ==
  /\ Owned(u, i)
  /\ status' = [status EXCEPT ![i] = "deleted"]
  /\ UNCHANGED profile
====
