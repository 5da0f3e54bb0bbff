---- MODULE ConfigRow ----
(***************************************************************************)
(* The column eis_config of one searcher as JSON, under PUTs that carry a  *)
(* configuration and PUTs that do not.  A handler decodes the row it read  *)
(* (scanProfile), puts the decoded body's configuration in its place if    *)
(* there is one (handleUpdateProfile), and UPDATE stores the encoded       *)
(* configuration, comparing JSON with JSON.                                *)
(*                                                                         *)
(* The row starts as 001_init.sql writes it.  ProfileStore knows no JSON:  *)
(* it takes a stored configuration for a decoded one and a form.  That     *)
(* this is what the JSON amounts to is ImplementsStore.  Overlapping PUTs  *)
(* are ProfileApi's subject; here one follows the other.                   *)
(***************************************************************************)
EXTENDS SearcherConfig

CONSTANTS
  Docs,           \* JSON objects a body may carry as its configuration
  DemoSearch,     \* the search string of the migration's row
  MaxVersion      \* bound of the model: no PUT raises config_version further

ASSUME RowConstants ==
  /\ \A doc \in Docs : IsDocument(doc)
  /\ DemoSearch \in Texts
  /\ MaxVersion \in Nat \ {0}

VARIABLES
  stored,         \* eis_config
  ver,            \* config_version
  bound,          \* history: the configuration the last PUT wrote
  asked           \* history: the query of the configuration last asked for

vars == <<stored, ver, bound, asked>>

DemoDoc ==
  [key \in {"search_string", "morphology", "strict_equal", "pp_rf_615", "sort_by",
            "records_per_page"} |->
     CASE key = "search_string" -> DemoSearch
       [] key = "morphology" -> TRUE
       [] key = "sort_by" -> UpdateDate
       [] key = "records_per_page" -> [json |-> "string", value |-> 10]
       [] OTHER -> FALSE]

Init ==
  /\ stored = DemoDoc
  /\ ver = 1
  /\ bound = Decode(DemoDoc)
  /\ asked = QueryValues(Decode(DemoDoc))

TypeOK ==
  /\ ver \in 1..MaxVersion
  /\ bound \in Configs
  /\ Decode(stored) \in Configs

\* Mutant of Differs: what is decoded from the two is compared.
DiffersDecoded(doc) == Decode(stored) # Decode(doc)

\* eis_config IS DISTINCT FROM $6::jsonb
Differs(doc) == stored # doc

\* Mutant of Update: the column is merged with the new document
\* (eis_config = eis_config || $6), which leaves keys of older spelling in it.
UpdateMerges(c) ==
  /\ stored' = [key \in Keys \cup DOMAIN stored |->
                  IF key \in Keys THEN Encode(c)[key] ELSE stored[key]]
  /\ ver' = IF Differs(Encode(c)) THEN ver + 1 ELSE ver
  /\ ver' <= MaxVersion
  /\ bound' = c

\* UpdateSearchProfile with configuration c.
Update(c) ==
  /\ stored' = Encode(c)
  /\ ver' = IF Differs(Encode(c)) THEN ver + 1 ELSE ver
  /\ ver' <= MaxVersion
  /\ bound' = c

PutConfig(doc) ==
  /\ Update(Decode(doc))
  /\ asked' = QueryValues(Decode(doc))

\* A body without a configuration writes back the one that was read.
PutWithout == Update(Decode(stored)) /\ UNCHANGED asked

Next == (\E doc \in Docs : PutConfig(doc)) \/ PutWithout

Spec == Init /\ [][Next]_vars

----------------------------------------------------------------------------
\* However often a configuration is read, written back and respelled on the way,
\* the EIS is asked what the client that gave it asked for.
AsksAsTold == QueryValues(Decode(stored)) = asked

\* A configuration is read back as it was written, unless its records_per_page is
\* negative, which only a string in a body or a row can make it.
ReadsAsWritten == Decode(stored) = bound \/ bound.size < 0

\* A PUT without a configuration may raise the version, as it does over the row of
\* the migration and over a negative records_per_page; but the next one finds
\* nothing to change, so that no row goes from spelling to spelling.
RewriteSettles == [][PutWithout => ~Differs(Encode(Decode(stored)))']_vars

\* The refinement mapping: the row as ProfileStore has it.
RowNow ==
  [user |-> "u", name |-> "n", desc |-> "", auto |-> FALSE, ran |-> FALSE, ver |-> ver,
   cfg |-> [filters |-> Decode(stored),
            form |-> IF Encode(Decode(stored)) = stored THEN "canonical" ELSE "legacy"]]

Store == INSTANCE ProfileStore WITH
  Users <- {"u"}, Ids <- {"i"}, Names <- {"n"}, Descs <- {""}, NoDesc <- "",
  Filters <- Configs, DefaultFilters <- DefaultSearcherConfig,
  DemoId <- "i", DemoUser <- "u", DemoName <- "n", DemoDesc <- "",
  DemoFilters <- Decode(DemoDoc),
  status <- [i \in {"i"} |-> "live"], profile <- [i \in {"i"} |-> RowNow]

\* A PUT does to the JSON what ProfileStore's UPDATE does to configuration and
\* form, version included; but not one that writes a negative records_per_page.
ImplementsStore ==
  /\ Store!StoreInit
  /\ [][bound'.size > 0 =>
          Store!UpdateSearchProfile("u", "i",
            [id |-> "i", user |-> "u", name |-> "n", desc |-> "", auto |-> FALSE,
             ver |-> ver, filters |-> bound'])]_<<stored, ver>>
====
