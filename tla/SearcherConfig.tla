---- MODULE SearcherConfig ----
(***************************************************************************)
(* models.SearcherConfig: how the JSON of a configuration is decoded,      *)
(* encoded and turned into the EIS query (internal/models/                 *)
(* searcher_config.go).                                                    *)
(*                                                                         *)
(* A JSON object is a function on its keys; it may have keys the decoder   *)
(* does not know (regions is one), which are dropped.  Each kind of field  *)
(* and each special case is represented once: a flag that is on by default *)
(* (morphology; fz44, stage_af and others are like it), one that is off    *)
(* (strict_equal), a text (search_string), a nullable text (appl_...), the *)
(* fields with older spellings or defaults of their own.  The nullable     *)
(* numbers, price_from and price_to, go the way of a nullable text that is *)
(* neither empty nor blank.  Texts are values of which only a few are      *)
(* known: the empty one, blanks, "RUB", "UPDATE_DATE"; a list of OKPD2     *)
(* codes is the text it is joined to.                                      *)
(***************************************************************************)
EXTENDS Integers

CONSTANTS
  Texts,          \* strings
  Empty, Spaces,  \* "" and "  "
  Rub,            \* "RUB"
  UpdateDate,     \* "UPDATE_DATE"
  Null,           \* JSON null, a nil pointer, and a parameter the query lacks
  NotANumber      \* what Atoi makes of other strings

\* A raw records_per_page: a number, or a string by what Atoi makes of it once
\* blanks around it and one "_" at its front are trimmed.  Any other JSON value (a
\* fraction, a bool, a list, an object) counts as a string that is not a number.
RawSizes == [json : {"number"}, value : Int]
              \cup [json : {"string"}, value : Int \cup {NotANumber}]

ASSUME ConfigConstants ==
  /\ {Empty, Spaces, Rub, UpdateDate} \subseteq Texts
  /\ Empty \notin {Spaces, Rub, UpdateDate}
  /\ Null \notin Texts
  /\ Null \notin BOOLEAN
  /\ Null \notin RawSizes
  /\ NotANumber \notin Int

Configs ==
  [search : Texts, morphology : BOOLEAN, strict : BOOLEAN, pprf615 : BOOLEAN,
   applFrom : Texts \cup {Null}, okpd2 : Texts, currency : Texts, sortBy : Texts,
   size : Int]

DefaultSearcherConfig ==
  [search |-> Empty, morphology |-> TRUE, strict |-> FALSE, pprf615 |-> FALSE,
   applFrom |-> Null, okpd2 |-> Empty, currency |-> Rub, sortBy |-> UpdateDate,
   size |-> 50]

\* A document UnmarshalJSON takes: with a value of another type under one of these
\* keys but records_per_page, which takes any, the body or the row is refused as a
\* whole.
IsDocument(doc) ==
  \A key \in DOMAIN doc :
    /\ key \in {"morphology", "strict_equal", "pp_rf615", "pp_rf_615"} =>
         doc[key] \in BOOLEAN \cup {Null}
    /\ key \in {"search_string", "appl_submission_close_date_from", "appl_close_from",
                "okpd2_codes", "okpd2", "currency_code", "sort_by"} =>
         doc[key] \in Texts \cup {Null}
    /\ key = "records_per_page" => doc[key] \in RawSizes \cup {Null}

\* encoding/json: a missing key leaves the default, and so does null, which for
\* a pointer is its default.
Get(doc, key, default) ==
  IF key \in DOMAIN doc /\ doc[key] # Null THEN doc[key] ELSE default

\* Mutant of parseRecordsPerPage: the error of Atoi is not looked at.
parseUnchecked(raw) ==
  IF raw # Null /\ (raw.json = "number" => raw.value > 0) THEN raw.value ELSE 50

\* Only a number above 0 counts as one; a string may well be 0 or below.
parseRecordsPerPage(raw) ==
  IF raw # Null /\ (raw.json = "number" => raw.value > 0) /\ raw.value # NotANumber
  THEN raw.value
  ELSE 50

\* No key leaves 50 as well.
Size(doc) ==
  LET n == parseRecordsPerPage(Get(doc, "records_per_page", Null))
  IN  IF n = 0 THEN 50 ELSE n

\* UnmarshalJSON.  A legacy key fills in for a field that is off or empty.
Decode(doc) ==
  LET off == DefaultSearcherConfig
      appl == Get(doc, "appl_submission_close_date_from", off.applFrom)
      codes == Get(doc, "okpd2_codes", off.okpd2)
      legacyAppl == Get(doc, "appl_close_from", Empty)
  IN  [search |-> Get(doc, "search_string", off.search),
       morphology |-> Get(doc, "morphology", off.morphology),
       strict |-> Get(doc, "strict_equal", off.strict),
       pprf615 |-> \/ Get(doc, "pp_rf615", off.pprf615)
                   \/ Get(doc, "pp_rf_615", FALSE),
       applFrom |-> IF appl \in {Null, Empty} /\ legacyAppl # Empty THEN legacyAppl ELSE appl,
       okpd2 |-> IF codes = Empty THEN Get(doc, "okpd2", Empty) ELSE codes,
       currency |-> Get(doc, "currency_code", off.currency),
       sortBy |-> Get(doc, "sort_by", off.sortBy),
       size |-> Size(doc)]

Keys ==
  {"search_string", "morphology", "strict_equal", "pp_rf615",
   "appl_submission_close_date_from", "okpd2_codes", "currency_code", "sort_by",
   "records_per_page"}

Field(c, key) ==
  CASE key = "search_string" -> c.search
    [] key = "morphology" -> c.morphology
    [] key = "strict_equal" -> c.strict
    [] key = "pp_rf615" -> c.pprf615
    [] key = "appl_submission_close_date_from" -> c.applFrom
    [] key = "okpd2_codes" -> c.okpd2
    [] key = "currency_code" -> c.currency
    [] key = "sort_by" -> c.sortBy
    [] key = "records_per_page" -> [json |-> "number", value |-> c.size]

\* Mutants of Encode: flags that are off are omitted; records_per_page is written
\* the way the query has it.
EncodeOmitOff(c) ==
  LET off == {k \in {"morphology", "strict_equal", "pp_rf615"} : ~Field(c, k)}
  IN  [key \in Keys \ off |-> Field(c, key)]

EncodeQuerySize(c) ==
  [key \in Keys |->
     IF key = "records_per_page"
     THEN [json |-> "string", value |-> IF c.size \in {10, 20, 50} THEN c.size ELSE 50]
     ELSE Field(c, key)]

\* json.Marshal writes every field under its present key.
Encode(c) == [key \in Keys |-> Field(c, key)]

recordsPerPageParam(c) == IF c.size \in {10, 20, 50} THEN c.size ELSE 50

\* strings.TrimSpace(s) and "only if it is not empty".
UnlessBlank(s) == IF s \in {Empty, Spaces, Null} THEN Null ELSE s

QueryValues(c) ==
  [searchString |-> UnlessBlank(c.search),
   morphology |-> c.morphology /\ ~c.strict,
   strictEqual |-> c.strict,
   ppRf615 |-> c.pprf615,
   applSubmissionCloseDateFrom |-> UnlessBlank(c.applFrom),
   okpd2IdsCodes |-> UnlessBlank(c.okpd2),
   currencyCodeGeneral |-> IF c.currency = Rub THEN Null ELSE UnlessBlank(c.currency),
   sortBy |-> IF c.sortBy = Empty THEN UpdateDate ELSE c.sortBy,
   recordsPerPage |-> recordsPerPageParam(c)]
====
