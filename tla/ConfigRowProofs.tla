---- MODULE ConfigRowProofs ----
(***************************************************************************)
(* What the JSON of a configuration keeps of it: lemmas about decoding,    *)
(* encoding and the EIS query for every document, and theorems about a row *)
(* that is read and written back any number of times.                      *)
(***************************************************************************)
EXTENDS ConfigRow, TLAPS

\* A number of records is never 0, and a number whatever the document says.
LEMMA SizeType ==
  ASSUME NEW doc, IsDocument(doc)
  PROVE  Size(doc) \in Int \ {0}
<1> DEFINE raw == Get(doc, "records_per_page", Null)
<1>1. raw \in RawSizes \cup {Null}
  BY DEF IsDocument, Get
<1> HIDE DEF raw
<1>2. parseRecordsPerPage(raw) \in Int
  BY <1>1 DEF parseRecordsPerPage, RawSizes
<1> QED
  BY <1>2 DEF Size, raw

LEMMA GetFlag ==
  ASSUME NEW doc, IsDocument(doc), NEW default \in BOOLEAN,
         NEW key \in {"morphology", "strict_equal", "pp_rf615", "pp_rf_615"}
  PROVE  Get(doc, key, default) \in BOOLEAN
<1>1. CASE key \in DOMAIN doc
  <2>1. doc[key] \in BOOLEAN \cup {Null}
    BY <1>1 DEF IsDocument
  <2> QED
    BY <1>1, <2>1 DEF Get
<1>2. CASE key \notin DOMAIN doc
  BY <1>2 DEF Get
<1> QED
  BY <1>1, <1>2

LEMMA GetText ==
  ASSUME NEW doc, IsDocument(doc), NEW default \in Texts \cup {Null},
         NEW key \in {"search_string", "appl_submission_close_date_from", "appl_close_from",
                      "okpd2_codes", "okpd2", "currency_code", "sort_by"}
  PROVE  /\ Get(doc, key, default) \in Texts \cup {Null}
         /\ default \in Texts => Get(doc, key, default) \in Texts
<1>1. CASE key \in DOMAIN doc
  <2>1. doc[key] \in Texts \cup {Null}
    BY <1>1 DEF IsDocument
  <2> QED
    BY <1>1, <2>1 DEF Get
<1>2. CASE key \notin DOMAIN doc
  BY <1>2 DEF Get
<1> QED
  BY <1>1, <1>2

LEMMA DefaultType == DefaultSearcherConfig \in Configs
BY ConfigConstants DEF DefaultSearcherConfig, Configs

\* Every document decodes to a configuration, with a number of records.
LEMMA DecodeType ==
  ASSUME NEW doc, IsDocument(doc)
  PROVE  Decode(doc) \in Configs /\ Decode(doc).size # 0
<1> DEFINE off == DefaultSearcherConfig
           appl == Get(doc, "appl_submission_close_date_from", off.applFrom)
           codes == Get(doc, "okpd2_codes", off.okpd2)
           legacyAppl == Get(doc, "appl_close_from", Empty)
           legacyCodes == Get(doc, "okpd2", Empty)
<1>1. /\ off.search \in Texts /\ off.currency \in Texts /\ off.sortBy \in Texts
      /\ off.okpd2 \in Texts /\ Empty \in Texts /\ off.applFrom \in Texts \cup {Null}
      /\ off.morphology \in BOOLEAN /\ off.strict \in BOOLEAN /\ off.pprf615 \in BOOLEAN
  BY DefaultType, ConfigConstants DEF Configs
<1>2. Get(doc, "search_string", off.search) \in Texts
  BY <1>1, GetText
<1>3. Get(doc, "currency_code", off.currency) \in Texts
  BY <1>1, GetText
<1>4. Get(doc, "sort_by", off.sortBy) \in Texts
  BY <1>1, GetText
<1>5. appl \in Texts \cup {Null}
  BY <1>1, GetText
<1>6. codes \in Texts
  BY <1>1, GetText
<1>7. legacyAppl \in Texts
  BY <1>1, GetText
<1>8. legacyCodes \in Texts
  BY <1>1, GetText
<1>9. Get(doc, "morphology", off.morphology) \in BOOLEAN
  BY <1>1, GetFlag
<1>10. Get(doc, "strict_equal", off.strict) \in BOOLEAN
  BY <1>1, GetFlag
<1>11. (Get(doc, "pp_rf615", off.pprf615) \/ Get(doc, "pp_rf_615", FALSE)) \in BOOLEAN
  OBVIOUS
<1>12. Size(doc) \in Int \ {0}
  BY SizeType
<1>13. Decode(doc) =
         [search |-> Get(doc, "search_string", off.search),
          morphology |-> Get(doc, "morphology", off.morphology),
          strict |-> Get(doc, "strict_equal", off.strict),
          pprf615 |-> Get(doc, "pp_rf615", off.pprf615) \/ Get(doc, "pp_rf_615", FALSE),
          applFrom |-> IF appl \in {Null, Empty} /\ legacyAppl # Empty THEN legacyAppl ELSE appl,
          okpd2 |-> IF codes = Empty THEN legacyCodes ELSE codes,
          currency |-> Get(doc, "currency_code", off.currency),
          sortBy |-> Get(doc, "sort_by", off.sortBy),
          size |-> Size(doc)]
  BY DEF Decode
<1> HIDE DEF off, appl, codes, legacyAppl, legacyCodes
<1>14. (IF appl \in {Null, Empty} /\ legacyAppl # Empty THEN legacyAppl ELSE appl)
         \in Texts \cup {Null}
  BY <1>5, <1>7
<1>15. (IF codes = Empty THEN legacyCodes ELSE codes) \in Texts
  BY <1>6, <1>8
<1> QED
  BY <1>2, <1>3, <1>4, <1>9, <1>10, <1>11, <1>12, <1>13, <1>14, <1>15 DEF Configs

LEMMA EncodedFields ==
  ASSUME NEW c
  PROVE  LET doc == Encode(c) IN
           /\ DOMAIN doc = Keys
           /\ doc["search_string"] = c.search /\ doc["morphology"] = c.morphology
           /\ doc["strict_equal"] = c.strict /\ doc["pp_rf615"] = c.pprf615
           /\ doc["appl_submission_close_date_from"] = c.applFrom
           /\ doc["okpd2_codes"] = c.okpd2 /\ doc["currency_code"] = c.currency
           /\ doc["sort_by"] = c.sortBy
           /\ doc["records_per_page"] = [json |-> "number", value |-> c.size]
BY DEF Encode, Keys, Field

\* What json.Marshal writes is a document again.
LEMMA EncodeType ==
  ASSUME NEW c \in Configs
  PROVE  IsDocument(Encode(c))
<1> DEFINE doc == Encode(c)
<1>1. [json |-> "number", value |-> c.size] \in RawSizes
  BY DEF Configs, RawSizes
<1>2. /\ DOMAIN doc = Keys
      /\ doc["search_string"] \in Texts /\ doc["morphology"] \in BOOLEAN
      /\ doc["strict_equal"] \in BOOLEAN /\ doc["pp_rf615"] \in BOOLEAN
      /\ doc["appl_submission_close_date_from"] \in Texts \cup {Null}
      /\ doc["okpd2_codes"] \in Texts /\ doc["currency_code"] \in Texts
      /\ doc["sort_by"] \in Texts
      /\ doc["records_per_page"] \in RawSizes
  BY <1>1, EncodedFields DEF Configs
<1> HIDE DEF doc
<1>3. IsDocument(doc)
  BY <1>2 DEF IsDocument, Keys
<1> QED
  BY <1>3 DEF doc

\* The trip through the column: a configuration comes back as it went, but for a
\* number of records below 1, which comes back as 50.
LEMMA RoundTrip ==
  ASSUME NEW c \in Configs
  PROVE  Decode(Encode(c)) = [c EXCEPT !.size = IF c.size > 0 THEN c.size ELSE 50]
<1> DEFINE doc == Encode(c)
           raw == [json |-> "number", value |-> c.size]
<1>1. /\ c.search \in Texts /\ c.morphology \in BOOLEAN /\ c.strict \in BOOLEAN
      /\ c.pprf615 \in BOOLEAN /\ c.applFrom \in Texts \cup {Null} /\ c.okpd2 \in Texts
      /\ c.currency \in Texts /\ c.sortBy \in Texts /\ c.size \in Int
  BY DEF Configs
<1>2. /\ DOMAIN doc = Keys
      /\ doc["search_string"] = c.search /\ doc["morphology"] = c.morphology
      /\ doc["strict_equal"] = c.strict /\ doc["pp_rf615"] = c.pprf615
      /\ doc["appl_submission_close_date_from"] = c.applFrom
      /\ doc["okpd2_codes"] = c.okpd2 /\ doc["currency_code"] = c.currency
      /\ doc["sort_by"] = c.sortBy
      /\ doc["records_per_page"] = raw
  BY EncodedFields
<1>3. raw \in RawSizes /\ raw # Null /\ raw.json = "number" /\ raw.value = c.size
  BY <1>1, ConfigConstants DEF RawSizes
<1> HIDE DEF doc, raw
<1>4. \A x : /\ Get(doc, "search_string", x) = c.search
             /\ Get(doc, "morphology", x) = c.morphology
             /\ Get(doc, "strict_equal", x) = c.strict
             /\ Get(doc, "pp_rf615", x) = c.pprf615
             /\ Get(doc, "okpd2_codes", x) = c.okpd2
             /\ Get(doc, "currency_code", x) = c.currency
             /\ Get(doc, "sort_by", x) = c.sortBy
             /\ Get(doc, "records_per_page", x) = raw
             /\ Get(doc, "pp_rf_615", x) = x
             /\ Get(doc, "okpd2", x) = x
             /\ Get(doc, "appl_close_from", x) = x
  BY <1>1, <1>2, <1>3, ConfigConstants DEF Get, Keys
<1>5. Get(doc, "appl_submission_close_date_from", DefaultSearcherConfig.applFrom) = c.applFrom
  BY <1>2 DEF Get, Keys, DefaultSearcherConfig
<1>6. Size(doc) = IF c.size > 0 THEN c.size ELSE 50
  <2>1. c.size # NotANumber
    BY <1>1, ConfigConstants
  <2>2. parseRecordsPerPage(raw) = IF c.size > 0 THEN c.size ELSE 50
    BY <1>3, <2>1 DEF parseRecordsPerPage
  <2> QED
    BY <1>1, <1>4, <2>2 DEF Size
<1>7. Decode(doc) =
        [search |-> c.search, morphology |-> c.morphology, strict |-> c.strict,
         pprf615 |-> c.pprf615, applFrom |-> c.applFrom, okpd2 |-> c.okpd2,
         currency |-> c.currency, sortBy |-> c.sortBy, size |-> Size(doc)]
  <2>1. (c.pprf615 \/ FALSE) = c.pprf615
    BY <1>1
  <2>2. (IF c.okpd2 = Empty THEN Empty ELSE c.okpd2) = c.okpd2
    OBVIOUS
  <2> QED
    BY <1>4, <1>5, <2>1, <2>2 DEF Decode
<1>8. c = [search |-> c.search, morphology |-> c.morphology, strict |-> c.strict,
           pprf615 |-> c.pprf615, applFrom |-> c.applFrom, okpd2 |-> c.okpd2,
           currency |-> c.currency, sortBy |-> c.sortBy, size |-> c.size]
  BY DEF Configs
<1> DEFINE n == IF c.size > 0 THEN c.size ELSE 50
<1> HIDE DEF n
<1>9. [c EXCEPT !.size = n] =
        [search |-> c.search, morphology |-> c.morphology, strict |-> c.strict,
         pprf615 |-> c.pprf615, applFrom |-> c.applFrom, okpd2 |-> c.okpd2,
         currency |-> c.currency, sortBy |-> c.sortBy, size |-> n]
  BY <1>8
<1> QED
  BY <1>6, <1>7, <1>9 DEF doc, n

\* The same for one that every PUT can write.
LEMMA RoundTripKeeps ==
  ASSUME NEW c \in Configs, c.size > 0
  PROVE  Decode(Encode(c)) = c
<1>1. [c EXCEPT !.size = c.size] = c
  BY DEF Configs
<1> QED
  BY <1>1, RoundTrip

\* The trip does not change what the EIS is asked.
LEMMA QuerySurvives ==
  ASSUME NEW c \in Configs
  PROVE  QueryValues(Decode(Encode(c))) = QueryValues(c)
<1> DEFINE n == IF c.size > 0 THEN c.size ELSE 50
           d == [c EXCEPT !.size = n]
<1>1. c.size \in Int /\ d.size = n
  BY DEF Configs
<1>2. /\ d.search = c.search /\ d.morphology = c.morphology /\ d.strict = c.strict
      /\ d.pprf615 = c.pprf615 /\ d.applFrom = c.applFrom /\ d.okpd2 = c.okpd2
      /\ d.currency = c.currency /\ d.sortBy = c.sortBy
  BY DEF Configs
<1>3. (IF n \in {10, 20, 50} THEN n ELSE 50) = (IF c.size \in {10, 20, 50} THEN c.size ELSE 50)
  BY <1>1
<1> HIDE DEF n, d
<1>4. QueryValues(d) = QueryValues(c)
  BY <1>1, <1>2, <1>3 DEF QueryValues, recordsPerPageParam
<1> QED
  BY <1>4, RoundTrip DEF d, n

----------------------------------------------------------------------------
\* The row holds a document, whose query is the one last asked for; `bound` went
\* in, and came back unless its number of records is negative: what comes back has
\* one above 0.
RowInv ==
  /\ IsDocument(stored)
  /\ ver \in 1..MaxVersion
  /\ bound \in Configs
  /\ Decode(stored).size > 0
  /\ AsksAsTold
  /\ ReadsAsWritten

LEMMA DemoIsDocument == IsDocument(DemoDoc)
<1>1. /\ DemoDoc["search_string"] \in Texts /\ DemoDoc["sort_by"] \in Texts
      /\ DemoDoc["morphology"] \in BOOLEAN /\ DemoDoc["strict_equal"] \in BOOLEAN
      /\ DemoDoc["pp_rf_615"] \in BOOLEAN /\ DemoDoc["records_per_page"] \in RawSizes
      /\ DOMAIN DemoDoc = {"search_string", "morphology", "strict_equal", "pp_rf_615",
                           "sort_by", "records_per_page"}
  BY ConfigConstants, RowConstants DEF DemoDoc, RawSizes
<1> HIDE DEF DemoDoc
<1> QED
  BY <1>1 DEF IsDocument

LEMMA RowInit == Init => RowInv
<1> SUFFICES ASSUME Init PROVE RowInv
  OBVIOUS
<1>1. ver \in 1..MaxVersion
  BY RowConstants DEF Init
<1>2. Decode(DemoDoc).size > 0
  <2> DEFINE raw == [json |-> "string", value |-> 10]
  <2>1. raw # Null /\ 10 # NotANumber
    BY ConfigConstants DEF RawSizes
  <2>2. "records_per_page" \in DOMAIN DemoDoc /\ DemoDoc["records_per_page"] = raw
    BY DEF DemoDoc
  <2>3. Get(DemoDoc, "records_per_page", Null) = raw
    BY <2>1, <2>2 DEF Get
  <2>4. Size(DemoDoc) = 10
    BY <2>1, <2>3 DEF Size, parseRecordsPerPage
  <2> QED
    BY <2>4 DEF Decode
<1> QED
  BY <1>1, <1>2, DemoIsDocument, DecodeType DEF Init, RowInv, AsksAsTold, ReadsAsWritten

\* The statement writes one configuration or another.
LEMMA UpdateKeeps ==
  ASSUME RowInv, NEW c \in Configs, c.size # 0, Update(c), asked' = QueryValues(c)
  PROVE  RowInv'
<1>1. stored' = Encode(c) /\ bound' = c
  BY DEF Update
<1>2. ver' \in 1..MaxVersion
  BY RowConstants DEF RowInv, Update
<1>3. IsDocument(stored')
  BY <1>1, EncodeType
<1>4. QueryValues(Decode(stored')) = asked'
  BY <1>1, QuerySurvives
<1>5. Decode(stored') = c \/ c.size < 0
  <2>1. c.size \in Int
    BY DEF Configs
  <2>2. CASE c.size > 0
    BY <1>1, <2>2, RoundTripKeeps
  <2> QED
    BY <2>1, <2>2
<1>6. Decode(stored').size > 0
  <2>1. c.size \in Int /\ Decode(stored') = [c EXCEPT !.size = IF c.size > 0 THEN c.size ELSE 50]
    BY <1>1, RoundTrip DEF Configs
  <2>2. PICK n : n = IF c.size > 0 THEN c.size ELSE 50
    OBVIOUS
  <2>3. [c EXCEPT !.size = n].size = n
    BY DEF Configs
  <2> QED
    BY <2>1, <2>2, <2>3
<1> QED
  BY <1>1, <1>2, <1>3, <1>4, <1>5, <1>6 DEF RowInv, AsksAsTold, ReadsAsWritten

LEMMA RowStep == RowInv /\ [Next]_vars => RowInv'
<1> SUFFICES ASSUME RowInv, [Next]_vars PROVE RowInv'
  OBVIOUS
<1>1. ASSUME NEW doc \in Docs, PutConfig(doc)
      PROVE  RowInv'
  BY <1>1, RowConstants, DecodeType, UpdateKeeps DEF PutConfig
<1>2. CASE PutWithout
  <2>1. Decode(stored) \in Configs /\ Decode(stored).size # 0
    BY DecodeType DEF RowInv
  <2>2. asked' = QueryValues(Decode(stored)) /\ Update(Decode(stored))
    BY <1>2 DEF PutWithout, RowInv, AsksAsTold
  <2> QED
    BY <2>1, <2>2, UpdateKeeps
<1>3. CASE UNCHANGED vars
  BY <1>3 DEF vars, RowInv, AsksAsTold, ReadsAsWritten
<1> QED
  BY <1>1, <1>2, <1>3 DEF Next

LEMMA RowInvariant == Spec => []RowInv
<1>1. Init => RowInv
  BY RowInit
<1>2. RowInv /\ [Next]_vars => RowInv'
  BY RowStep
<1> QED
  BY <1>1, <1>2, PTL DEF Spec

\* Whatever documents the bodies carry, what is stored decodes to a configuration.
THEOREM TypeCorrect == Spec => []TypeOK
<1>1. RowInv => TypeOK
  BY DecodeType DEF RowInv, TypeOK
<1> QED
  BY <1>1, RowInvariant, PTL

\* The EIS is asked what the last body with a configuration asked for, after any
\* number of PUTs without one, older spellings and odd page sizes included.
THEOREM QueryIsKept == Spec => []AsksAsTold
<1>1. RowInv => AsksAsTold
  BY DEF RowInv
<1> QED
  BY <1>1, RowInvariant, PTL

\* A handler reads the configuration that the last PUT wrote.
THEOREM ReadBack == Spec => []ReadsAsWritten
<1>1. RowInv => ReadsAsWritten
  BY DEF RowInv
<1> QED
  BY <1>1, RowInvariant, PTL

\* After a PUT without a configuration the row is as json.Marshal would write it again,
\* whatever spelling or size it had before: the next one leaves the version alone.
THEOREM RewritingSettles == Spec => RewriteSettles
<1>1. ASSUME RowInv, PutWithout
      PROVE  ~(stored' # Encode(Decode(stored')))
  <2>1. PICK c : c = Decode(stored)
    OBVIOUS
  <2>2. c \in Configs /\ c.size > 0 /\ stored' = Encode(c)
    BY <1>1, <2>1, DecodeType DEF RowInv, PutWithout, Update
  <2>3. Decode(stored') = c
    BY <2>2, RoundTripKeeps
  <2> QED
    BY <2>2, <2>3
<1>2. RowInv /\ [Next]_vars => [PutWithout => ~Differs(Encode(Decode(stored)))']_vars
  BY <1>1 DEF Differs
<1> QED
  BY <1>2, RowInvariant, PTL DEF Spec, RewriteSettles

----------------------------------------------------------------------------
\* The row written by a PUT has the form json.Marshal gives, so that ProfileStore
\* may compare configuration and form where the statement compares JSON.
LEMMA RowAfter ==
  ASSUME NEW c \in Configs, c.size > 0, stored' = Encode(c)
  PROVE  RowNow'.cfg = [filters |-> c, form |-> "canonical"] /\ RowNow'.ver = ver'
<1>1. Decode(stored') = c
  BY RoundTripKeeps
<1>2. Encode(Decode(stored')) = stored'
  BY <1>1
<1> QED
  BY <1>1, <1>2 DEF RowNow

\* A stored document equals the encoding of c exactly if it is canonical and
\* decodes to c.
LEMMA SameDocument ==
  ASSUME NEW c \in Configs, c.size > 0
  PROVE  stored = Encode(c) <=> RowNow.cfg = [filters |-> c, form |-> "canonical"]
<1>1. RowNow.cfg = [filters |-> Decode(stored),
                    form |-> IF Encode(Decode(stored)) = stored THEN "canonical" ELSE "legacy"]
  BY DEF RowNow
<1>2. ASSUME stored = Encode(c)
      PROVE  RowNow.cfg = [filters |-> c, form |-> "canonical"]
  <2>1. Decode(stored) = c
    BY <1>2, RoundTripKeeps
  <2> QED
    BY <1>1, <1>2, <2>1
<1>3. ASSUME RowNow.cfg = [filters |-> c, form |-> "canonical"]
      PROVE  stored = Encode(c)
  <2>1. Decode(stored) = c
    BY <1>1, <1>3
  <2>2. Encode(Decode(stored)) = stored
    BY <1>1, <1>3
  <2> QED
    BY <2>1, <2>2
<1> QED
  BY <1>2, <1>3

LEMMA StartMaps == Init => Store!StoreInit
<1> SUFFICES ASSUME Init PROVE Store!StoreInit
  OBVIOUS
<1>1. Encode(Decode(stored)) # stored
  <2>1. DOMAIN stored # Keys
    BY DEF Init, DemoDoc, Keys
  <2> QED
    BY <2>1, EncodedFields
<1>2. RowNow = Store!DemoRow
  BY <1>1 DEF Init, RowNow, Store!DemoRow
<1> QED
  BY <1>2 DEF Store!StoreInit

StoredByPut ==
  Store!UpdateSearchProfile("u", "i",
    [id |-> "i", user |-> "u", name |-> "n", desc |-> "", auto |-> FALSE,
     ver |-> ver, filters |-> bound'])

\* UPDATE sets five columns of the row.
LEMMA ColumnsSet ==
  ASSUME NEW C, NEW row \in [user : {"u"}, name : {"n"}, desc : {""}, auto : BOOLEAN,
                            ran : BOOLEAN, ver : Int, cfg : C],
         row.auto = FALSE, row.ran = FALSE, NEW cfg \in C, NEW w \in Int
  PROVE  [row EXCEPT !.name = "n", !.desc = "", !.auto = FALSE, !.cfg = cfg, !.ver = w]
         = [user |-> "u", name |-> "n", desc |-> "", auto |-> FALSE, ran |-> FALSE,
            ver |-> w, cfg |-> cfg]
<1> DEFINE RowType == [user : {"u"}, name : {"n"}, desc : {""}, auto : BOOLEAN,
                       ran : BOOLEAN, ver : Int, cfg : C]
           named == [row EXCEPT !.name = "n"]
           described == [named EXCEPT !.desc = ""]
           flagged == [described EXCEPT !.auto = FALSE]
           configured == [flagged EXCEPT !.cfg = cfg]
           new == [configured EXCEPT !.ver = w]
<1>1. [row EXCEPT !.name = "n", !.desc = "", !.auto = FALSE, !.cfg = cfg, !.ver = w] = new
  OBVIOUS
<1>2. named \in RowType /\ named.auto = FALSE /\ named.ran = FALSE
  OBVIOUS
<1> HIDE DEF named
<1>3. described \in RowType /\ described.auto = FALSE /\ described.ran = FALSE
  BY <1>2
<1> HIDE DEF described
<1>4. flagged \in RowType /\ flagged.auto = FALSE /\ flagged.ran = FALSE
  BY <1>3
<1> HIDE DEF flagged
<1>5. /\ configured \in RowType /\ configured.cfg = cfg
      /\ configured.auto = FALSE /\ configured.ran = FALSE
  BY <1>4
<1> HIDE DEF configured
<1>6. /\ new \in RowType /\ new.cfg = cfg /\ new.ver = w
      /\ new.auto = FALSE /\ new.ran = FALSE
  BY <1>5
<1> HIDE DEF new
<1>7. new = [user |-> "u", name |-> "n", desc |-> "", auto |-> FALSE, ran |-> FALSE,
             ver |-> w, cfg |-> cfg]
  BY <1>6
<1> QED
  BY <1>1, <1>7

LEMMA UpdateMaps ==
  ASSUME RowInv, NEW c \in Configs, c.size > 0, Update(c)
  PROVE  StoredByPut
<1> DEFINE p == [id |-> "i", user |-> "u", name |-> "n", desc |-> "", auto |-> FALSE,
                 ver |-> ver, filters |-> c]
           old == RowNow
           ran == [user |-> "u", name |-> "n", desc |-> "", auto |-> FALSE, ran |-> FALSE,
                   ver |-> ver', cfg |-> [filters |-> c, form |-> "canonical"]]
<1>1. stored' = Encode(c) /\ bound' = c
  BY DEF Update
<1>2. Store!Stored(c) = [filters |-> c, form |-> "canonical"]
  BY DEF Store!Stored
<1>3. ver' = IF old.cfg # Store!Stored(c) THEN ver + 1 ELSE ver
  BY <1>2, SameDocument DEF Update, Differs
<1>4. RowNow' = ran
  BY <1>1, RowAfter DEF RowNow
<1>5. Store!Updated(old, p) = ran
  <2> DEFINE k == RowNow.cfg
             row == [user |-> "u", name |-> "n", desc |-> "", auto |-> FALSE, ran |-> FALSE,
                     ver |-> ver, cfg |-> k]
             stored2 == Store!Stored(c)
             v == IF k # stored2 THEN ver + 1 ELSE ver
  <2>1. old = row
    BY DEF RowNow
  <2>2. ver' = v /\ stored2 = [filters |-> c, form |-> "canonical"]
    BY <1>2, <1>3
  <2> HIDE DEF k, stored2
  <2>3. Store!Updated(row, p) =
          [row EXCEPT !.name = "n", !.desc = "", !.auto = FALSE, !.cfg = stored2, !.ver = v]
    BY DEF Store!Updated, stored2
  <2> HIDE DEF v
  <2>4. /\ row \in [user : {"u"}, name : {"n"}, desc : {""}, auto : BOOLEAN,
                    ran : BOOLEAN, ver : Int, cfg : {k, stored2}]
        /\ row.auto = FALSE /\ row.ran = FALSE /\ v \in Int
    BY RowConstants DEF RowInv, v
  <2> HIDE DEF row, v
  <2> QED
    BY <2>1, <2>2, <2>3, <2>4, ColumnsSet
<1>6. Store!Owned("u", "i")
  BY DEF Store!Owned, Store!Live, RowNow
<1>7. Store!NameFree("u", "n", "i")
  BY DEF Store!NameFree
<1> HIDE DEF old, ran
<1>8. [i \in {"i"} |-> RowNow'] = [[i \in {"i"} |-> RowNow] EXCEPT !["i"] = Store!Updated(@, p)]
  BY <1>4, <1>5 DEF old
<1> QED
  BY <1>1, <1>6, <1>7, <1>8 DEF StoredByPut, Store!UpdateSearchProfile

LEMMA StepMaps ==
  RowInv /\ [Next]_vars => [bound'.size > 0 => StoredByPut]_<<stored, ver>>
<1> SUFFICES ASSUME RowInv, [Next]_vars, ~UNCHANGED <<stored, ver>>, bound'.size > 0
             PROVE  StoredByPut
  OBVIOUS
<1>1. PICK c : c \in Configs /\ Update(c)
  <2>1. ASSUME NEW doc \in Docs, PutConfig(doc)
        PROVE  Decode(doc) \in Configs /\ Update(Decode(doc))
    BY <2>1, RowConstants, DecodeType DEF PutConfig
  <2>2. ASSUME PutWithout
        PROVE  Decode(stored) \in Configs /\ Update(Decode(stored))
    BY <2>2, DecodeType DEF PutWithout, RowInv
  <2>3. Next
    BY DEF vars
  <2> QED
    BY <2>1, <2>2, <2>3 DEF Next
<1>2. bound' = c
  BY <1>1 DEF Update
<1> QED
  BY <1>1, <1>2, UpdateMaps

\* A PUT is ProfileStore's UPDATE of the row, for every document and history.
THEOREM StoreImplemented == Spec => ImplementsStore
<1>1. RowInv /\ [Next]_vars => [bound'.size > 0 => StoredByPut]_<<stored, ver>>
  BY StepMaps
<1>2. Init => Store!StoreInit
  BY StartMaps
<1> QED
  BY <1>1, <1>2, RowInvariant, PTL DEF Spec, ImplementsStore, StoredByPut
====
