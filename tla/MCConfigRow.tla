---- MODULE MCConfigRow ----
(***************************************************************************)
(* Bodies with up to two keys at a time: no rule of the decoder or of the  *)
(* query looks at more.                                                    *)
(***************************************************************************)
EXTENDS ConfigRow, TLC

CONSTANTS a, b

MCTexts == {Empty, Spaces, Rub, UpdateDate, a, b}

Number(n) == [json |-> "number", value |-> n]
Text(n) == [json |-> "string", value |-> n]

SomeSizes ==
  {Null} \cup {Number(n) : n \in {-5, 0, 10, 30}} \cup {Text(n) : n \in {-5, 0, 20, 30, NotANumber}}

\* What a body may give for each key.
Choices ==
  [search_string |-> {Empty, Spaces, b},
   morphology |-> {TRUE, FALSE, Null},
   strict_equal |-> {TRUE, FALSE},
   pp_rf615 |-> {TRUE, FALSE, Null},
   pp_rf_615 |-> {TRUE, FALSE, Null},
   appl_submission_close_date_from |-> {Null, Empty, Spaces, a},
   appl_close_from |-> {Empty, b},
   okpd2_codes |-> {Empty, Spaces, a},
   okpd2 |-> {Null, b},
   regions |-> {a},
   currency_code |-> {Null, Empty, Rub, a},
   sort_by |-> {Empty, UpdateDate, a},
   records_per_page |-> SomeSizes]

OneKey == UNION {{k :> x : x \in Choices[k]} : k \in DOMAIN Choices}

MCDocs == {d @@ e : d \in OneKey, e \in OneKey} \cup {<<>>}
====
