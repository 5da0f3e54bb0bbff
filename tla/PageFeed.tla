---- MODULE PageFeed ----
(***************************************************************************)
(* What FetchPages (internal/eissearch/fetch.go) promises to its callback: *)
(* pieces of new registration numbers, none of them twice, until it        *)
(* returns, which it does.  CrawlRuns is written against this promise.     *)
(***************************************************************************)
CONSTANT Regs

VARIABLES
  handed,         \* numbers handed to the callback so far
  ended           \* FetchPages has returned

feedVars == <<handed, ended>>

Init == handed = {} /\ ended = FALSE

\* The callback may be the last thing that happens (its error, the page limit).
Deliver(fresh) ==
  /\ ~ended
  /\ fresh # {}
  /\ fresh \cap handed = {}
  /\ handed' = handed \cup fresh
  /\ ended' \in BOOLEAN

Return ==
  /\ ~ended
  /\ ended' = TRUE
  /\ UNCHANGED handed

Next == (\E fresh \in SUBSET Regs : Deliver(fresh)) \/ Return

Spec == Init /\ [][Next]_feedVars /\ WF_feedVars(Next)
====
