---- MODULE FetchPages ----
(***************************************************************************)
(* Fetcher.FetchPages and getRetry of internal/eissearch/fetch.go: one     *)
(* crawl over the result pages of zakupki.gov.ru.  The listing is not a    *)
(* snapshot: between two GETs the site publishes, updates and withdraws    *)
(* notices, so that entries move from page to page while they are read.    *)
(* seen, page, pages and total are the variables of the function.          *)
(***************************************************************************)
EXTENDS Integers, FiniteSets, Sequences

CONSTANTS
  Regs,           \* registration numbers
  FirstListing,   \* the listing when the crawl starts, newest first
  PageSize,       \* recordsPerPage (pageSizeParam: 50)
  MaxPagesArg,    \* the argument maxPages
  DefaultMaxPages,
  PageFetchRetries,
  Moves,          \* what the site does meanwhile: "publish", "update", "withdraw"
  MaxDrift,       \* bound: moves between two pages
  MayBlock        \* may the site answer 200 with a page without entries (captcha)

ASSUME FetchConstants ==
  /\ FirstListing \in Seq(Regs)
  /\ PageSize \in Nat \ {0}
  /\ MaxPagesArg \in Int
  /\ DefaultMaxPages \in Nat \ {0}
  /\ PageFetchRetries \in Nat \ {0}
  /\ Moves \subseteq {"publish", "update", "withdraw"}
  /\ MaxDrift \in Nat
  /\ MayBlock \in BOOLEAN

VARIABLES
  listing,        \* Seq(Regs), what the site would list now
  drift,          \* moves since the last page
  quiet,          \* history: it only published, fewer than PageSize between pages
  status,         \* "fetching", or how FetchPages returned: "done" | "failed"
  page,           \* the loop variable
  attempt,        \* i of getRetry
  seen, pages, total

siteVars == <<listing, drift, quiet>>
fetchVars == <<status, page, attempt, seen, pages, total>>
vars == <<listing, drift, quiet, status, page, attempt, seen, pages, total>>

\* maxPages after the two clamps.
MaxPages ==
  IF MaxPagesArg < 1 \/ MaxPagesArg > DefaultMaxPages
    THEN DefaultMaxPages
    ELSE MaxPagesArg

Init ==
  /\ listing = FirstListing
  /\ drift = 0
  /\ quiet = TRUE
  /\ status = "fetching"
  /\ page = 1
  /\ attempt = 0
  /\ seen = {}
  /\ pages = 0
  /\ total = 0

TypeOK ==
  /\ listing \in Seq(Regs)
  /\ drift \in 0..MaxDrift
  /\ quiet \in BOOLEAN
  /\ status \in {"fetching", "done", "failed"}
  /\ page \in 1..MaxPages
  /\ attempt \in 0..(PageFetchRetries - 1)
  /\ seen \in SUBSET Regs
  /\ pages \in 0..MaxPages
  /\ total \in Nat

Listed == {listing[k] : k \in DOMAIN listing}

\* The listing without its k-th entry.
Without(k) ==
  [j \in 1..(Len(listing) - 1) |-> IF j < k THEN listing[j] ELSE listing[j + 1]]

\* parseHits over the entries n-th page shows now.
Hits(n) ==
  {listing[k] : k \in {j \in DOMAIN listing : (n - 1) * PageSize < j /\ j <= n * PageSize}}

(***************************************************************************)
(* The site.  Listings are sorted by date, newest first, which is the      *)
(* default sort of a searcher.                                             *)
(***************************************************************************)
MoveListing(next) ==
  /\ status = "fetching"
  /\ drift < MaxDrift
  /\ drift' = drift + 1
  /\ listing' = next
  /\ UNCHANGED fetchVars

Publish(reg) ==
  /\ "publish" \in Moves /\ reg \notin Listed
  /\ MoveListing(<<reg>> \o listing)
  /\ quiet' = (quiet /\ drift' < PageSize)

Update(k) ==
  /\ "update" \in Moves
  /\ MoveListing(<<listing[k]>> \o Without(k))
  /\ quiet' = FALSE

Withdraw(k) ==
  /\ "withdraw" \in Moves
  /\ MoveListing(Without(k))
  /\ quiet' = FALSE

(***************************************************************************)
(* The crawl.  A page arrives with `hits`; the callback gets what is not   *)
(* in seen and `ok` is whether it returned nil.  The loop stops after a    *)
(* page with nothing new and after page MaxPages.                          *)
(***************************************************************************)
\* (The mutants of PageArrives: the page limit off by one; seen not consulted;
\* a page with fewer new entries than a page holds taken for the last one.)
PageArrivesLate(hits, ok) ==
  LET fresh == hits \ seen IN
    /\ status = "fetching"
    /\ seen' = seen \cup fresh
    /\ pages' = page
    /\ total' = total + Cardinality(fresh)
    /\ attempt' = 0
    /\ drift' = 0
    /\ status' = IF ~ok THEN "failed"
                 ELSE IF fresh = {} \/ page > MaxPages THEN "done" ELSE "fetching"
    /\ page' = IF status' = "fetching" THEN page + 1 ELSE page
    /\ UNCHANGED listing

PageArrivesUnseen(hits, ok) ==
  /\ status = "fetching"
  /\ seen' = seen \cup hits
  /\ pages' = page
  /\ total' = total + Cardinality(hits)
  /\ attempt' = 0
  /\ drift' = 0
  /\ status' = IF ~ok THEN "failed"
               ELSE IF hits = {} \/ page = MaxPages THEN "done" ELSE "fetching"
  /\ page' = IF status' = "fetching" THEN page + 1 ELSE page
  /\ UNCHANGED listing

PageArrivesShort(hits, ok) ==
  LET fresh == hits \ seen IN
    /\ status = "fetching"
    /\ seen' = seen \cup fresh
    /\ pages' = page
    /\ total' = total + Cardinality(fresh)
    /\ attempt' = 0
    /\ drift' = 0
    /\ status' = IF ~ok THEN "failed"
                 ELSE IF Cardinality(fresh) < PageSize \/ page = MaxPages THEN "done"
                 ELSE "fetching"
    /\ page' = IF status' = "fetching" THEN page + 1 ELSE page
    /\ UNCHANGED listing

PageArrives(hits, ok) ==
  LET fresh == hits \ seen IN
    /\ status = "fetching"
    /\ seen' = seen \cup fresh
    /\ pages' = page
    /\ total' = total + Cardinality(fresh)
    /\ attempt' = 0
    /\ drift' = 0
    /\ status' = IF ~ok THEN "failed"
                 ELSE IF fresh = {} \/ page = MaxPages THEN "done" ELSE "fetching"
    /\ page' = IF status' = "fetching" THEN page + 1 ELSE page
    /\ UNCHANGED listing

\* crawlSearcher's callback does nothing on an empty page, so it cannot fail there.
ReadPage == \E ok \in BOOLEAN :
  /\ ~ok => Hits(page) \ seen # {}
  /\ PageArrives(Hits(page), ok)
  /\ UNCHANGED quiet

\* A 200 answer none of whose blocks holds a notice link: parseHits gives no hits.
ReadBlockedPage == MayBlock /\ PageArrives({}, TRUE) /\ quiet' = FALSE

\* Mutant of AttemptFails: the attempts are never used up.
AttemptFailsForever ==
  /\ status = "fetching"
  /\ attempt' = (attempt + 1) % PageFetchRetries
  /\ UNCHANGED <<siteVars, status, page, seen, pages, total>>

\* getRetry: an error or a status >= 300.
AttemptFails ==
  /\ status = "fetching"
  /\ IF attempt + 1 < PageFetchRetries
       THEN attempt' = attempt + 1 /\ status' = status
       ELSE attempt' = attempt /\ status' = "failed"
  /\ UNCHANGED <<siteVars, page, seen, pages, total>>

\* ctx is done: seen before a page, in a pause, or as the error of a request.
Cancel ==
  /\ status = "fetching"
  /\ status' = "failed"
  /\ UNCHANGED <<siteVars, page, attempt, seen, pages, total>>

Fetch == ReadPage \/ ReadBlockedPage \/ AttemptFails \/ Cancel

Next ==
  \/ \E reg \in Regs : Publish(reg)
  \/ \E k \in DOMAIN listing : Update(k) \/ Withdraw(k)
  \/ Fetch

\* Every wait of the loop ends: pauses are timed, requests carry ctx, and ctx
\* has a deadline.
Spec == Init /\ [][Next]_vars /\ WF_vars(Fetch)

----------------------------------------------------------------------------
\* found_count counts notices, not rows: a notice that moves to a later page
\* while the crawl reads on is neither counted nor handed over again.
FoundCountIsDistinct == total = Cardinality(seen)

\* A walk that ends without an error has handed over every notice listed at its
\* start, if meanwhile the site only published, fewer notices between two pages
\* than a page holds, and the page limit did not cut the listing off: the stop at
\* a page with nothing new never fires early, nothing slips between two pages.
DoneCoversListing ==
  status = "done" /\ quiet
    /\ (pages < MaxPages \/ Len(listing) <= MaxPages * PageSize) =>
      \A k \in DOMAIN FirstListing : FirstListing[k] \in seen

\* The site lists a notice once.
ListedOnce ==
  \A j, k \in DOMAIN FirstListing : FirstListing[j] = FirstListing[k] => j = k

\* How many GETs the walk may still send, the one it is at included.
GetsLeft ==
  IF status = "fetching"
    THEN (MaxPages - page) * PageFetchRetries + (PageFetchRetries - attempt)
    ELSE 0

\* Every answer, failure or cancellation uses up one of the MaxPages times
\* PageFetchRetries GETs, or ends the walk: neither a site that never runs dry nor
\* one that fails every other time keeps it going, and no attempt is granted twice.
GetsRunOut == [][GetsLeft' \in 0..(GetsLeft - 1)]_fetchVars

Feed == INSTANCE PageFeed WITH handed <- seen, ended <- (status # "fetching")

\* The function keeps the promise the crawl is written against, whatever the
\* site moves, blocks or fails to answer; it returns after at most MaxPages
\* pages even if the listing never runs dry.
ImplementsPageFeed == Feed!Spec
====
