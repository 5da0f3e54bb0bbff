---- MODULE FetchProofs ----
(***************************************************************************)
(* The walk over the result pages, for every listing, page size and limit, *)
(* and whatever the site does between the pages: theorems of FetchPages.   *)
(* That the walk ends is left to TLC; GetsAreBounded is the measure.       *)
(***************************************************************************)
EXTENDS FetchPages, FiniteSetTheorems, SequenceTheorems, TLAPS

----------------------------------------------------------------------------
(* The site.                                                               *)

LEMMA LimitType == MaxPages \in Nat \ {0}
BY FetchConstants DEF MaxPages

LEMMA ListingType ==
  ASSUME listing \in Seq(Regs)
  PROVE  /\ DOMAIN listing = 1..Len(listing) /\ Len(listing) \in Nat
         /\ \A k \in 1..Len(listing) : listing[k] \in Regs
OBVIOUS

LEMMA WithoutType ==
  ASSUME listing \in Seq(Regs), NEW k \in DOMAIN listing
  PROVE  Without(k) \in Seq(Regs)
<1>1. Len(listing) - 1 \in Nat
  BY ListingType
<1>2. \A j \in 1..(Len(listing) - 1) :
        (IF j < k THEN listing[j] ELSE listing[j + 1]) \in Regs
  BY ListingType
<1> DEFINE n == Len(listing) - 1
           entry(j) == IF j < k THEN listing[j] ELSE listing[j + 1]
<1> HIDE DEF n
<1>3. [j \in 1..n |-> entry(j)] \in Seq(Regs)
  BY <1>1, <1>2 DEF n
<1> QED
  BY <1>3 DEF Without, n

\* An entry put in front moves every other one down by one.
LEMMA InFront ==
  ASSUME NEW reg \in Regs, NEW s \in Seq(Regs)
  PROVE  /\ <<reg>> \o s \in Seq(Regs)
         /\ Len(<<reg>> \o s) = Len(s) + 1
         /\ (<<reg>> \o s)[1] = reg
         /\ \A j \in 2..(Len(s) + 1) : (<<reg>> \o s)[j] = s[j - 1]
<1>1. <<reg>> \in Seq(Regs) /\ Len(<<reg>>) = 1 /\ <<reg>>[1] = reg
  OBVIOUS
<1>2. Len(s) \in Nat
  OBVIOUS
<1>3. /\ <<reg>> \o s \in Seq(Regs)
      /\ Len(<<reg>> \o s) = 1 + Len(s)
      /\ \A i \in 1..(1 + Len(s)) : (<<reg>> \o s)[i] = IF i <= 1 THEN <<reg>>[i] ELSE s[i - 1]
  BY <1>1, ConcatProperties
<1>4. (<<reg>> \o s)[1] = reg
  BY <1>1, <1>2, <1>3
<1>5. ASSUME NEW j \in 2..(Len(s) + 1)
      PROVE  (<<reg>> \o s)[j] = s[j - 1]
  BY <1>2, <1>3
<1> QED
  BY <1>2, <1>3, <1>4, <1>5

\* A page shows finitely many notices.
LEMMA HitsFinite ==
  ASSUME listing \in Seq(Regs), NEW n
  PROVE  Hits(n) \subseteq Regs /\ IsFiniteSet(Hits(n))
<1> DEFINE places == {j \in DOMAIN listing : (n - 1) * PageSize < j /\ j <= n * PageSize}
           shown == [j \in places |-> listing[j]]
<1>1. IsFiniteSet(places)
  <2>1. places \in SUBSET (1..Len(listing))
    BY ListingType
  <2>2. IsFiniteSet(1..Len(listing))
    BY ListingType, FS_Interval
  <2> QED
    BY <2>1, <2>2, FS_Subset
<1>2. Hits(n) = {listing[k] : k \in places}
  BY DEF Hits
<1>3. places \subseteq DOMAIN listing
  OBVIOUS
<1> HIDE DEF places
<1>4. shown \in Surjection(places, Hits(n))
  BY <1>2 DEF Surjection
<1>5. IsFiniteSet(Hits(n))
  BY <1>1, <1>4, FS_Surjection
<1> QED
  BY <1>2, <1>3, <1>5, ListingType

----------------------------------------------------------------------------
(* What the function counts.                                               *)

\* found_count is the number of distinct notices so far, of which there are
\* finitely many.
CountInv ==
  /\ TypeOK
  /\ IsFiniteSet(seen)
  /\ FoundCountIsDistinct

LEMMA CountInit == Init => CountInv
<1> SUFFICES ASSUME Init PROVE CountInv
  OBVIOUS
<1>1. TypeOK
  BY FetchConstants, LimitType DEF Init, TypeOK
<1> QED
  BY <1>1, FS_EmptySet DEF Init, CountInv, FoundCountIsDistinct

LEMMA PageCounts ==
  ASSUME CountInv, NEW hits \in SUBSET Regs, IsFiniteSet(hits), NEW ok \in BOOLEAN,
         PageArrives(hits, ok), quiet' \in BOOLEAN
  PROVE  CountInv'
<1> DEFINE fresh == hits \ seen
<1>1. IsFiniteSet(fresh) /\ IsFiniteSet(seen) /\ fresh \cap seen = {} /\ seen \subseteq Regs
  BY FS_Subset DEF CountInv, TypeOK
<1>2. /\ IsFiniteSet(seen \cup fresh)
      /\ Cardinality(seen \cup fresh) = Cardinality(seen) + Cardinality(fresh)
      /\ Cardinality(fresh) \in Nat
  <2>1. Cardinality(seen \cap fresh) = 0 /\ seen \cap fresh = {}
    BY <1>1, FS_EmptySet
  <2>2. Cardinality(seen) \in Nat /\ Cardinality(fresh) \in Nat
    BY <1>1, FS_CardinalityType
  <2>3. /\ IsFiniteSet(seen \cup fresh)
        /\ Cardinality(seen \cup fresh)
             = Cardinality(seen) + Cardinality(fresh) - Cardinality(seen \cap fresh)
    <3> HIDE DEF fresh
    <3> QED
      BY <1>1, FS_Union
  <2> QED
    BY <2>1, <2>2, <2>3
<1>3. seen' = seen \cup fresh /\ total' = total + Cardinality(fresh)
  BY DEF PageArrives
<1>4. TypeOK'
  <2>1. /\ listing' \in Seq(Regs) /\ drift' \in 0..MaxDrift /\ attempt' \in 0..(PageFetchRetries - 1)
        /\ status' \in {"fetching", "done", "failed"} /\ pages' \in 0..MaxPages
    BY FetchConstants, LimitType DEF CountInv, TypeOK, PageArrives
  <2>2. page' \in 1..MaxPages
    BY LimitType DEF CountInv, TypeOK, PageArrives
  <2>3. seen' \in SUBSET Regs /\ total' \in Nat
    BY <1>1, <1>2, <1>3 DEF CountInv, TypeOK
  <2> QED
    BY <2>1, <2>2, <2>3 DEF TypeOK
<1> HIDE DEF fresh
<1> QED
  BY <1>2, <1>3, <1>4 DEF CountInv, FoundCountIsDistinct

LEMMA MoveCounts ==
  ASSUME CountInv, NEW next \in Seq(Regs), MoveListing(next), quiet' \in BOOLEAN
  PROVE  CountInv'
<1>1. drift' \in 0..MaxDrift
  BY FetchConstants DEF CountInv, TypeOK, MoveListing
<1> QED
  BY <1>1 DEF CountInv, TypeOK, FoundCountIsDistinct, MoveListing, fetchVars

LEMMA CountStep == CountInv /\ [Next]_vars => CountInv'
<1> SUFFICES ASSUME CountInv, [Next]_vars PROVE CountInv'
  OBVIOUS
<1>0. TypeOK /\ listing \in Seq(Regs)
  BY DEF CountInv, TypeOK
<1>1. ASSUME NEW reg \in Regs, Publish(reg)
      PROVE  CountInv'
  BY <1>0, <1>1, InFront, MoveCounts DEF Publish, TypeOK
<1>2. ASSUME NEW k \in DOMAIN listing, Update(k) \/ Withdraw(k)
      PROVE  CountInv'
  <2>1. listing[k] \in Regs /\ Without(k) \in Seq(Regs)
    BY <1>0, ListingType, WithoutType
  <2>2. <<listing[k]>> \o Without(k) \in Seq(Regs)
    BY <2>1, InFront
  <2> QED
    BY <1>2, <2>1, <2>2, MoveCounts DEF Update, Withdraw
<1>3. CASE ReadPage
  <2>1. Hits(page) \in SUBSET Regs /\ IsFiniteSet(Hits(page))
    BY <1>0, HitsFinite
  <2> QED
    BY <1>0, <1>3, <2>1, PageCounts DEF ReadPage, TypeOK
<1>4. CASE ReadBlockedPage
  BY <1>4, FS_EmptySet, PageCounts DEF ReadBlockedPage
<1>5. CASE AttemptFails
  <2>1. attempt' \in 0..(PageFetchRetries - 1) /\ status' \in {"fetching", "done", "failed"}
    BY <1>0, <1>5, FetchConstants DEF AttemptFails, TypeOK
  <2> QED
    BY <1>5, <2>1 DEF CountInv, TypeOK, FoundCountIsDistinct, AttemptFails, siteVars
<1>6. CASE Cancel
  BY <1>6 DEF CountInv, TypeOK, FoundCountIsDistinct, Cancel, siteVars
<1>7. CASE UNCHANGED vars
  BY <1>7 DEF CountInv, TypeOK, FoundCountIsDistinct, vars
<1> QED
  BY <1>1, <1>2, <1>3, <1>4, <1>5, <1>6, <1>7 DEF Next, Fetch

LEMMA CountInvariant == Spec => []CountInv
<1>1. Init => CountInv
  BY CountInit
<1>2. CountInv /\ [Next]_vars => CountInv'
  BY CountStep
<1> QED
  BY <1>1, <1>2, PTL DEF Spec

\* The loop variable stays within the page limit, the attempts within theirs.
THEOREM TypeCorrect == Spec => []TypeOK
<1>1. CountInv => TypeOK
  BY DEF CountInv
<1> QED
  BY <1>1, CountInvariant, PTL

\* No notice is counted twice, for any listing and any moves.
THEOREM CountIsDistinct == Spec => []FoundCountIsDistinct
<1>1. CountInv => FoundCountIsDistinct
  BY DEF CountInv
<1> QED
  BY <1>1, CountInvariant, PTL

----------------------------------------------------------------------------
(* What the function covers, if the site lists a notice once and meanwhile *)
(* only publishes: the listing is a growing prefix and the first listing,  *)
(* and what the walk has read is a prefix of it that ends `drift` entries  *)
(* past the pages read.                                                    *)

\* Entries on the pages before this one.
Before == (page - 1) * PageSize

\* How far the entries of the first listing have moved down.
Shift == Len(listing) - Len(FirstListing)

Pushed ==
  /\ Shift \in Nat
  /\ \A k \in DOMAIN FirstListing : listing[Shift + k] = FirstListing[k]
  /\ \A j, k \in DOMAIN listing : listing[j] = listing[k] => j = k

\* Nothing slipped past the walk, and nothing below it has been read.
ReadAbove ==
  /\ \A k \in DOMAIN FirstListing :
       Shift + k <= Before + drift => FirstListing[k] \in seen
  /\ \A j \in DOMAIN listing : j > Before + drift => listing[j] \notin seen

CoverInv ==
  /\ TypeOK
  /\ quiet /\ status = "fetching" => drift < PageSize /\ Pushed /\ ReadAbove
  /\ DoneCoversListing

LEMMA PageArithmetic ==
  ASSUME TypeOK
  PROVE  /\ Before \in Nat /\ PageSize \in Nat \ {0} /\ drift \in Nat
         /\ page * PageSize = Before + PageSize
         /\ page' = page + 1 => Before' = Before + PageSize
         /\ page' = page => Before' = Before
<1>1. page \in Nat \ {0} /\ PageSize \in Nat \ {0} /\ drift \in Nat
  BY FetchConstants, LimitType DEF TypeOK
<1>2. \A a \in Nat \ {0}, b \in Nat \ {0} :
        /\ (a - 1) * b \in Nat
        /\ a * b = (a - 1) * b + b
        /\ ((a + 1) - 1) * b = (a - 1) * b + b
  OBVIOUS
<1> QED
  BY <1>1, <1>2 DEF Before

LEMMA FirstType ==
  /\ DOMAIN FirstListing = 1..Len(FirstListing)
  /\ Len(FirstListing) \in Nat
BY FetchConstants

LEMMA CoverInit == ListedOnce /\ Init => CoverInv
<1> SUFFICES ASSUME ListedOnce, Init PROVE CoverInv
  OBVIOUS
<1>1. TypeOK
  BY CountInit DEF CountInv
<1>2. Before = 0 /\ Shift = 0 /\ drift = 0
  BY FetchConstants, FirstType DEF Init, Before, Shift
<1>3. drift < PageSize
  BY <1>2, FetchConstants
<1>4. Pushed
  BY <1>2, FirstType DEF Init, Pushed, ListedOnce
<1>5. ReadAbove
  BY <1>2, FirstType DEF Init, ReadAbove
<1> QED
  BY <1>1, <1>3, <1>4, <1>5 DEF CoverInv, DoneCoversListing, Init

\* Nothing new stands on a page only if the walk is past the whole listing.
LEMMA PageCovers ==
  ASSUME TypeOK, TypeOK', quiet, status = "fetching", drift < PageSize, Pushed, ReadAbove,
         NEW ok \in BOOLEAN, PageArrives(Hits(page), ok), UNCHANGED quiet
  PROVE  CoverInv'
<1> DEFINE lo == Before
           hits == Hits(page)
           n == Len(listing)
<1>1. /\ lo \in Nat /\ PageSize \in Nat \ {0} /\ drift \in Nat
      /\ page * PageSize = lo + PageSize
      /\ page' = page + 1 => Before' = lo + PageSize
  BY PageArithmetic
<1>2. /\ DOMAIN listing = 1..n /\ n \in Nat
      /\ Shift \in Nat /\ Shift + Len(FirstListing) = n
      /\ DOMAIN FirstListing = 1..Len(FirstListing) /\ Len(FirstListing) \in Nat
  BY ListingType, FirstType DEF TypeOK, Pushed, Shift
<1>3. hits = {listing[j] : j \in {i \in DOMAIN listing : lo < i /\ i <= lo + PageSize}}
  BY <1>1 DEF Hits, Before
<1>4. /\ seen' = seen \cup hits /\ drift' = 0 /\ listing' = listing /\ quiet' = quiet
      /\ pages' = page /\ Shift' = Shift
  BY DEF PageArrives, Shift
<1> HIDE DEF lo, hits, n
<1>5. ASSUME NEW k \in DOMAIN FirstListing, Shift + k <= lo + PageSize
      PROVE  FirstListing[k] \in seen'
  <2>1. CASE Shift + k <= lo + drift
    BY <1>4, <2>1 DEF ReadAbove, lo
  <2>2. CASE Shift + k > lo + drift
    <3>1. Shift + k \in DOMAIN listing /\ lo < Shift + k
      BY <1>1, <1>2, <2>2
    <3>2. listing[Shift + k] \in hits
      BY <1>3, <1>5, <3>1
    <3> QED
      BY <1>4, <3>2 DEF Pushed
  <2> QED
    BY <1>1, <1>2, <2>1, <2>2
<1>6. CASE status' = "fetching"
  <2>1. Before' = lo + PageSize
    BY <1>1, <1>6 DEF PageArrives
  <2>2. ASSUME NEW j \in DOMAIN listing, j > lo + PageSize
        PROVE  listing[j] \notin seen'
    <3>1. listing[j] \notin seen
      BY <1>1, <1>2, <2>2 DEF ReadAbove, lo
    <3>2. listing[j] \notin hits
      BY <1>1, <1>2, <1>3, <2>2 DEF Pushed
    <3> QED
      BY <1>4, <3>1, <3>2
  <2>3. ReadAbove'
    BY <1>1, <1>4, <1>5, <2>1, <2>2 DEF ReadAbove
  <2>4. Pushed' /\ drift' < PageSize'
    BY <1>1, <1>4 DEF Pushed
  <2> QED
    BY <1>6, <2>3, <2>4 DEF CoverInv, DoneCoversListing
<1>7. CASE status' = "done"
  <2>1. SUFFICES ASSUME pages' < MaxPages \/ Len(listing') <= MaxPages * PageSize,
                        NEW k \in DOMAIN FirstListing
                 PROVE  FirstListing[k] \in seen'
    BY <1>7 DEF CoverInv, DoneCoversListing
  <2>2. n <= lo + PageSize
    <3>1. CASE page = MaxPages
      <4>1. n <= page * PageSize
        BY <1>4, <2>1, <3>1, LimitType DEF n
      <4> QED
        BY <1>1, <4>1
    <3>2. CASE page # MaxPages
      <4>1. hits \ seen = {}
        BY <1>7, <3>2 DEF PageArrives, hits
      <4>2. SUFFICES ASSUME n > lo + PageSize PROVE FALSE
        BY <1>1, <1>2
      <4>3. lo + drift + 1 \in DOMAIN listing /\ lo < lo + drift + 1
              /\ lo + drift + 1 <= lo + PageSize /\ lo + drift + 1 > lo + drift
        BY <1>1, <1>2, <4>2
      <4>4. listing[lo + drift + 1] \in hits
        BY <1>3, <4>3
      <4>5. listing[lo + drift + 1] \notin seen
        BY <4>3 DEF ReadAbove, lo
      <4> QED
        BY <4>1, <4>4, <4>5
    <3> QED
      BY <3>1, <3>2
  <2> QED
    BY <1>1, <1>2, <1>5, <2>2
<1>8. CASE status' = "failed"
  BY <1>8 DEF CoverInv, DoneCoversListing
<1> QED
  BY <1>6, <1>7, <1>8 DEF TypeOK

\* A published notice moves the listing and the place the walk has reached alike.
LEMMA PublishCovers ==
  ASSUME CoverInv, TypeOK', NEW reg \in Regs, Publish(reg)
  PROVE  CoverInv'
<1>0. /\ TypeOK /\ status = "fetching" /\ status' = "fetching"
      /\ drift' = drift + 1 /\ seen' = seen /\ page' = page
      /\ listing' = <<reg>> \o listing /\ reg \notin Listed
  BY DEF CoverInv, Publish, MoveListing, fetchVars
<1> SUFFICES ASSUME quiet'
             PROVE  drift' < PageSize /\ Pushed' /\ ReadAbove'
  BY <1>0 DEF CoverInv, DoneCoversListing
<1> DEFINE n == Len(listing)
<1>1. quiet /\ drift' < PageSize
  BY DEF Publish
<1>2. drift < PageSize /\ Pushed /\ ReadAbove
  BY <1>0, <1>1 DEF CoverInv
<1>3. /\ Before \in Nat /\ drift \in Nat /\ Before' = Before
  BY <1>0, PageArithmetic
<1>4. /\ DOMAIN listing = 1..n /\ n \in Nat
      /\ Shift \in Nat /\ Shift + Len(FirstListing) = n
      /\ DOMAIN FirstListing = 1..Len(FirstListing) /\ Len(FirstListing) \in Nat
  BY <1>0, <1>2, ListingType, FirstType DEF TypeOK, Pushed, Shift
<1>5. /\ DOMAIN listing' = 1..(n + 1) /\ Len(listing') = n + 1
      /\ listing'[1] = reg
      /\ \A j \in 2..(n + 1) : listing'[j] = listing[j - 1]
  <2>1. listing \in Seq(Regs)
    BY <1>0 DEF TypeOK
  <2> QED
    BY <1>0, <1>4, <2>1, InFront
<1>6. Shift' = Shift + 1
  BY <1>4, <1>5 DEF Shift
<1> HIDE DEF n
<1>7. Pushed'
  <2>1. ASSUME NEW k \in DOMAIN FirstListing
        PROVE  listing'[Shift' + k] = FirstListing[k]
    <3>1. Shift' + k \in 2..(n + 1) /\ Shift' + k - 1 = Shift + k
      BY <1>4, <1>6
    <3>2. PICK p \in 2..(n + 1) : p = Shift' + k
      BY <3>1
    <3>3. listing'[p] = listing[p - 1]
      BY <1>5
    <3>4. p - 1 = Shift + k
      BY <1>4, <1>6, <3>2
    <3> QED
      BY <1>2, <3>2, <3>3, <3>4 DEF Pushed
  <2>2. ASSUME NEW j \in DOMAIN listing', NEW k \in DOMAIN listing', listing'[j] = listing'[k]
        PROVE  j = k
    <3>1. \A i \in 2..(n + 1) : i - 1 \in DOMAIN listing /\ listing'[i] # reg
      <4>1. \A i \in 2..(n + 1) : i - 1 \in DOMAIN listing
        BY <1>4
      <4> QED
        BY <1>0, <1>5, <4>1 DEF Listed
    <3>2. CASE j = 1 \/ k = 1
      BY <1>4, <1>5, <2>2, <3>1, <3>2
    <3>3. CASE j # 1 /\ k # 1
      <4>1. j \in 2..(n + 1) /\ k \in 2..(n + 1)
        BY <1>4, <1>5, <3>3
      <4>2. listing[j - 1] = listing[k - 1] /\ j - 1 \in DOMAIN listing /\ k - 1 \in DOMAIN listing
        BY <1>5, <2>2, <3>1, <4>1
      <4>3. j - 1 = k - 1
        BY <1>2, <4>2 DEF Pushed
      <4> QED
        BY <1>4, <4>1, <4>3
    <3> QED
      BY <3>2, <3>3
  <2> QED
    BY <1>4, <1>6, <2>1, <2>2 DEF Pushed
<1>8. ReadAbove'
  <2>1. ASSUME NEW k \in DOMAIN FirstListing, Shift' + k <= Before' + drift'
        PROVE  FirstListing[k] \in seen'
    <3>1. Shift + k <= Before + drift
      BY <1>0, <1>3, <1>4, <1>6, <2>1
    <3> QED
      BY <1>0, <1>2, <3>1 DEF ReadAbove
  <2>2. ASSUME NEW j \in DOMAIN listing', j > Before' + drift'
        PROVE  listing'[j] \notin seen'
    <3>1. j \in 2..(n + 1) /\ j - 1 \in DOMAIN listing /\ j - 1 > Before + drift
      BY <1>0, <1>3, <1>4, <1>5, <2>2
    <3> QED
      BY <1>0, <1>2, <1>5, <3>1 DEF ReadAbove
  <2> QED
    BY <2>1, <2>2 DEF ReadAbove
<1> QED
  BY <1>1, <1>7, <1>8

LEMMA CoverStep == CoverInv /\ TypeOK' /\ [Next]_vars => CoverInv'
<1> SUFFICES ASSUME CoverInv, TypeOK', [Next]_vars PROVE CoverInv'
  OBVIOUS
<1>0. TypeOK
  BY DEF CoverInv
<1>1. ASSUME NEW reg \in Regs, Publish(reg)
      PROVE  CoverInv'
  BY <1>1, PublishCovers
<1>2. ASSUME NEW k \in DOMAIN listing, Update(k) \/ Withdraw(k)
      PROVE  CoverInv'
  BY <1>2 DEF CoverInv, DoneCoversListing, Update, Withdraw
<1>3. CASE ReadPage
  <2>1. PICK ok \in BOOLEAN : PageArrives(Hits(page), ok) /\ UNCHANGED quiet
    BY <1>3 DEF ReadPage
  <2>2. CASE quiet
    BY <1>0, <2>1, <2>2, PageCovers DEF CoverInv, PageArrives
  <2>3. CASE ~quiet
    BY <2>1, <2>3 DEF CoverInv, DoneCoversListing
  <2> QED
    BY <2>2, <2>3
<1>4. CASE ReadBlockedPage
  BY <1>4 DEF CoverInv, DoneCoversListing, ReadBlockedPage
<1>5. CASE AttemptFails
  <2>1. UNCHANGED <<listing, drift, quiet, page, seen, pages>>
    BY <1>5 DEF AttemptFails, siteVars
  <2>2. status = "fetching" /\ status' # "done"
    BY <1>5 DEF AttemptFails
  <2> QED
    BY <2>1, <2>2 DEF CoverInv, DoneCoversListing, Pushed, ReadAbove, Before, Shift
<1>6. CASE Cancel
  BY <1>6 DEF CoverInv, DoneCoversListing, Cancel
<1>7. CASE UNCHANGED vars
  BY <1>7 DEF CoverInv, DoneCoversListing, Pushed, ReadAbove, Before, Shift, vars
<1> QED
  BY <1>1, <1>2, <1>3, <1>4, <1>5, <1>6, <1>7 DEF Next, Fetch

\* A quiet walk that ends without an error has handed over the whole first
\* listing, for any listing, page size and limit: the walk may stop at the first
\* page with nothing new.
THEOREM DoneIsCovered == ListedOnce /\ Spec => []DoneCoversListing
<1>1. ListedOnce /\ Init => CoverInv
  BY CoverInit
<1>2. CoverInv /\ TypeOK' /\ [Next]_vars => CoverInv'
  BY CoverStep
<1>3. CoverInv => DoneCoversListing
  BY DEF CoverInv
<1> QED
  BY <1>1, <1>2, <1>3, TypeCorrect, PTL DEF Spec

----------------------------------------------------------------------------
(* What the function promises its callback.                                *)

LEMMA PageFeeds ==
  ASSUME NEW hits \in SUBSET Regs, seen \subseteq Regs, NEW ok \in BOOLEAN,
         PageArrives(hits, ok)
  PROVE  [Feed!Next]_(Feed!feedVars)
<1> DEFINE fresh == hits \ seen
<1>1. /\ status = "fetching" /\ seen' = seen \cup fresh
  BY DEF PageArrives
<1>2. CASE fresh = {}
  <2>1. seen' = seen /\ (status' # "fetching") = TRUE
    BY <1>1, <1>2 DEF PageArrives
  <2> QED
    BY <1>1, <2>1 DEF Feed!Next, Feed!Return
<1>3. CASE fresh # {}
  <2>1. fresh \in SUBSET Regs /\ fresh \cap seen = {}
    OBVIOUS
  <2>2. Feed!Deliver(fresh)
    BY <1>1, <1>3, <2>1 DEF Feed!Deliver
  <2> QED
    BY <2>1, <2>2 DEF Feed!Next
<1> QED
  BY <1>2, <1>3

\* FetchPages hands its callback new numbers only, until it returns, and then
\* nothing: the feed that CrawlRuns is written against.
THEOREM FeedImplemented == Spec => Feed!Init /\ [][Feed!Next]_(Feed!feedVars)
<1>1. Init => Feed!Init
  BY DEF Init, Feed!Init
<1>2. TypeOK /\ [Next]_vars => [Feed!Next]_(Feed!feedVars)
  <2> SUFFICES ASSUME TypeOK, [Next]_vars PROVE [Feed!Next]_(Feed!feedVars)
    OBVIOUS
  <2>0. seen \subseteq Regs /\ listing \in Seq(Regs)
    BY DEF TypeOK
  <2>1. CASE ReadPage
    BY <2>0, <2>1, HitsFinite, PageFeeds DEF ReadPage
  <2>2. CASE ReadBlockedPage
    BY <2>0, <2>2, PageFeeds DEF ReadBlockedPage
  <2>3. CASE AttemptFails \/ Cancel
    BY <2>3 DEF AttemptFails, Cancel, Feed!Next, Feed!Return, Feed!feedVars
  <2>4. ASSUME NEW reg \in Regs, Publish(reg)
        PROVE  [Feed!Next]_(Feed!feedVars)
    BY <2>4 DEF Publish, MoveListing, fetchVars, Feed!feedVars
  <2>5. ASSUME NEW k \in DOMAIN listing, Update(k) \/ Withdraw(k)
        PROVE  [Feed!Next]_(Feed!feedVars)
    BY <2>5 DEF Update, Withdraw, MoveListing, fetchVars, Feed!feedVars
  <2>6. CASE UNCHANGED vars
    BY <2>6 DEF vars, Feed!feedVars
  <2> QED
    BY <2>1, <2>2, <2>3, <2>4, <2>5, <2>6 DEF Next, Fetch
<1> QED
  BY <1>1, <1>2, TypeCorrect, PTL DEF Spec

----------------------------------------------------------------------------
(* The end of the walk: the measure behind it.                             *)

LEMMA GetsArithmetic ==
  ASSUME TypeOK
  PROVE  /\ (MaxPages - page) * PageFetchRetries \in Nat
         /\ PageFetchRetries - attempt \in Nat \ {0}
         /\ page < MaxPages =>
              (MaxPages - (page + 1)) * PageFetchRetries + PageFetchRetries
                = (MaxPages - page) * PageFetchRetries
<1>1. /\ MaxPages - page \in Nat /\ MaxPages \in Nat /\ page \in Nat
      /\ PageFetchRetries \in Nat \ {0} /\ attempt \in Nat /\ attempt < PageFetchRetries
  BY FetchConstants, LimitType DEF TypeOK
<1>2. \A a \in Nat, b \in Nat : a * b \in Nat /\ (a > 0 => (a - 1) * b + b = a * b)
  OBVIOUS
<1>3. page < MaxPages =>
        MaxPages - page > 0 /\ MaxPages - (page + 1) = (MaxPages - page) - 1
  BY <1>1
<1> QED
  BY <1>1, <1>2, <1>3

\* Every step of the function leaves fewer GETs to send, of which there are
\* MaxPages * PageFetchRetries at the start: the measure by which the walk ends,
\* for every limit, every number of attempts and everything the site may do.
THEOREM GetsAreBounded == Spec => GetsRunOut
<1> DEFINE left == (MaxPages - page) * PageFetchRetries
<1>1. ASSUME TypeOK, [Next]_vars, fetchVars' # fetchVars
      PROVE  GetsLeft' \in 0..(GetsLeft - 1)
  <2>1. /\ left \in Nat /\ PageFetchRetries \in Nat \ {0} /\ page \in Nat
        /\ PageFetchRetries - attempt \in Nat \ {0} /\ attempt \in Nat
        /\ page \in 1..MaxPages
    BY <1>1, GetsArithmetic, FetchConstants, LimitType DEF TypeOK
  <2>2. MaxPages' = MaxPages
    BY DEF MaxPages
  <2>3. status = "fetching" => GetsLeft = left + (PageFetchRetries - attempt)
    BY DEF GetsLeft
  <2>4. ASSUME status = "fetching", status' # "fetching"
        PROVE  GetsLeft' \in 0..(GetsLeft - 1)
    <3>1. GetsLeft' = 0 /\ GetsLeft = left + (PageFetchRetries - attempt)
      BY <2>3, <2>4 DEF GetsLeft
    <3> HIDE DEF left
    <3> QED
      BY <2>1, <3>1
  <2>5. ASSUME NEW hits, NEW ok, PageArrives(hits, ok)
        PROVE  GetsLeft' \in 0..(GetsLeft - 1)
    <3>1. status = "fetching" /\ attempt' = 0
      BY <2>5 DEF PageArrives
    <3>2. CASE status' = "fetching"
      <4>1. page' = page + 1 /\ page # MaxPages
        BY <2>5, <3>2 DEF PageArrives
      <4>2. page < MaxPages
        BY <2>1, <4>1, LimitType
      <4>3. GetsLeft' = (MaxPages - (page + 1)) * PageFetchRetries + PageFetchRetries
        BY <2>1, <3>1, <3>2, <4>1 DEF GetsLeft, MaxPages
      <4>4. GetsLeft' = left
        BY <1>1, <4>2, <4>3, GetsArithmetic
      <4> HIDE DEF left
      <4> QED
        BY <2>1, <2>3, <3>1, <4>4
    <3> QED
      BY <2>4, <3>1, <3>2
  <2>6. CASE AttemptFails
    <3>1. status = "fetching" /\ UNCHANGED page
      BY <2>6 DEF AttemptFails
    <3>2. CASE status' = "fetching"
      <4>1. attempt' = attempt + 1 /\ attempt + 1 < PageFetchRetries
        BY <2>6, <3>1, <3>2 DEF AttemptFails
      <4>2. GetsLeft' = left + (PageFetchRetries - (attempt + 1))
        BY <3>1, <3>2, <4>1 DEF GetsLeft, MaxPages
      <4> HIDE DEF left
      <4> QED
        BY <2>1, <2>3, <3>1, <4>1, <4>2
    <3> QED
      BY <2>4, <3>1, <3>2
  <2>7. CASE Cancel
    BY <2>4, <2>7 DEF Cancel
  <2>8. Fetch => GetsLeft' \in 0..(GetsLeft - 1)
    BY <2>5, <2>6, <2>7 DEF Fetch, ReadPage, ReadBlockedPage
  <2>9. Fetch
    BY <1>1 DEF Next, Publish, Update, Withdraw, MoveListing, vars, fetchVars
  <2> QED
    BY <2>8, <2>9
<1>2. TypeOK /\ [Next]_vars => [GetsLeft' \in 0..(GetsLeft - 1)]_fetchVars
  BY <1>1
<1> QED
  BY <1>2, TypeCorrect, PTL DEF Spec, GetsRunOut
====
