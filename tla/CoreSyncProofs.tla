---- MODULE CoreSyncProofs ----
(***************************************************************************)
(* Theorems about CoreSync, for any number of searchers, calls, tenders    *)
(* and versions.                                                           *)
(***************************************************************************)
EXTENDS CoreSync, TLAPS

----------------------------------------------------------------------------
(* What a statement writes.                                                *)

\* The rows the statement call c is at may leave behind.
RowsWritten(c) ==
  LET row == category[SlugAt(c)]
  IN  CASE call[c].pc = "rename" -> {[row EXCEPT !.title = call[c].title]}
        [] call[c].pc = "insert" -> {Inserted(row, call[c].id, call[c].title)}
        [] call[c].pc = "upsert" ->
             {[row EXCEPT !.tenders = @ \cup {t}] : t \in call[c].left}
               \cup (IF call[c].left = {} THEN {[row EXCEPT !.synced = call[c].ver]} ELSE {})
        [] call[c].pc = "enqueue" -> {[row EXCEPT !.ingest = @ \cup call[c].items]}
        [] OTHER -> {}

Writes(c, row) ==
  /\ row \in RowsWritten(c)
  /\ category' = [category EXCEPT ![SlugAt(c)] = row]

\* What a call carries in each of its states.
LEMMA CallCarries ==
  ASSUME TypeOK, NEW c \in Calls, call[c].pc # "idle"
  PROVE  /\ call[c].id \in CategoryIds /\ SlugAt(c) \in Slugs
         /\ call[c].title \in Titles
         /\ call[c].kind \in {"ensure", "sync"}
         /\ call[c].pc \in {"upsert", "enqueue"} => call[c].kind = "sync"
         /\ call[c].pc = "look" => call[c].kind = "ensure"
         /\ call[c].kind = "sync" => /\ call[c].ver \in Versions
                                     /\ call[c].items \in SUBSET Tenders
                                     /\ call[c].left \in SUBSET Tenders
<1>1. call[c] \in CallStates
  BY DEF TypeOK
<1> QED
  BY <1>1, CoreConstants DEF CallStates, SlugAt

LEMMA RowsWrittenType ==
  ASSUME TypeOK, NEW c \in Calls, NEW row \in RowsWritten(c)
  PROVE  LET old == category[SlugAt(c)] IN
           /\ SlugAt(c) \in Slugs /\ row \in Rows
           /\ old.tenders \subseteq row.tenders
           /\ old.ingest \subseteq row.ingest
           /\ old.id # NoId => row.id = old.id
<1> DEFINE old == category[SlugAt(c)]
           Goal == /\ SlugAt(c) \in Slugs /\ row \in Rows
                   /\ old.tenders \subseteq row.tenders
                   /\ old.ingest \subseteq row.ingest
                   /\ old.id # NoId => row.id = old.id
<1>1. call[c].pc # "idle"
  BY DEF RowsWritten
<1>2. old \in Rows /\ SlugAt(c) \in Slugs
  BY <1>1, CallCarries DEF TypeOK
<1>3. CASE call[c].pc = "rename"
  <2>1. row = [old EXCEPT !.title = call[c].title] /\ call[c].title \in Titles
    BY <1>1, <1>3, CallCarries DEF RowsWritten
  <2> QED
    BY <1>2, <2>1 DEF Rows
<1>4. CASE call[c].pc = "insert"
  <2>1. /\ row = Inserted(old, call[c].id, call[c].title)
        /\ call[c].title \in Titles /\ call[c].id \in CategoryIds
    BY <1>1, <1>4, CallCarries DEF RowsWritten
  <2> QED
    BY <1>2, <2>1 DEF Rows, Inserted
<1>5. CASE call[c].pc = "upsert"
  <2>1. call[c].ver \in Versions /\ call[c].left \in SUBSET Tenders
    BY <1>1, <1>5, CallCarries
  <2>2. ASSUME NEW t \in call[c].left, row = [old EXCEPT !.tenders = @ \cup {t}]
        PROVE  Goal
    BY <1>2, <2>1, <2>2 DEF Rows
  <2>3. CASE row = [old EXCEPT !.synced = call[c].ver]
    BY <1>2, <2>1, <2>3 DEF Rows
  <2> QED
    BY <1>5, <2>2, <2>3 DEF RowsWritten
<1>6. CASE call[c].pc = "enqueue"
  <2>1. row = [old EXCEPT !.ingest = @ \cup call[c].items] /\ call[c].items \in SUBSET Tenders
    BY <1>1, <1>6, CallCarries DEF RowsWritten
  <2> QED
    BY <1>2, <2>1 DEF Rows
<1> QED
  BY <1>3, <1>4, <1>5, <1>6 DEF RowsWritten

\* A step writes no row, or one that its statement may write.
LEMMA StepWrites ==
  ASSUME TypeOK, [Next]_vars
  PROVE  UNCHANGED category \/ \E c \in Calls : \E row \in RowsWritten(c) : Writes(c, row)
<1>1. ASSUME NEW c \in Calls, Send(c) \/ Look(c) \/ Select(c) \/ Leave(c)
      PROVE  UNCHANGED category
  BY <1>1 DEF Send, SendEnsure, SendSync, Look, Select, Leave
<1>2. ASSUME NEW c \in Calls, Rename(c)
      PROVE  UNCHANGED category \/ \E row \in RowsWritten(c) : Writes(c, row)
  <2>1. SlugAt(c) \in Slugs
    BY <1>2, CallCarries DEF Rename
  <2>2. [category EXCEPT ![SlugAt(c)].title = call[c].title]
          = [category EXCEPT ![SlugAt(c)] = [category[SlugAt(c)] EXCEPT !.title = call[c].title]]
    OBVIOUS
  <2> QED
    BY <1>2, <2>2 DEF Rename, RowsWritten, Writes
<1>3. ASSUME NEW c \in Calls, Insert(c)
      PROVE  UNCHANGED category \/ \E row \in RowsWritten(c) : Writes(c, row)
  BY <1>3 DEF Insert, Fails, RowsWritten, Writes
<1>4. ASSUME NEW c \in Calls, UpsertTender(c)
      PROVE  UNCHANGED category \/ \E row \in RowsWritten(c) : Writes(c, row)
  <2>1. PICK t \in call[c].left :
          UNCHANGED category
            \/ category' = [category EXCEPT
                 ![SlugAt(c)] = [category[SlugAt(c)] EXCEPT !.tenders = @ \cup {t}]]
    BY <1>4 DEF UpsertTender, Fails
  <2> QED
    BY <1>4, <2>1 DEF UpsertTender, RowsWritten, Writes
<1>5. ASSUME NEW c \in Calls, RecordVersion(c)
      PROVE  UNCHANGED category \/ \E row \in RowsWritten(c) : Writes(c, row)
  BY <1>5 DEF RecordVersion, RowsWritten, Writes
<1>6. ASSUME NEW c \in Calls, Enqueue(c)
      PROVE  UNCHANGED category \/ \E row \in RowsWritten(c) : Writes(c, row)
  BY <1>6 DEF Enqueue, Fails, RowsWritten, Writes
<1> QED
  BY <1>1, <1>2, <1>3, <1>4, <1>5, <1>6 DEF Next, Statement, vars

\* Nothing is unlinked or unqueued, and an id once given to a row stays there.
LEMMA RowsGrow ==
  ASSUME TypeOK, [Next]_vars, NEW s \in Slugs
  PROVE  /\ category[s].tenders \subseteq category'[s].tenders
         /\ category[s].ingest \subseteq category'[s].ingest
         /\ category[s].id # NoId => category'[s].id = category[s].id
<1>1. CASE UNCHANGED category
  BY <1>1
<1>2. ASSUME NEW c \in Calls, NEW row \in RowsWritten(c), Writes(c, row)
      PROVE  /\ category[s].tenders \subseteq category'[s].tenders
             /\ category[s].ingest \subseteq category'[s].ingest
             /\ category[s].id # NoId => category'[s].id = category[s].id
  <2>1. category' = [category EXCEPT ![SlugAt(c)] = row] /\ category \in [Slugs -> Rows]
    BY <1>2 DEF Writes, TypeOK
  <2> QED
    BY <2>1, RowsWrittenType
<1> QED
  BY <1>1, <1>2, StepWrites

----------------------------------------------------------------------------
(* Type correctness.                                                       *)

\* The states a call under way may be moved on to.
LEMMA CallAdvanced ==
  ASSUME TypeOK, NEW c \in Calls, call[c].pc # "idle"
  PROVE  /\ IdleCall \in CallStates
         /\ \A ok \in BOOLEAN : [call[c] EXCEPT !.pc = "answered", !.ok = ok] \in CallStates
         /\ \A pc \in {"select", "rename", "insert"} :
              [call[c] EXCEPT !.pc = pc] \in CallStates
         /\ call[c].kind = "sync" =>
              /\ \A pc \in {"upsert", "enqueue"} : [call[c] EXCEPT !.pc = pc] \in CallStates
              /\ call[c].pc = "upsert" =>
                   \A t \in Tenders : [call[c] EXCEPT !.left = @ \ {t}] \in CallStates
<1>1. call[c] \in CallStates
  BY DEF TypeOK
<1>2. IdleCall \in CallStates
  BY DEF IdleCall, CallStates
<1>3. CASE call[c].kind = "ensure"
  <2>1. call[c] \in [pc : {"look", "select", "rename", "insert", "answered"}, kind : {"ensure"},
                     id : CategoryIds, title : Titles, ok : BOOLEAN]
    BY <1>1, <1>3 DEF CallStates
  <2>2. \A pc \in {"select", "rename", "insert"}, ok \in BOOLEAN :
          /\ [call[c] EXCEPT !.pc = pc] \in CallStates
          /\ [call[c] EXCEPT !.pc = "answered", !.ok = ok] \in CallStates
    BY <2>1 DEF CallStates
  <2> QED
    BY <1>2, <1>3, <2>2
<1>4. CASE call[c].kind = "sync"
  <2>1. call[c] \in [pc : {"select", "rename", "insert", "upsert", "enqueue", "answered"},
                     kind : {"sync"}, id : CategoryIds, title : Titles, ok : BOOLEAN,
                     ver : Versions, items : SUBSET Tenders, left : SUBSET Tenders]
    BY <1>1, <1>4 DEF CallStates
  <2>2. \A pc \in {"select", "rename", "insert", "upsert", "enqueue"}, ok \in BOOLEAN,
           t \in Tenders :
          /\ [call[c] EXCEPT !.pc = pc] \in CallStates
          /\ [call[c] EXCEPT !.left = @ \ {t}] \in CallStates
    BY <2>1 DEF CallStates
  <2>3. \A pc \in {"select", "rename", "insert", "upsert", "enqueue"}, ok \in BOOLEAN :
          /\ [call[c] EXCEPT !.pc = pc] \in CallStates
          /\ [call[c] EXCEPT !.pc = "answered", !.ok = ok] \in CallStates
    BY <2>1 DEF CallStates
  <2> QED
    BY <1>2, <2>2, <2>3
<1> QED
  BY <1>3, <1>4, CallCarries

\* A step is of one call, and leaves the others alone.
LEMMA OneCallSteps ==
  ASSUME TypeOK, [Next]_vars
  PROVE  \/ UNCHANGED vars
         \/ \E c \in Calls : /\ Send(c) \/ Statement(c) \/ Leave(c)
                             /\ \E new : call' = [call EXCEPT ![c] = new]
<1>1. ASSUME NEW c \in Calls, Send(c)
      PROVE  \E new : call' = [call EXCEPT ![c] = new]
  BY <1>1 DEF Send, SendEnsure, SendSync
<1>2. ASSUME NEW c \in Calls, Statement(c)
      PROVE  \E new : call' = [call EXCEPT ![c] = new]
  BY <1>2 DEF Statement, Look, Select, Rename, Insert, UpsertTender, RecordVersion, Enqueue,
              Answer, Fails, Ensured
<1>3. ASSUME NEW c \in Calls, Leave(c)
      PROVE  \E new : call' = [call EXCEPT ![c] = new]
  BY <1>3 DEF Leave
<1> QED
  BY <1>1, <1>2, <1>3 DEF Next

LEMMA InitTyped == Init => TypeOK
BY DEF Init, TypeOK, NoRow, Rows, IdleCall, CallStates

LEMMA StepTyped == TypeOK /\ [Next]_vars => TypeOK'
<1> SUFFICES ASSUME TypeOK, [Next]_vars PROVE TypeOK'
  OBVIOUS
<1>1. category' \in [Slugs -> Rows]
  <2>1. CASE UNCHANGED category
    BY <2>1 DEF TypeOK
  <2>2. ASSUME NEW c \in Calls, NEW row \in RowsWritten(c), Writes(c, row)
        PROVE  category' \in [Slugs -> Rows]
    BY <2>2, RowsWrittenType DEF Writes, TypeOK
  <2> QED
    BY <2>1, <2>2, StepWrites
<1>2. ASSUME NEW c \in Calls, NEW new \in CallStates, call' = [call EXCEPT ![c] = new]
      PROVE  call' \in [Calls -> CallStates]
  BY <1>2 DEF TypeOK
<1>3. ASSUME NEW c \in Calls, call[c].pc # "idle",
             \/ \E ok \in BOOLEAN : Answer(c, ok)
             \/ \E pc \in {"select", "rename", "insert"} : call' = [call EXCEPT ![c].pc = pc]
      PROVE  call' \in [Calls -> CallStates]
  <2>1. \/ \E ok \in BOOLEAN : call' = [call EXCEPT ![c] = [call[c] EXCEPT !.pc = "answered", !.ok = ok]]
        \/ \E pc \in {"select", "rename", "insert"} :
             call' = [call EXCEPT ![c] = [call[c] EXCEPT !.pc = pc]]
    BY <1>3 DEF Answer, TypeOK
  <2> QED
    BY <1>2, <1>3, <2>1, CallAdvanced
<1>4. ASSUME NEW c \in Calls, call[c].pc # "idle", Ensured(c)
      PROVE  call' \in [Calls -> CallStates]
  <2>1. CASE call[c].kind = "sync"
    <3>1. call' = [call EXCEPT ![c] = [call[c] EXCEPT !.pc = "upsert"]]
      BY <1>4, <2>1 DEF Ensured
    <3> QED
      BY <1>2, <1>4, <2>1, <3>1, CallAdvanced
  <2>2. CASE call[c].kind # "sync"
    BY <1>3, <1>4, <2>2 DEF Ensured
  <2> QED
    BY <2>1, <2>2
<1>5. ASSUME NEW c \in Calls, Send(c)
      PROVE  call' \in [Calls -> CallStates]
  <2>1. PICK new \in CallStates : call' = [call EXCEPT ![c] = new]
    <3>1. ASSUME NEW i \in CategoryIds, NEW t \in Titles, SendEnsure(c, i, t)
          PROVE  \E new \in CallStates : call' = [call EXCEPT ![c] = new]
      BY <3>1 DEF SendEnsure, CallStates
    <3>2. ASSUME NEW i \in CategoryIds, NEW t \in Titles, NEW v \in Versions,
                 NEW items \in SUBSET Tenders, SendSync(c, i, t, v, items)
          PROVE  \E new \in CallStates : call' = [call EXCEPT ![c] = new]
      BY <3>2 DEF SendSync, CallStates
    <3> QED
      BY <1>5, <3>1, <3>2 DEF Send
  <2> QED
    BY <1>2, <2>1
<1>6. ASSUME NEW c \in Calls, Look(c) \/ Select(c) \/ Rename(c) \/ Insert(c) \/ Enqueue(c)
      PROVE  call' \in [Calls -> CallStates]
  BY <1>3, <1>4, <1>6 DEF Look, Select, Rename, Insert, Enqueue, Fails
<1>7. ASSUME NEW c \in Calls, UpsertTender(c)
      PROVE  call' \in [Calls -> CallStates]
  <2>1. call[c].kind = "sync" /\ call[c].left \in SUBSET Tenders /\ call[c].pc = "upsert"
    BY <1>7, CallCarries DEF UpsertTender
  <2>2. PICK t \in Tenders :
          Answer(c, FALSE) \/ call' = [call EXCEPT ![c] = [call[c] EXCEPT !.left = @ \ {t}]]
    BY <1>7, <2>1 DEF UpsertTender, Fails
  <2> QED
    BY <1>2, <1>3, <2>1, <2>2, CallAdvanced
<1>8. ASSUME NEW c \in Calls, RecordVersion(c)
      PROVE  call' \in [Calls -> CallStates]
  <2>1. call' = [call EXCEPT ![c] = [call[c] EXCEPT !.pc = "enqueue"]]
        /\ call[c].kind = "sync" /\ call[c].pc # "idle"
    BY <1>8, CallCarries DEF RecordVersion
  <2> QED
    BY <1>2, <2>1, CallAdvanced
<1>9. ASSUME NEW c \in Calls, Leave(c)
      PROVE  call' \in [Calls -> CallStates]
  BY <1>2, <1>9, CallAdvanced DEF Leave
<1>10. CASE UNCHANGED vars
  BY <1>10 DEF vars, TypeOK
<1> QED
  BY <1>1, <1>5, <1>6, <1>7, <1>8, <1>9, <1>10 DEF Next, Statement, TypeOK

\* Categories and calls are well formed.
THEOREM TypeCorrect == Spec => []TypeOK
BY InitTyped, StepTyped, PTL DEF Spec

----------------------------------------------------------------------------
(* A sync that answers without an error is complete.                       *)

\* What the statements of a sync have done when it has come to each of them.
Progress(c) ==
  /\ call[c].pc \in {"select", "rename", "insert"} => call[c].left = call[c].items
  /\ call[c].pc = "upsert" =>
       /\ call[c].left \subseteq call[c].items
       /\ call[c].items \ call[c].left \subseteq category[SlugAt(c)].tenders
  /\ call[c].pc = "enqueue" \/ Succeeded(c) =>
       call[c].items \subseteq category[SlugAt(c)].tenders
  /\ Succeeded(c) => call[c].items \subseteq category[SlugAt(c)].ingest

ProgressInv ==
  /\ TypeOK
  /\ \A c \in Calls : call[c].pc # "idle" /\ call[c].kind = "sync" => Progress(c)

LEMMA ProgressInit == Init => ProgressInv
BY InitTyped DEF Init, IdleCall, ProgressInv

\* What other calls do takes nothing back.
LEMMA ProgressKept ==
  ASSUME TypeOK, [Next]_vars, NEW c \in Calls, call[c].pc # "idle", Progress(c),
         call'[c] = call[c]
  PROVE  Progress(c)'
<1>1. SlugAt(c) \in Slugs /\ SlugAt(c)' = SlugAt(c)
  BY CallCarries DEF SlugAt
<1>2. /\ category[SlugAt(c)].tenders \subseteq category'[SlugAt(c)].tenders
      /\ category[SlugAt(c)].ingest \subseteq category'[SlugAt(c)].ingest
  BY <1>1, RowsGrow
<1> QED
  BY <1>1, <1>2 DEF Progress, Succeeded

LEMMA ProgressStep == ProgressInv /\ [Next]_vars => ProgressInv'
<1> SUFFICES ASSUME ProgressInv, [Next]_vars PROVE ProgressInv'
  OBVIOUS
<1>0. TypeOK /\ TypeOK'
  BY StepTyped DEF ProgressInv
<1> SUFFICES ASSUME NEW c \in Calls, call'[c].pc # "idle", call'[c].kind = "sync"
             PROVE  Progress(c)'
  BY <1>0 DEF ProgressInv
<1>1. CASE call'[c] = call[c]
  BY <1>0, <1>1, ProgressKept DEF ProgressInv
<1>2. ASSUME call'[c] # call[c]
      PROVE  Send(c) \/ Statement(c) \/ Leave(c)
  <2>1. PICK d \in Calls : /\ Send(d) \/ Statement(d) \/ Leave(d)
                           /\ \E new : call' = [call EXCEPT ![d] = new]
    BY <1>0, <1>2, OneCallSteps DEF vars
  <2>2. c = d
    BY <1>0, <1>2, <2>1 DEF TypeOK
  <2> QED
    BY <2>1, <2>2
<1>3. call \in [Calls -> CallStates] /\ category \in [Slugs -> Rows]
  BY <1>0 DEF TypeOK
<1>4. CASE Send(c)
  <2>1. call'[c].pc = "look" \/ (call'[c].pc = "select" /\ call'[c].left = call'[c].items)
    BY <1>3, <1>4 DEF Send, SendEnsure, SendSync
  <2> QED
    BY <2>1 DEF Progress, Succeeded
<1>5. CASE Leave(c)
  BY <1>3, <1>5 DEF Leave, IdleCall
<1>6. ASSUME Statement(c)
      PROVE  /\ call[c].pc # "idle" /\ call[c].kind = "sync" /\ Progress(c)
             /\ SlugAt(c) \in Slugs /\ SlugAt(c)' = SlugAt(c)
             /\ call'[c].items = call[c].items
             /\ category[SlugAt(c)].tenders \subseteq category'[SlugAt(c)].tenders
             /\ category[SlugAt(c)].ingest \subseteq category'[SlugAt(c)].ingest
  <2>1. call[c].pc # "idle" /\ call[c] \in CallStates
    BY <1>3, <1>6
    DEF Statement, Look, Select, Rename, Insert, UpsertTender, RecordVersion, Enqueue
  <2>2. /\ call'[c].kind = call[c].kind /\ call'[c].id = call[c].id
        /\ call'[c].items = call[c].items
    BY <1>3, <1>6, <2>1
    DEF Statement, Look, Select, Rename, Insert, UpsertTender, RecordVersion, Enqueue, Answer,
        Fails, Ensured, CallStates
  <2>3. SlugAt(c) \in Slugs /\ SlugAt(c)' = SlugAt(c)
    BY <1>0, <2>1, <2>2, CallCarries DEF SlugAt
  <2> QED
    BY <1>0, <2>1, <2>2, <2>3, RowsGrow DEF ProgressInv
<1>7. CASE Look(c) \/ Select(c) \/ Rename(c) \/ Insert(c)
  <2>1. \/ call'[c].pc = "answered" /\ ~call'[c].ok
        \/ /\ call'[c].pc \in {"select", "rename", "insert", "upsert"}
           /\ call[c].pc \in {"select", "rename", "insert"}
           /\ call'[c].left = call[c].left
    BY <1>3, <1>6, <1>7, <1>0, CallCarries
    DEF Statement, Look, Select, Rename, Insert, Answer, Fails, Ensured, CallStates
  <2> QED
    BY <1>6, <1>7, <2>1 DEF Statement, Progress, Succeeded
<1>8. CASE UpsertTender(c)
  <2>1. CASE call'[c].pc = "answered" /\ ~call'[c].ok
    BY <2>1 DEF Progress, Succeeded
  <2>2. CASE ~(call'[c].pc = "answered" /\ ~call'[c].ok)
    <3>1. PICK t \in call[c].left :
            /\ category' = [category EXCEPT ![SlugAt(c)].tenders = @ \cup {t}]
            /\ call' = [call EXCEPT ![c].left = @ \ {t}]
      BY <1>3, <1>8, <2>2 DEF UpsertTender, Fails, Answer, CallStates
    <3>2. /\ category'[SlugAt(c)].tenders = category[SlugAt(c)].tenders \cup {t}
          /\ call'[c].left = call[c].left \ {t} /\ call'[c].pc = "upsert"
      BY <1>3, <1>6, <1>8, <3>1 DEF Statement, UpsertTender, CallStates, Rows
    <3> QED
      BY <1>6, <1>8, <3>2 DEF Statement, UpsertTender, Progress, Succeeded
  <2> QED
    BY <2>1, <2>2
<1>9. CASE RecordVersion(c)
  <2>1. call'[c].pc = "enqueue" /\ call[c].pc = "upsert" /\ call[c].left = {}
    BY <1>3, <1>9 DEF RecordVersion, CallStates
  <2> QED
    BY <1>6, <1>9, <2>1 DEF Statement, Progress, Succeeded
<1>10. CASE Enqueue(c)
  <2>1. CASE call'[c].pc = "answered" /\ ~call'[c].ok
    BY <2>1 DEF Progress, Succeeded
  <2>2. CASE ~(call'[c].pc = "answered" /\ ~call'[c].ok)
    <3>1. /\ call[c].pc = "enqueue" /\ call'[c].pc = "answered"
          /\ category' = [category EXCEPT ![SlugAt(c)] =
               [category[SlugAt(c)] EXCEPT !.ingest = @ \cup call[c].items]]
      BY <1>3, <1>10, <2>2 DEF Enqueue, Fails, Answer, CallStates
    <3>2. call[c].items \subseteq category'[SlugAt(c)].ingest
      BY <1>3, <1>6, <1>10, <3>1 DEF Statement, Rows
    <3> QED
      BY <1>6, <1>10, <3>1, <3>2 DEF Statement, Progress, Succeeded
  <2> QED
    BY <2>1, <2>2
<1> QED
  BY <1>1, <1>2, <1>4, <1>5, <1>7, <1>8, <1>9, <1>10 DEF Statement

\* A sync that answers without an error has linked and queued all its hits.
THEOREM SyncIsComplete == Spec => []AnsweredSyncIsComplete
<1>1. ProgressInv => AnsweredSyncIsComplete
  BY DEF ProgressInv, Progress, AnsweredSyncIsComplete, Succeeded
<1> QED
  BY <1>1, ProgressInit, ProgressStep, PTL DEF Spec

----------------------------------------------------------------------------
(* A call that has ensured the category has one.                           *)

\* The row of a searcher's slug is the searcher's, or not there.
OwnRows ==
  \A i \in CategoryIds :
    LET row == category[SlugOf[i]]
    IN  IF row.id = NoId THEN row = NoRow ELSE row.id = i /\ row.title \in Titles

\* The call is past the statements that ensure the category.
Past(c) == call[c].pc \in {"rename", "upsert", "enqueue"} \/ Succeeded(c)

OwnInv ==
  /\ ProgressInv
  /\ OwnRows
  /\ \A c \in Calls : Past(c) => HasCategory(call[c].id)

LEMMA OwnInit == Init => OwnInv
BY ProgressInit, CoreConstants DEF Init, OwnInv, OwnRows, Past, Succeeded, IdleCall, NoRow

\* A statement writes the row of its searcher, with the searcher's id.
LEMMA RowIsOwn ==
  ASSUME SlugsDistinct, OwnInv, NEW c \in Calls, NEW row \in RowsWritten(c)
  PROVE  LET k == call[c].id
             old == category[SlugAt(c)]
         IN  /\ k \in CategoryIds /\ SlugAt(c) = SlugOf[k] /\ SlugAt(c) \in Slugs
             /\ call[c].pc # "insert" => old.title \in Titles
             /\ row.id = k /\ row.title \in Titles
<1> DEFINE k == call[c].id
           old == category[SlugAt(c)]
<1>0. TypeOK
  BY DEF OwnInv, ProgressInv
<1>1. /\ k \in CategoryIds /\ SlugAt(c) = SlugOf[k] /\ SlugAt(c) \in Slugs
      /\ call[c].title \in Titles /\ call[c].pc # "idle"
  BY <1>0, CallCarries DEF RowsWritten, SlugAt
<1>2. old \in Rows /\ (IF old.id = NoId THEN old = NoRow ELSE old.id = k /\ old.title \in Titles)
  BY <1>0, <1>1 DEF OwnInv, OwnRows, TypeOK
<1>3. CASE call[c].pc = "insert"
  <2>1. row = Inserted(old, k, call[c].title)
    BY <1>3 DEF RowsWritten
  <2> QED
    BY <1>1, <1>2, <1>3, <2>1, CoreConstants DEF Inserted, Rows
<1>4. CASE call[c].pc # "insert"
  <2>1. Past(c)
    BY <1>4 DEF RowsWritten, Past
  <2>2. old.id = k /\ old.title \in Titles
    BY <1>1, <1>2, <2>1, CoreConstants DEF OwnInv, HasCategory
  <2>3. row.id = k /\ row.title \in Titles
    BY <1>1, <1>2, <1>4, <2>2 DEF RowsWritten, Rows
  <2> QED
    BY <1>1, <2>2, <2>3
<1> QED
  BY <1>3, <1>4

\* With a slug for each searcher, a statement touches one searcher's row only.
LEMMA OneRowWritten ==
  ASSUME SlugsDistinct, OwnInv, NEW c \in Calls, NEW row \in RowsWritten(c), Writes(c, row)
  PROVE  \A i \in CategoryIds :
           category'[SlugOf[i]] = IF i = call[c].id THEN row ELSE category[SlugOf[i]]
<1>1. call[c].id \in CategoryIds /\ SlugAt(c) = SlugOf[call[c].id] /\ SlugAt(c) \in Slugs
  BY RowIsOwn
<1>2. category \in [Slugs -> Rows] /\ category' = [category EXCEPT ![SlugAt(c)] = row]
  BY DEF OwnInv, ProgressInv, TypeOK, Writes
<1> QED
  BY <1>1, <1>2, CoreConstants DEF SlugsDistinct

LEMMA OwnRowsKept ==
  ASSUME SlugsDistinct, OwnInv, [Next]_vars
  PROVE  OwnRows'
<1>1. CASE UNCHANGED category
  BY <1>1 DEF OwnInv, OwnRows
<1>2. ASSUME NEW c \in Calls, NEW row \in RowsWritten(c), Writes(c, row)
      PROVE  OwnRows'
  <2>1. row.id = call[c].id /\ row.title \in Titles /\ row.id \in CategoryIds
    BY <1>2, RowIsOwn
  <2>2. \A i \in CategoryIds :
          category'[SlugOf[i]] = IF i = call[c].id THEN row ELSE category[SlugOf[i]]
    BY <1>2, OneRowWritten
  <2> QED
    BY <2>1, <2>2, CoreConstants DEF OwnInv, OwnRows
<1>3. TypeOK
  BY DEF OwnInv, ProgressInv
<1> QED
  BY <1>1, <1>2, <1>3, StepWrites

\* A category that is there stays.
LEMMA CategoryKept ==
  ASSUME TypeOK, [Next]_vars, NEW i \in CategoryIds, HasCategory(i)
  PROVE  HasCategory(i)'
<1>1. SlugOf[i] \in Slugs /\ i # NoId
  BY CoreConstants
<1> QED
  BY <1>1, RowsGrow DEF HasCategory

LEMMA OwnStep == SlugsDistinct /\ OwnInv /\ [Next]_vars => OwnInv'
<1> SUFFICES ASSUME SlugsDistinct, OwnInv, [Next]_vars PROVE OwnInv'
  OBVIOUS
<1>0. /\ TypeOK /\ call \in [Calls -> CallStates] /\ category \in [Slugs -> Rows]
      /\ ProgressInv' /\ OwnRows'
  BY ProgressStep, OwnRowsKept DEF OwnInv, ProgressInv, TypeOK
<1> SUFFICES ASSUME NEW c \in Calls, Past(c)' PROVE HasCategory(call[c].id)'
  BY <1>0 DEF OwnInv
<1>1. ASSUME Past(c), call'[c].id = call[c].id
      PROVE  HasCategory(call[c].id)'
  <2>1. call[c].id \in CategoryIds /\ HasCategory(call[c].id)
    BY <1>0, <1>1, CallCarries DEF OwnInv, Past, Succeeded
  <2> QED
    BY <1>0, <1>1, <2>1, CategoryKept DEF HasCategory
<1>2. CASE call'[c] = call[c]
  BY <1>1, <1>2 DEF Past, Succeeded
<1>3. ASSUME call'[c] # call[c]
      PROVE  Statement(c)
  <2>1. PICK d \in Calls : /\ Send(d) \/ Statement(d) \/ Leave(d)
                           /\ \E new : call' = [call EXCEPT ![d] = new]
    BY <1>0, <1>3, OneCallSteps DEF vars
  <2>2. c = d
    BY <1>0, <1>3, <2>1
  <2>3. ~Send(c) /\ ~Leave(c)
    BY <1>0 DEF Send, SendEnsure, SendSync, Leave, IdleCall, Past, Succeeded
  <2> QED
    BY <2>1, <2>2, <2>3
<1>4. ASSUME Statement(c)
      PROVE  call[c].pc # "idle" /\ call'[c].id = call[c].id
  <2>1. call[c].pc # "idle" /\ call[c] \in CallStates
    BY <1>0, <1>4
    DEF Statement, Look, Select, Rename, Insert, UpsertTender, RecordVersion, Enqueue
  <2> QED
    BY <1>0, <1>4, <2>1
    DEF Statement, Look, Select, Rename, Insert, UpsertTender, RecordVersion, Enqueue, Answer,
        Fails, Ensured, CallStates
<1>5. CASE Look(c) \/ Select(c)
  <2>1. HasCategory(call[c].id) /\ UNCHANGED category
    BY <1>0, <1>5 DEF Look, Select, Answer, Past, Succeeded, CallStates
  <2> QED
    BY <1>4, <1>5, <2>1 DEF Statement, HasCategory
<1>6. CASE Insert(c)
  <2> DEFINE k == call[c].id
             old == category[SlugOf[k]]
  <2>1. k \in CategoryIds /\ SlugAt(c) = SlugOf[k] /\ SlugOf[k] \in Slugs
    BY <1>0, <1>4, <1>6, CallCarries DEF Statement, SlugAt
  <2>2. old.id \in {NoId, k} /\ old \in Rows
    BY <1>0, <2>1 DEF OwnInv, OwnRows, NoRow
  <2>3. category' = [category EXCEPT ![SlugOf[k]] = Inserted(old, k, call[c].title)]
    BY <1>0, <1>6, <2>1 DEF Insert, Fails, Answer, Past, Succeeded, CallStates
  <2>4. category'[SlugOf[k]].id = k
    BY <1>0, <2>1, <2>2, <2>3 DEF Inserted, Rows
  <2> QED
    BY <1>4, <1>6, <2>4 DEF Statement, HasCategory
<1>7. CASE Rename(c) \/ UpsertTender(c) \/ RecordVersion(c) \/ Enqueue(c)
  <2>1. Past(c)
    BY <1>7 DEF Rename, UpsertTender, RecordVersion, Enqueue, Past
  <2> QED
    BY <1>1, <1>4, <1>7, <2>1 DEF Statement
<1> QED
  BY <1>2, <1>3, <1>5, <1>6, <1>7 DEF Statement

\* With a slug for each searcher, whoever has ensured a category finds it there.
THEOREM EnsuredIsThere == SlugsDistinct => (Spec => []EnsuredHasCategory)
<1> SUFFICES ASSUME SlugsDistinct PROVE Spec => []EnsuredHasCategory
  OBVIOUS
<1>1. Init => OwnInv
  BY OwnInit
<1>2. OwnInv /\ [Next]_vars => OwnInv'
  BY OwnStep
<1>3. OwnInv => EnsuredHasCategory
  BY DEF OwnInv, Past, EnsuredHasCategory
<1> QED
  BY <1>1, <1>2, <1>3, PTL DEF Spec

----------------------------------------------------------------------------
(* Every statement is a step CoreCatalog allows.                           *)

\* What CoreCatalog sees of a row.
Seen(row) == [title |-> row.title, synced |-> row.synced, tenders |-> row.tenders]

LEMMA CatalogSeen ==
  ASSUME OwnRows
  PROVE  CatalogNow = [i \in CategoryIds |-> Seen(category[SlugOf[i]])]
<1> SUFFICES ASSUME NEW i \in CategoryIds
             PROVE  CatalogNow[i] = Seen(category[SlugOf[i]])
  BY DEF CatalogNow
<1>1. CASE category[SlugOf[i]].id = NoId
  <2>1. category[SlugOf[i]] = NoRow /\ ~HasCategory(i)
    BY <1>1, CoreConstants DEF OwnRows, HasCategory
  <2>2. Seen(NoRow) = [title |-> NoTitle, synced |-> 0, tenders |-> {}]
    BY DEF Seen, NoRow
  <2> QED
    BY <2>1, <2>2 DEF CatalogNow
<1>2. CASE category[SlugOf[i]].id # NoId
  BY <1>2 DEF OwnRows, CatalogNow, HasCategory, Seen
<1> QED
  BY <1>1, <1>2

\* Upserting hits, as CoreCatalog sees it.
LEMMA UpsertedSeen ==
  ASSUME NEW old \in Rows, NEW t \in Titles, NEW hits \in SUBSET Tenders,
         NEW v \in Versions \cup {0}
  PROVE  Catalog!Upserted(Seen(old), t, hits, v)
           = [title |-> t, synced |-> v, tenders |-> old.tenders \cup hits]
<1> DEFINE r == Seen(old)
           SeenRows == [title : Titles \cup {NoTitle}, synced : Versions \cup {0},
                        tenders : SUBSET Tenders]
           new == Catalog!Upserted(r, t, hits, v)
<1>1. r \in SeenRows /\ r.tenders = old.tenders
  BY DEF Seen, Rows
<1> HIDE DEF r
<1>2. new \in SeenRows
  BY <1>1 DEF Catalog!Upserted
<1>3. new.title = t /\ new.synced = v /\ new.tenders = old.tenders \cup hits
  BY <1>1 DEF Catalog!Upserted
<1> HIDE DEF new
<1>4. new = [title |-> t, synced |-> v, tenders |-> old.tenders \cup hits]
  BY <1>2, <1>3
<1> QED
  BY <1>4 DEF new, r

\* A statement's write, as CoreCatalog sees it.
LEMMA WriteSeen ==
  ASSUME SlugsDistinct, OwnInv, OwnRows', NEW c \in Calls, NEW row \in RowsWritten(c),
         Writes(c, row)
  PROVE  /\ call[c].id \in CategoryIds
         /\ CatalogNow' = [CatalogNow EXCEPT ![call[c].id] = Seen(row)]
         /\ CatalogNow[call[c].id] = Seen(category[SlugAt(c)])
<1>1. CatalogNow' = [i \in CategoryIds |-> Seen(category'[SlugOf[i]])]
  <2> SUFFICES ASSUME NEW i \in CategoryIds
               PROVE  CatalogNow'[i] = Seen(category'[SlugOf[i]])
    BY DEF CatalogNow
  <2>1. category'[SlugOf[i]].id = NoId => category'[SlugOf[i]] = NoRow
    BY DEF OwnRows
  <2>2. Seen(NoRow) = [title |-> NoTitle, synced |-> 0, tenders |-> {}]
    BY DEF Seen, NoRow
  <2> QED
    BY <2>1, <2>2, CoreConstants DEF OwnRows, CatalogNow, HasCategory, Seen
<1>2. CatalogNow = [i \in CategoryIds |-> Seen(category[SlugOf[i]])]
  BY CatalogSeen DEF OwnInv
<1>3. \A i \in CategoryIds :
        category'[SlugOf[i]] = IF i = call[c].id THEN row ELSE category[SlugOf[i]]
  BY OneRowWritten
<1> QED
  BY <1>1, <1>2, <1>3, RowIsOwn

LEMMA WriteAllowed ==
  ASSUME SlugsDistinct, OwnInv, OwnRows', NEW c \in Calls, NEW row \in RowsWritten(c),
         Writes(c, row), CatalogNow' # CatalogNow
  PROVE  call[c].pc # "idle" /\ \E ok \in BOOLEAN : CatalogCall(c, ok)
<1> DEFINE k == call[c].id
           t == call[c].title
           old == category[SlugAt(c)]
<1>0. TypeOK
  BY DEF OwnInv, ProgressInv
<1>1. /\ call[c].pc # "idle" /\ k \in CategoryIds /\ t \in Titles
      /\ call[c].kind \in {"ensure", "sync"} /\ t # NoTitle
      /\ call[c].pc \in {"upsert", "enqueue"} => call[c].kind = "sync"
      /\ SlugAt(c) \in Slugs /\ old \in Rows
  BY <1>0, CallCarries, CoreConstants DEF RowsWritten, TypeOK
<1>2. /\ CatalogNow' = [CatalogNow EXCEPT ![k] = Seen(row)]
      /\ CatalogNow[k] = Seen(old)
      /\ \A new : [CatalogNow EXCEPT ![k] = new][k] = new
  BY <1>1, WriteSeen DEF CatalogNow
<1>3. CASE call[c].pc \in {"rename", "insert"}
  <2>1. Seen(row) = [Seen(old) EXCEPT !.title = t]
    <3>1. row.title = t /\ row.synced = old.synced /\ row.tenders = old.tenders
      BY <1>1, <1>3 DEF RowsWritten, Inserted, Rows
    <3>2. Seen(old) \in [title : Titles \cup {NoTitle}, synced : Versions \cup {0},
                         tenders : SUBSET Tenders]
      BY <1>1 DEF Seen, Rows
    <3>3. Seen(old).synced = old.synced /\ Seen(old).tenders = old.tenders
      BY DEF Seen
    <3>4. [Seen(old) EXCEPT !.title = t]
            = [title |-> t, synced |-> Seen(old).synced, tenders |-> Seen(old).tenders]
      BY <3>2
    <3> QED
      BY <3>1, <3>3, <3>4 DEF Seen
  <2>2. CASE call[c].kind = "ensure"
    <3>1. Catalog!CategoryPosted(k, t, TRUE)
      BY <1>2, <2>1 DEF Catalog!CategoryPosted
    <3> QED
      BY <1>1, <2>2, <3>1 DEF CatalogCall, Catalog!EnsureCategory
  <2>3. CASE call[c].kind = "sync"
    <3>1. Seen(row) = Catalog!Upserted(CatalogNow[k], t, {}, CatalogNow[k].synced)
      BY <1>1, <1>2, <2>1, UpsertedSeen DEF Seen, Rows
    <3>2. t \in Catalog!TitlesAfter(k, t)
      BY <1>1 DEF Catalog!TitlesAfter
    <3>3. Catalog!SyncCut(k, t, call[c].items, FALSE)
      BY <1>2, <3>1, <3>2 DEF Catalog!SyncCut
    <3> QED
      BY <1>1, <2>3, <3>3 DEF CatalogCall, Catalog!SyncSearchConfig
  <2> QED
    BY <1>1, <2>2, <2>3
<1>4. CASE call[c].pc = "upsert"
  <2>1. /\ call[c].kind = "sync" /\ Progress(c)
        /\ call[c].left \in SUBSET Tenders /\ call[c].items \in SUBSET Tenders
        /\ call[c].ver \in Versions
    BY <1>0, <1>1, <1>4, CallCarries DEF OwnInv, ProgressInv
  <2>2. old.title \in Titles /\ old.title \in Catalog!TitlesAfter(k, t)
    <3>1. old.title \in Titles
      BY <1>4, RowIsOwn
    <3> QED
      BY <1>2, <3>1, CoreConstants DEF Catalog!TitlesAfter, Seen
  <2>3. ASSUME NEW n \in call[c].left, row = [old EXCEPT !.tenders = @ \cup {n}]
        PROVE  Catalog!SyncCut(k, t, call[c].items, FALSE)
    <3>1. Seen(row) = Catalog!Upserted(CatalogNow[k], old.title, {n}, CatalogNow[k].synced)
      <4>1. {n} \in SUBSET Tenders /\ old.synced \in Versions \cup {0}
        BY <1>1, <2>1, <2>3 DEF Rows
      <4>2. row.title = old.title /\ row.synced = old.synced /\ row.tenders = old.tenders \cup {n}
        BY <1>1, <2>3 DEF Rows
      <4>3. CatalogNow[k].synced = old.synced
        BY <1>2 DEF Seen
      <4> QED
        BY <1>1, <1>2, <2>2, <4>1, <4>2, <4>3, UpsertedSeen DEF Seen
    <3>2. {n} \in SUBSET call[c].items
      BY <1>4, <2>1, <2>3 DEF Progress
    <3> QED
      BY <1>2, <2>2, <3>1, <3>2 DEF Catalog!SyncCut
  <2>4. ASSUME call[c].left = {}, row = [old EXCEPT !.synced = call[c].ver]
        PROVE  Catalog!SyncApplied(k, t, call[c].ver, call[c].items, TRUE)
    <3>1. call[c].items \subseteq old.tenders
      BY <1>4, <2>1, <2>4 DEF Progress
    <3>2. Seen(row) = Catalog!Upserted(CatalogNow[k], old.title, call[c].items, call[c].ver)
      <4>1. row.title = old.title /\ row.synced = call[c].ver /\ row.tenders = old.tenders
        BY <1>1, <2>1, <2>4 DEF Rows
      <4>2. old.tenders = old.tenders \cup call[c].items
        BY <3>1
      <4> QED
        BY <1>1, <1>2, <2>1, <2>2, <4>1, <4>2, UpsertedSeen DEF Seen
    <3> QED
      BY <1>2, <2>2, <3>2 DEF Catalog!SyncApplied
  <2>5. \/ \E n \in call[c].left : row = [old EXCEPT !.tenders = @ \cup {n}]
        \/ call[c].left = {} /\ row = [old EXCEPT !.synced = call[c].ver]
    BY <1>4 DEF RowsWritten
  <2> QED
    BY <1>1, <2>1, <2>3, <2>4, <2>5 DEF CatalogCall, Catalog!SyncSearchConfig
<1>5. CASE call[c].pc = "enqueue"
  <2>1. Seen(row) = Seen(old)
    BY <1>1, <1>5 DEF RowsWritten, Seen, Rows
  <2> QED
    BY <1>1, <1>2, <2>1 DEF CatalogNow
<1> QED
  BY <1>3, <1>4, <1>5 DEF RowsWritten

\* With a slug for each searcher, however the statements of calls interleave and
\* fail, the catalogue changes only as CoreCatalog allows a call under way.
THEOREM CatalogImplemented == SlugsDistinct => (Spec => ImplementsCatalog)
<1> SUFFICES ASSUME SlugsDistinct PROVE Spec => ImplementsCatalog
  OBVIOUS
<1> DEFINE Allowed == \E c \in Calls, ok \in BOOLEAN : call[c].pc # "idle" /\ CatalogCall(c, ok)
<1>1. Init => OwnInv /\ Catalog!CatalogInit
  BY OwnInit, CoreConstants DEF Init, Catalog!CatalogInit, CatalogNow, HasCategory, NoRow
<1>2. OwnInv /\ [Next]_vars => OwnInv'
  BY OwnStep
<1>3. OwnInv /\ OwnInv' /\ [Next]_vars => [Allowed]_CatalogNow
  <2> SUFFICES ASSUME OwnInv, OwnInv', [Next]_vars, CatalogNow' # CatalogNow PROVE Allowed
    OBVIOUS
  <2>1. category' # category
    BY DEF CatalogNow, HasCategory
  <2>2. PICK c \in Calls : \E row \in RowsWritten(c) : Writes(c, row)
    BY <2>1, StepWrites DEF OwnInv, ProgressInv
  <2>3. call[c].pc # "idle" /\ \E ok \in BOOLEAN : CatalogCall(c, ok)
    BY <2>2, WriteAllowed DEF OwnInv
  <2> QED
    BY <2>3
<1> QED
  BY <1>1, <1>2, <1>3, PTL DEF Spec, ImplementsCatalog
====
