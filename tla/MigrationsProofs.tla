---- MODULE MigrationsProofs ----
(***************************************************************************)
(* The migrations of any number of processes over any files: theorems of   *)
(* Migrations.  That every process comes to serve is left to TLC; that     *)
(* every step without a fault gains something is StartsAreConverging.      *)
(***************************************************************************)
EXTENDS Migrations, TLAPS

ActivePcs == {"ledger", "creating", "check", "exec", "record", "commit", "serving"}

LEMMA FileCount == Len(KindOf) \in Nat
BY MigrationConstants

LEMMA DownIsState == Down \in ProcessStates
BY DEF Down, ProcessStates

LEMMA ActiveCarries ==
  ASSUME NEW s \in ProcessStates, s.pc # "down"
  PROVE  /\ s.pc \in ActivePcs /\ s.image \in Images /\ s.file \in 1..Len(KindOf) + 1
         /\ s = [pc |-> s.pc, image |-> s.image, file |-> s.file]
BY DEF ProcessStates, ActivePcs

\* A process goes on with its file, or from a file of its image to the next.
LEMMA NextState ==
  ASSUME NEW s \in ProcessStates, s.pc # "down"
  PROVE  /\ \A pc \in ActivePcs : [s EXCEPT !.pc = pc] \in ProcessStates
         /\ s.file <= s.image => [s EXCEPT !.file = @ + 1] \in ProcessStates
         /\ s.file <= s.image => [s EXCEPT !.pc = "check", !.file = @ + 1] \in ProcessStates
<1>1. s.image \in Images /\ s.image \in 0..Len(KindOf) /\ s.file \in 1..Len(KindOf) + 1
      /\ s.pc \in ActivePcs
  BY ActiveCarries, MigrationConstants
<1>2. \A pc \in ActivePcs, f \in 1..Len(KindOf) + 1 :
        [pc |-> pc, image |-> s.image, file |-> f] \in ProcessStates
  BY <1>1 DEF ProcessStates, ActivePcs
<1>3. \A pc \in ActivePcs :
        [s EXCEPT !.pc = pc] = [pc |-> pc, image |-> s.image, file |-> s.file]
  BY ActiveCarries
<1>4. \A f : /\ [s EXCEPT !.file = f] = [pc |-> s.pc, image |-> s.image, file |-> f]
            /\ [s EXCEPT !.pc = "check", !.file = f]
                 = [pc |-> "check", image |-> s.image, file |-> f]
  <2>1. ASSUME NEW f
        PROVE  [s EXCEPT !.file = f] = [pc |-> s.pc, image |-> s.image, file |-> f]
    BY ActiveCarries
  <2>2. ASSUME NEW f
        PROVE  [s EXCEPT !.pc = "check", !.file = f]
                 = [pc |-> "check", image |-> s.image, file |-> f]
    <3> DEFINE r == [s EXCEPT !.pc = "check"]
    <3>1. r = [pc |-> "check", image |-> s.image, file |-> s.file]
      BY ActiveCarries
    <3>2. [s EXCEPT !.pc = "check", !.file = f] = [r EXCEPT !.file = f]
      OBVIOUS
    <3> HIDE DEF r
    <3>3. [r EXCEPT !.file = f] = [pc |-> "check", image |-> s.image, file |-> f]
      BY <3>1
    <3> QED
      BY <3>2, <3>3
  <2> QED
    BY <2>1, <2>2
<1>5. s.file <= s.image => s.file + 1 \in 1..Len(KindOf) + 1
  BY <1>1, FileCount
<1>6. \A pc \in ActivePcs : [s EXCEPT !.pc = pc] \in ProcessStates
  BY <1>1, <1>2, <1>3
<1>7. s.file <= s.image => [s EXCEPT !.file = @ + 1] \in ProcessStates
  <2>1. s.file <= s.image =>
          [pc |-> s.pc, image |-> s.image, file |-> s.file + 1] \in ProcessStates
    BY <1>1, <1>2, <1>5
  <2> QED
    BY <1>4, <2>1
<1>8. s.file <= s.image => [s EXCEPT !.pc = "check", !.file = @ + 1] \in ProcessStates
  <2>1. "check" \in ActivePcs
    BY DEF ActivePcs
  <2>2. s.file <= s.image =>
          [pc |-> "check", image |-> s.image, file |-> s.file + 1] \in ProcessStates
    BY <1>2, <1>5, <2>1
  <2> QED
    BY <1>4, <2>2
<1> QED
  BY <1>6, <1>7, <1>8

----------------------------------------------------------------------------
\* What process state s stands on: the files before the one it is at have been
\* applied, it goes no further than its image, and what it is about to commit has
\* not been recorded by another.
Sound(s) ==
  /\ s.pc # "down" => 1..(s.file - 1) \subseteq applied
  /\ s.pc \in {"exec", "record", "commit"} => s.file <= s.image
  /\ s.pc = "commit" => s.file \notin applied
  /\ s.pc = "serving" => s.file > s.image

\* The lock on schema_migrations: of the transactions that have inserted a file
\* name only one is open.
RecordedByOne ==
  \A p, q \in Processes :
    At(p, "commit") /\ At(q, "commit") /\ proc[p].file = proc[q].file => p = q

\* The three invariants of the runs, with what makes them inductive: a process
\* works on what it saw before, and Sound says what of it still holds.
MigrationInv ==
  /\ TypeOK
  /\ RecordedExactlyOnce
  /\ AppliedInOrder
  /\ \A p \in Processes : Sound(proc[p])
  /\ RecordedByOne

LEMMA MigrationInit == Init => MigrationInv
<1> SUFFICES ASSUME Init PROVE MigrationInv
  OBVIOUS
<1>1. TypeOK
  <2>1. faults \in 0..MaxFaults
    BY MigrationConstants DEF Init
  <2>2. proc \in [Processes -> ProcessStates]
    BY DownIsState DEF Init
  <2>3. times \in [Files -> Nat] /\ applied \subseteq Files /\ ledger \in BOOLEAN
    BY DEF Init
  <2> QED
    BY <2>1, <2>2, <2>3 DEF TypeOK
<1>2. \A p \in Processes : proc[p].pc = "down"
  BY DEF Init, Down
<1>3. RecordedExactlyOnce /\ AppliedInOrder
  BY DEF Init, RecordedExactlyOnce, AppliedInOrder
<1>4. \A p \in Processes : Sound(proc[p])
  BY <1>2 DEF Sound
<1>5. RecordedByOne
  BY <1>2 DEF RecordedByOne, At
<1> QED
  BY <1>1, <1>3, <1>4, <1>5 DEF MigrationInv

\* A step of one process that leaves the tables alone.
LEMMA ProcessMoves ==
  ASSUME MigrationInv, NEW p \in Processes, NEW s \in ProcessStates,
         proc' = [proc EXCEPT ![p] = s], UNCHANGED <<applied, times>>,
         ledger' \in BOOLEAN, faults' \in 0..MaxFaults,
         Sound(s),
         s.pc = "commit" =>
           \A q \in Processes \ {p} : ~(At(q, "commit") /\ proc[q].file = s.file)
  PROVE  MigrationInv'
<1>1. TypeOK /\ proc \in [Processes -> ProcessStates]
  BY DEF MigrationInv, TypeOK
<1>2. proc'[p] = s /\ \A q \in Processes \ {p} : proc'[q] = proc[q]
  BY <1>1
<1>3. TypeOK'
  BY <1>1 DEF TypeOK
<1>4. RecordedExactlyOnce' /\ AppliedInOrder'
  BY DEF MigrationInv, RecordedExactlyOnce, AppliedInOrder
<1>5. ASSUME NEW q \in Processes
      PROVE  Sound(proc[q])'
  <2>1. Sound(proc'[q])
    BY <1>2 DEF MigrationInv
  <2> QED
    BY <2>1 DEF Sound
<1>6. RecordedByOne'
  BY <1>2 DEF MigrationInv, RecordedByOne, At
<1> QED
  BY <1>3, <1>4, <1>5, <1>6 DEF MigrationInv

\* A step of one process that commits the file it is at.
LEMMA ProcessCommits ==
  ASSUME MigrationInv, NEW p \in Processes, NEW s \in ProcessStates,
         At(p, "commit"), Committed(proc[p].file),
         proc' = [proc EXCEPT ![p] = s],
         s = Down \/ s = [proc[p] EXCEPT !.pc = "check", !.file = @ + 1],
         UNCHANGED ledger, faults' \in 0..MaxFaults
  PROVE  MigrationInv'
<1> DEFINE f == proc[p].file
<1>1. TypeOK /\ proc \in [Processes -> ProcessStates] /\ proc[p] \in ProcessStates
  BY DEF MigrationInv, TypeOK
<1>2. /\ proc[p].pc = "commit" /\ proc[p].image \in 0..Len(KindOf)
      /\ f \in 1..Len(KindOf) + 1 /\ f <= proc[p].image
      /\ f \notin applied /\ 1..(f - 1) \subseteq applied
  BY <1>1, ActiveCarries, MigrationConstants DEF At, MigrationInv, Sound
<1>3. f \in Files /\ f \in Nat /\ times[f] = 0
  BY <1>2, FileCount DEF Files, MigrationInv, RecordedExactlyOnce
<1>4. applied' = applied \cup {f} /\ times' = [times EXCEPT ![f] = @ + 1]
  BY DEF Committed
<1>5. proc'[p] = s /\ \A q \in Processes \ {p} : proc'[q] = proc[q]
  BY <1>1
<1>6. s.pc \in {"down", "check"} /\ (s.pc = "check" => s.file = f + 1)
  BY <1>1, <1>2, ActiveCarries DEF Down
<1> HIDE DEF f
<1>7. TypeOK'
  BY <1>1, <1>3, <1>4 DEF TypeOK
<1>8. RecordedExactlyOnce'
  BY <1>1, <1>3, <1>4 DEF MigrationInv, RecordedExactlyOnce, TypeOK
<1>9. 1..f \subseteq applied'
  BY <1>2, <1>3, <1>4
<1>10. AppliedInOrder'
  BY <1>4, <1>9 DEF MigrationInv, AppliedInOrder
<1>11. ASSUME NEW q \in Processes
       PROVE  Sound(proc[q])'
  <2>1. CASE q = p
    <3>1. s.pc = "check" => 1..(s.file - 1) \subseteq applied'
      BY <1>3, <1>6, <1>9
    <3> QED
      BY <1>5, <1>6, <2>1, <3>1 DEF Sound
  <2>2. CASE q # p
    <3>1. proc'[q] = proc[q] /\ Sound(proc[q])
      BY <1>5, <2>2 DEF MigrationInv
    <3>2. proc[q].pc = "commit" => proc[q].file # f
      BY <1>2, <2>2 DEF MigrationInv, RecordedByOne, At, f
    <3> QED
      BY <1>4, <3>1, <3>2 DEF Sound
  <2> QED
    BY <2>1, <2>2
<1>12. RecordedByOne'
  BY <1>5, <1>6 DEF MigrationInv, RecordedByOne, At
<1> QED
  BY <1>7, <1>8, <1>10, <1>11, <1>12 DEF MigrationInv

LEMMA MigrationStep == MigrationInv /\ [Next]_vars => MigrationInv'
<1> SUFFICES ASSUME MigrationInv, [Next]_vars PROVE MigrationInv'
  OBVIOUS
<1>0. /\ TypeOK /\ ledger \in BOOLEAN /\ faults \in 0..MaxFaults
      /\ \A p \in Processes : proc[p] \in ProcessStates /\ Sound(proc[p])
  BY DEF MigrationInv, TypeOK
<1>1. ASSUME NEW p \in Processes, Start(p)
      PROVE  MigrationInv'
  <2>1. PICK n \in Images :
          proc' = [proc EXCEPT ![p] = [pc |-> "ledger", image |-> n, file |-> 1]]
    BY <1>1 DEF Start
  <2> DEFINE s == [pc |-> "ledger", image |-> n, file |-> 1]
  <2>2. s \in ProcessStates
    BY FileCount DEF ProcessStates
  <2>3. Sound(s)
    BY DEF Sound
  <2>4. s.pc # "commit"
    OBVIOUS
  <2> HIDE DEF s
  <2> QED
    BY <1>0, <1>1, <2>1, <2>2, <2>3, <2>4, ProcessMoves DEF Start, s
\* A process that is up goes to pc with the file it is at.
<1>2. ASSUME NEW p \in Processes, ~At(p, "down"), NEW pc \in ActivePcs,
             Go(p, pc), UNCHANGED <<applied, times>>,
             ledger' \in BOOLEAN, faults' \in 0..MaxFaults,
             pc \in {"exec", "record", "commit"} => proc[p].file <= proc[p].image,
             pc = "serving" => proc[p].file > proc[p].image,
             pc = "commit" =>
               /\ proc[p].file \notin applied
               /\ \A q \in Processes \ {p} :
                    ~(At(q, "commit") /\ proc[q].file = proc[p].file)
      PROVE  MigrationInv'
  <2> DEFINE s == [proc[p] EXCEPT !.pc = pc]
  <2>1. s \in ProcessStates /\ proc' = [proc EXCEPT ![p] = s]
    BY <1>0, <1>2, NextState DEF At, Go
  <2>2. s.pc = pc /\ s.file = proc[p].file /\ s.image = proc[p].image
    BY <1>0, <1>2, ActiveCarries DEF At
  <2> HIDE DEF s
  <2>3. Sound(s)
    BY <1>0, <1>2, <2>2 DEF Sound, At
  <2> QED
    BY <1>2, <2>1, <2>2, <2>3, ProcessMoves
<1>3. ASSUME NEW p \in Processes, Dies(p), UNCHANGED <<applied, times>>,
             ledger' \in BOOLEAN, faults' \in 0..MaxFaults
      PROVE  MigrationInv'
  <2>1. Sound(Down) /\ Down.pc # "commit"
    BY DEF Sound, Down
  <2> QED
    BY <1>3, <2>1, DownIsState, ProcessMoves DEF Dies
<1>4. ASSUME NEW p \in Processes, FindLedger(p)
      PROVE  MigrationInv'
  BY <1>0, <1>2, <1>4 DEF FindLedger, At, ActivePcs
<1>5. ASSUME NEW p \in Processes, CreateLedger(p)
      PROVE  MigrationInv'
  BY <1>0, <1>2, <1>3, <1>5 DEF CreateLedger, At, ActivePcs
<1>6. ASSUME NEW p \in Processes, Check(p)
      PROVE  MigrationInv'
  <2> DEFINE f == proc[p].file
             s == [proc[p] EXCEPT !.file = @ + 1]
  <2>1. proc[p].pc = "check" /\ UNCHANGED <<ledger, applied, times, faults>>
    BY <1>6 DEF Check, At
  <2>2. CASE f > proc[p].image /\ Go(p, "serving")
    BY <1>0, <1>2, <2>1, <2>2 DEF At, ActivePcs
  <2>3. CASE f <= proc[p].image /\ f \in applied /\ proc' = [proc EXCEPT ![p].file = @ + 1]
    <3>1. s \in ProcessStates /\ proc' = [proc EXCEPT ![p] = s]
      BY <1>0, <2>1, <2>3, NextState
    <3>2. s.pc = "check" /\ s.file = f + 1
      BY <1>0, <2>1, ActiveCarries
    <3>3. f \in Nat /\ f \in applied /\ 1..(f - 1) \subseteq applied
      BY <1>0, <2>1, <2>3, ActiveCarries, FileCount DEF Sound
    <3> HIDE DEF s, f
    <3>4. 1..((f + 1) - 1) \subseteq applied
      BY <3>3
    <3>5. Sound(s)
      BY <3>2, <3>4 DEF Sound
    <3> QED
      BY <1>0, <2>1, <3>1, <3>2, <3>5, ProcessMoves
  <2>4. CASE f <= proc[p].image /\ f \notin applied /\ Go(p, "exec")
    BY <1>0, <1>2, <2>1, <2>4 DEF At, ActivePcs
  <2> QED
    BY <1>6, <2>2, <2>3, <2>4 DEF Check
<1>7. ASSUME NEW p \in Processes, Exec(p)
      PROVE  MigrationInv'
  <2>1. /\ proc[p].pc = "exec" /\ UNCHANGED <<ledger, applied, times, faults>>
        /\ Dies(p) \/ Go(p, "record")
    BY <1>7 DEF Exec, At
  <2>2. proc[p].file <= proc[p].image
    BY <1>0, <2>1 DEF Sound
  <2> QED
    BY <1>0, <1>2, <1>3, <2>1, <2>2 DEF At, ActivePcs
<1>8. ASSUME NEW p \in Processes, Record(p)
      PROVE  MigrationInv'
  <2>1. /\ proc[p].pc = "record" /\ UNCHANGED <<ledger, applied, times, faults>>
        /\ \A q \in Processes \ {p} : ~(At(q, "commit") /\ proc[q].file = proc[p].file)
        /\ Dies(p) \/ (proc[p].file \notin applied /\ Go(p, "commit"))
    BY <1>8 DEF Record, At
  <2>2. proc[p].file <= proc[p].image
    BY <1>0, <2>1 DEF Sound
  <2> QED
    BY <1>0, <1>2, <1>3, <2>1, <2>2 DEF At, ActivePcs
<1>9. ASSUME NEW p \in Processes, Commit(p)
      PROVE  MigrationInv'
  <2> DEFINE s == [proc[p] EXCEPT !.pc = "check", !.file = @ + 1]
  <2>1. proc[p].file <= proc[p].image
    BY <1>0, <1>9 DEF Commit, At, Sound
  <2>2. s \in ProcessStates
    BY <1>0, <1>9, <2>1, NextState DEF Commit, At
  <2>3. proc' = [proc EXCEPT ![p] = s]
    BY <1>9 DEF Commit
  <2> QED
    BY <1>0, <1>9, <2>2, <2>3, ProcessCommits DEF Commit
<1>10. ASSUME NEW p \in Processes, Fault(p)
       PROVE  MigrationInv'
  BY <1>0, <1>3, <1>10, MigrationConstants DEF Fault
<1>11. ASSUME NEW p \in Processes, FaultAfterCommit(p)
       PROVE  MigrationInv'
  <2>1. faults' \in 0..MaxFaults
    BY <1>0, <1>11, MigrationConstants DEF FaultAfterCommit
  <2> QED
    BY <1>11, <2>1, DownIsState, ProcessCommits DEF FaultAfterCommit, Dies
<1>12. CASE UNCHANGED vars
  <2>1. TypeOK' /\ RecordedExactlyOnce' /\ AppliedInOrder'
    BY <1>12 DEF vars, MigrationInv, TypeOK, RecordedExactlyOnce, AppliedInOrder
  <2>2. \A p \in Processes : Sound(proc[p])'
    BY <1>0, <1>12 DEF vars, Sound
  <2>3. RecordedByOne'
    BY <1>12 DEF vars, MigrationInv, RecordedByOne, At
  <2> QED
    BY <2>1, <2>2, <2>3 DEF MigrationInv
<1> QED
  BY <1>1, <1>4, <1>5, <1>6, <1>7, <1>8, <1>9, <1>10, <1>11, <1>12 DEF Next, Migrate

LEMMA MigrationInvariant == Spec => []MigrationInv
<1>1. Init => MigrationInv
  BY MigrationInit
<1>2. MigrationInv /\ [Next]_vars => MigrationInv'
  BY MigrationStep
<1> QED
  BY <1>1, <1>2, PTL DEF Spec

\* Every variable keeps its type: no process goes past the files of its image.
THEOREM TypeCorrect == Spec => []TypeOK
<1>1. MigrationInv => TypeOK
  BY DEF MigrationInv
<1> QED
  BY <1>1, MigrationInvariant, PTL

\* A file has been executed with effect exactly once if schema_migrations has its
\* name and not at all if it has not, for any number of processes and faults.
THEOREM LedgerTellsTruth == Spec => []RecordedExactlyOnce
<1>1. MigrationInv => RecordedExactlyOnce
  BY DEF MigrationInv
<1> QED
  BY <1>1, MigrationInvariant, PTL

\* The files are applied in the order of their names, none left out.
THEOREM OrderKept == Spec => []AppliedInOrder
<1>1. MigrationInv => AppliedInOrder
  BY DEF MigrationInv
<1> QED
  BY <1>1, MigrationInvariant, PTL

\* Who serves has the schema of its image under it.
THEOREM ServingIsMigrated == Spec => []ServesMigrated
<1>1. ASSUME MigrationInv, NEW p \in Processes, At(p, "serving")
      PROVE  1..proc[p].image \subseteq applied
  <2>1. /\ proc[p] \in ProcessStates /\ proc[p].pc = "serving" /\ Sound(proc[p])
        /\ proc[p].file > proc[p].image /\ 1..(proc[p].file - 1) \subseteq applied
    BY <1>1 DEF MigrationInv, TypeOK, At, Sound
  <2>2. proc[p].file \in Nat /\ proc[p].image \in Nat
    BY <2>1, ActiveCarries, MigrationConstants, FileCount
  <2> QED
    BY <2>1, <2>2
<1>2. MigrationInv => ServesMigrated
  BY <1>1 DEF ServesMigrated
<1> QED
  BY <1>2, MigrationInvariant, PTL

----------------------------------------------------------------------------
(* What the service is promised.                                           *)

\* A step of one process is seen from outside by whether that process serves.
LEMMA ServedMoves ==
  ASSUME proc \in [Processes -> ProcessStates], NEW p \in Processes, NEW s,
         proc' = [proc EXCEPT ![p] = s]
  PROVE  ServedNow' = [ServedNow EXCEPT ![p] = IF s.pc = "serving" THEN {s.image} ELSE {}]
BY DEF ServedNow, At

\* The file a process commits is the next one.
LEMMA CommitApplies ==
  ASSUME MigrationInv, NEW p \in Processes, At(p, "commit"), Committed(proc[p].file),
         NEW s, proc' = [proc EXCEPT ![p] = s], s.pc # "serving"
  PROVE  Promise!Apply
<1> DEFINE f == proc[p].file
<1>1. TypeOK /\ proc \in [Processes -> ProcessStates] /\ times \in [Files -> Nat]
  BY DEF MigrationInv, TypeOK
<1>2. /\ proc[p] \in ProcessStates /\ proc[p].pc = "commit" /\ Sound(proc[p])
      /\ f \notin applied /\ 1..(f - 1) \subseteq applied /\ f <= proc[p].image
  BY <1>1 DEF MigrationInv, At, Sound
<1>3. f \in Files /\ f \in 1..Len(KindOf) /\ f \in Nat /\ Files = 1..Len(KindOf)
  BY <1>2, ActiveCarries, MigrationConstants, FileCount DEF Files
<1>4. times' = [times EXCEPT ![f] = @ + 1]
  BY DEF Committed
<1>5. \A g \in Files : times[g] = IF g \in applied THEN 1 ELSE 0
  BY DEF MigrationInv, RecordedExactlyOnce
<1>6. UNCHANGED ServedNow
  BY <1>1, <1>2, ServedMoves DEF ServedNow, At
<1> HIDE DEF f
<1>7. \A g \in Files : g \in applied <=> g <= f - 1
  <2>1. ASSUME NEW g \in Files, g <= f - 1
        PROVE  g \in applied
    BY <1>2, <1>3, <2>1 DEF f
  <2>2. ASSUME NEW g \in Files, g \in applied, ~(g <= f - 1)
        PROVE  FALSE
    <3>1. f \in 1..g
      BY <1>3, <2>2
    <3> QED
      BY <1>2, <2>2, <3>1 DEF MigrationInv, AppliedInOrder, f
  <2> QED
    BY <2>1, <2>2
<1>8. times = Promise!After(f - 1)
  BY <1>1, <1>3, <1>5, <1>7 DEF Promise!After
<1>9. times' = Promise!After(f)
  BY <1>3, <1>4, <1>8 DEF Promise!After
<1> QED
  BY <1>3, <1>6, <1>8, <1>9 DEF Promise!Apply

\* The processes, started together or not, stopped anywhere, implement the promise
\* of Schema: one file after the other, each once, then service.
THEOREM SchemaImplemented == Spec => ImplementsSchema
<1>1. Init => Promise!Init
  BY FileCount DEF Init, Promise!Init, Promise!After, Files, ServedNow, At, Down
<1>2. MigrationInv /\ [Next]_vars => [Promise!Next]_(Promise!schemaVars)
  <2> SUFFICES ASSUME MigrationInv, [Next]_vars PROVE [Promise!Next]_(Promise!schemaVars)
    OBVIOUS
  <2>0. /\ TypeOK /\ proc \in [Processes -> ProcessStates]
        /\ \A p \in Processes : proc[p] \in ProcessStates /\ Sound(proc[p])
        /\ Down.pc = "down"
    BY DEF MigrationInv, TypeOK, Down
  \* A step between two states in which the process does not serve.
  <2>1. ASSUME NEW p \in Processes, NEW s, proc' = [proc EXCEPT ![p] = s],
               ~At(p, "serving"), s.pc # "serving", UNCHANGED times
        PROVE  UNCHANGED Promise!schemaVars
    <3>1. ServedNow' = [ServedNow EXCEPT ![p] = {}]
      BY <2>0, <2>1, ServedMoves
    <3>2. ServedNow[p] = {} /\ ServedNow = [q \in Processes |-> ServedNow[q]]
      BY <2>1 DEF ServedNow
    <3> QED
      BY <2>1, <3>1, <3>2 DEF Promise!schemaVars
  <2>2. ASSUME NEW p \in Processes, ~At(p, "down"), ~At(p, "serving"), UNCHANGED times,
               NEW pc, pc # "serving", Go(p, pc)
        PROVE  UNCHANGED Promise!schemaVars
    <3>1. [proc[p] EXCEPT !.pc = pc].pc = pc
      BY <2>0, <2>2, ActiveCarries DEF At
    <3> QED
      BY <2>1, <2>2, <3>1 DEF Go
  <2>3. ASSUME NEW p \in Processes, ~At(p, "serving"), UNCHANGED times, Dies(p)
        PROVE  UNCHANGED Promise!schemaVars
    BY <2>0, <2>1, <2>3 DEF Dies
  <2>4. ASSUME NEW p \in Processes, Start(p)
        PROVE  UNCHANGED Promise!schemaVars
    BY <2>1, <2>4 DEF Start, At
  <2>5. ASSUME NEW p \in Processes, FindLedger(p) \/ CreateLedger(p) \/ Exec(p) \/ Record(p)
        PROVE  UNCHANGED Promise!schemaVars
    BY <2>2, <2>3, <2>5 DEF FindLedger, CreateLedger, Exec, Record, At
  <2>6. ASSUME NEW p \in Processes, Check(p)
        PROVE  [Promise!Next]_(Promise!schemaVars)
    <3> DEFINE f == proc[p].file
    <3>1. proc[p].pc = "check" /\ UNCHANGED times
      BY <2>6 DEF Check, At
    <3>2. CASE f > proc[p].image /\ Go(p, "serving")
      <4>0. /\ proc[p].image \in Images /\ f \in 1..Len(KindOf) + 1
            /\ 1..(f - 1) \subseteq applied
        BY <2>0, <3>1, ActiveCarries DEF Sound
      <4>a. applied \subseteq Files
        BY <2>0 DEF TypeOK
      <4>b. proc[p].image \in 0..Len(KindOf)
        BY <4>0, MigrationConstants
      <4>1. proc[p].image \in Nat /\ f \in Nat
        BY <4>0, <4>b, FileCount
      <4>2. \A g \in 1..proc[p].image : times[g] = 1
        BY <3>2, <4>0, <4>a, <4>1 DEF MigrationInv, RecordedExactlyOnce
      <4>3. /\ [proc[p] EXCEPT !.pc = "serving"].pc = "serving"
            /\ [proc[p] EXCEPT !.pc = "serving"].image = proc[p].image
        BY <2>0, <3>1, ActiveCarries
      <4>4. ServedNow' = [ServedNow EXCEPT ![p] = {proc[p].image}]
        BY <2>0, <3>2, <4>3, ServedMoves DEF Go
      <4>5. ServedNow[p] = {}
        BY <3>1 DEF ServedNow, At
      <4>6. Promise!Serve(p)
        BY <3>1, <4>0, <4>2, <4>4, <4>5 DEF Promise!Serve
      <4> QED
        BY <4>6 DEF Promise!Next
    <3>3. CASE proc' = [proc EXCEPT ![p].file = @ + 1]
      <4>1. [proc[p] EXCEPT !.file = @ + 1].pc = "check"
        BY <2>0, <3>1, ActiveCarries
      <4> QED
        BY <2>1, <3>1, <3>3, <4>1 DEF At
    <3>4. CASE Go(p, "exec")
      BY <2>2, <3>1, <3>4 DEF At
    <3> QED
      BY <2>6, <3>2, <3>3, <3>4 DEF Check
  <2>7. ASSUME NEW p \in Processes, Commit(p) \/ FaultAfterCommit(p)
        PROVE  Promise!Next
    <3>1. At(p, "commit") /\ Committed(proc[p].file)
      BY <2>7 DEF Commit, FaultAfterCommit
    <3>2. [proc[p] EXCEPT !.pc = "check", !.file = @ + 1].pc = "check"
      BY <2>0, <3>1, ActiveCarries DEF At
    <3>3. CASE Commit(p)
      BY <3>1, <3>2, <3>3, CommitApplies DEF Commit, Promise!Next
    <3>4. CASE FaultAfterCommit(p)
      BY <2>0, <3>1, <3>4, CommitApplies DEF FaultAfterCommit, Dies, Promise!Next
    <3> QED
      BY <2>7, <3>3, <3>4
  <2>8. ASSUME NEW p \in Processes, Fault(p)
        PROVE  [Promise!Next]_(Promise!schemaVars)
    <3>1. CASE At(p, "serving")
      <4>1. ServedNow' = [ServedNow EXCEPT ![p] = {}]
        BY <2>0, <2>8, ServedMoves DEF Fault, Dies
      <4>2. ServedNow[p] # {}
        BY <3>1 DEF ServedNow
      <4> QED
        BY <2>8, <4>1, <4>2 DEF Fault, Promise!Stop, Promise!Next
    <3>2. CASE ~At(p, "serving")
      BY <2>3, <2>8, <3>2 DEF Fault
    <3> QED
      BY <3>1, <3>2
  <2>9. CASE UNCHANGED vars
    BY <2>9 DEF vars, Promise!schemaVars, ServedNow, At
  <2> QED
    BY <2>4, <2>5, <2>6, <2>7, <2>8, <2>9 DEF Next, Migrate
<1> QED
  BY <1>1, <1>2, MigrationInvariant, PTL DEF Spec, ImplementsSchema, Promise!Spec

----------------------------------------------------------------------------
(* Why starting ends: the measure.                                         *)

\* What a process that goes on carries with it.
LEMMA NextCarries ==
  ASSUME NEW s \in ProcessStates, s.pc # "down"
  PROVE  /\ \A pc : [s EXCEPT !.pc = pc].pc = pc /\ [s EXCEPT !.pc = pc].file = s.file
         /\ [s EXCEPT !.file = @ + 1].pc = s.pc
         /\ [s EXCEPT !.file = @ + 1].file = s.file + 1
<1>1. \A pc : [s EXCEPT !.pc = pc] = [pc |-> pc, image |-> s.image, file |-> s.file]
  BY ActiveCarries
<1>2. [s EXCEPT !.file = @ + 1] = [pc |-> s.pc, image |-> s.image, file |-> s.file + 1]
  BY ActiveCarries
<1> QED
  BY <1>1, <1>2

\* The distance in each kind of state.
LEMMA DistanceType ==
  ASSUME NEW s \in ProcessStates
  PROVE  /\ s.pc = "serving" => Distance(s) = 0
         /\ s.pc = "down" => Distance(s) = 4 * Len(KindOf) + 6
         /\ s.pc \notin {"serving", "down"} /\ Doomed(s) =>
              Distance(s) = 4 * Len(KindOf) + 6 + StepsLeft[s.pc]
         /\ s.pc \notin {"serving", "down"} /\ ~Doomed(s) =>
              Distance(s) = 4 * (Len(KindOf) + 1 - s.file) + StepsLeft[s.pc]
BY DEF Distance, Doomed

\* A step of one process that leaves the tables alone and brings it nearer.
LEMMA OneComesNearer ==
  ASSUME proc \in [Processes -> ProcessStates], NEW p \in Processes, NEW s,
         proc' = [proc EXCEPT ![p] = s], UNCHANGED <<ledger, applied>>,
         Distance(s) \in 0..(Distance(proc[p]) - 1)
  PROVE  \E k \in Processes :
           /\ Distance(proc[k])' \in 0..(Distance(proc[k]) - 1)
           /\ \A q \in Processes \ {k} : Distance(proc[q])' = Distance(proc[q])
<1>1. proc'[p] = s /\ \A q \in Processes \ {p} : proc'[q] = proc[q]
  OBVIOUS
<1>2. \A t, u : u = t => Distance(u)' = Distance(t)
  BY DEF Distance, Doomed
<1> QED
  BY <1>1, <1>2 DEF Distance, Doomed

\* Without a fault, every step completes something for good or brings one process
\* nearer to serving and none further away, for any number of processes, files and
\* images: the measure by which starting ends.
THEOREM StartsAreConverging == Spec => StartsConverge
<1> DEFINE Grows == \/ ~ledger /\ ledger' /\ UNCHANGED applied
                    \/ \E f \in Files \ applied : applied' = applied \cup {f} /\ UNCHANGED ledger
           Nears == /\ UNCHANGED <<ledger, applied>>
                    /\ \E p \in Processes :
                         /\ Distance(proc[p])' \in 0..(Distance(proc[p]) - 1)
                         /\ \A q \in Processes \ {p} :
                              Distance(proc[q])' = Distance(proc[q])
<1>1. ASSUME MigrationInv, [Next]_vars, vars' # vars, faults' = faults
      PROVE  Grows \/ Nears
  <2>0. /\ proc \in [Processes -> ProcessStates] /\ faults \in Nat
        /\ \A p \in Processes : proc[p] \in ProcessStates /\ Sound(proc[p])
    BY <1>1, MigrationConstants DEF MigrationInv, TypeOK
  <2>1. /\ Down \in ProcessStates /\ Len(KindOf) \in Nat
        /\ Distance(Down) = 4 * Len(KindOf) + 6
    BY DownIsState, FileCount, DistanceType DEF Down
  <2>2. ASSUME NEW p \in Processes, NEW s, proc' = [proc EXCEPT ![p] = s],
               UNCHANGED <<ledger, applied>>,
               Distance(s) \in 0..(Distance(proc[p]) - 1)
        PROVE  Nears
    BY <2>0, <2>2, OneComesNearer
  \* A process that was doomed dies.
  <2>3. ASSUME NEW p \in Processes, Doomed(proc[p]), Dies(p), UNCHANGED <<ledger, applied>>
        PROVE  Nears
    <3>1. proc[p].pc \in {"creating", "exec", "record"}
      BY <2>3 DEF Doomed
    <3>2. Distance(proc[p]) = 4 * Len(KindOf) + 6 + StepsLeft[proc[p].pc]
      BY <2>0, <2>3, <3>1, DistanceType
    <3>3. StepsLeft[proc[p].pc] \in {1, 2, 4}
      BY <3>1 DEF StepsLeft
    <3>4. Distance(Down) \in 0..(Distance(proc[p]) - 1)
      BY <2>1, <3>2, <3>3
    <3> QED
      BY <2>2, <2>3, <3>4 DEF Dies
  \* A process goes to its next statement, doomed before and after or neither.
  <2>4. ASSUME NEW p \in Processes, NEW pc \in ActivePcs, Go(p, pc),
               UNCHANGED <<ledger, applied>>,
               proc[p].pc \notin {"down", "serving"}, pc # "serving",
               StepsLeft[pc] \in 0..(StepsLeft[proc[p].pc] - 1),
               Doomed([proc[p] EXCEPT !.pc = pc]) <=> Doomed(proc[p])
        PROVE  Nears
    <3>1. proc[p] \in ProcessStates /\ proc[p].pc # "down"
      BY <2>0, <2>4
    <3>2. PICK s : s = [proc[p] EXCEPT !.pc = pc]
      OBVIOUS
    <3>3. s \in ProcessStates /\ s.pc = pc
      BY <3>1, <3>2, NextState, NextCarries
    <3>4. s.file = proc[p].file
      BY <3>1, <3>2, NextCarries
    <3>5. s.file \in 1..Len(KindOf) + 1
      BY <3>1, <3>4, ActiveCarries
    <3>6. proc' = [proc EXCEPT ![p] = s] /\ (Doomed(s) <=> Doomed(proc[p])) /\ pc # "down"
      BY <2>4, <3>2 DEF Go, ActivePcs
    <3>7. PICK a, b : a = StepsLeft[pc] /\ b = StepsLeft[proc[p].pc]
      OBVIOUS
    <3>8. b \in Nat /\ a \in 0..(b - 1)
      BY <2>0, <2>4, <3>7, ActiveCarries DEF StepsLeft, ActivePcs
    <3>9. \/ /\ Distance(s) = 4 * Len(KindOf) + 6 + a
             /\ Distance(proc[p]) = 4 * Len(KindOf) + 6 + b
          \/ /\ Distance(s) = 4 * (Len(KindOf) + 1 - s.file) + a
             /\ Distance(proc[p]) = 4 * (Len(KindOf) + 1 - s.file) + b
      BY <2>0, <2>4, <3>3, <3>4, <3>6, <3>7, DistanceType
    <3>10. Distance(s) \in 0..(Distance(proc[p]) - 1)
      BY <2>1, <3>5, <3>8, <3>9
    <3> QED
      BY <2>2, <2>4, <3>6, <3>10
  <2>5. ASSUME NEW p \in Processes, Start(p)
        PROVE  Nears
    <3>1. PICK n \in Images :
            proc' = [proc EXCEPT ![p] = [pc |-> "ledger", image |-> n, file |-> 1]]
      BY <2>5 DEF Start
    <3> DEFINE s == [pc |-> "ledger", image |-> n, file |-> 1]
    <3>2. s \in ProcessStates /\ s.pc = "ledger" /\ s.file = 1 /\ ~Doomed(s)
      BY FileCount DEF ProcessStates, Doomed
    <3> HIDE DEF s
    <3>3. Distance(s) = 4 * Len(KindOf) + 5
      BY <2>1, <3>2, DistanceType DEF StepsLeft
    <3>4. Distance(proc[p]) = 4 * Len(KindOf) + 6
      BY <2>0, <2>5, DistanceType DEF Start, At
    <3>5. Distance(s) \in 0..(Distance(proc[p]) - 1)
      BY <2>1, <3>3, <3>4
    <3> QED
      BY <2>2, <2>5, <3>1, <3>5 DEF Start, s
  <2>6. ASSUME NEW p \in Processes, FindLedger(p)
        PROVE  Nears
    <3>1. proc[p].pc = "ledger" /\ UNCHANGED <<ledger, applied>>
      BY <2>6 DEF FindLedger, At
    <3>2. PICK pc \in {"check", "creating"} : Go(p, pc) /\ (pc = "creating" => ~ledger)
      BY <2>6 DEF FindLedger
    <3>3. [proc[p] EXCEPT !.pc = pc].pc = pc
      BY <2>0, <3>1, ActiveCarries
    <3>4. ~Doomed([proc[p] EXCEPT !.pc = pc]) /\ ~Doomed(proc[p])
      BY <3>1, <3>2, <3>3 DEF Doomed
    <3>5. StepsLeft[pc] \in 0..(StepsLeft[proc[p].pc] - 1) /\ pc \in ActivePcs
      BY <3>1, <3>2 DEF StepsLeft, ActivePcs
    <3> QED
      BY <2>4, <3>1, <3>2, <3>4, <3>5
  <2>7. ASSUME NEW p \in Processes, CreateLedger(p)
        PROVE  Grows \/ Nears
    <3>1. CASE ledger
      BY <2>3, <2>7, <3>1 DEF CreateLedger, Doomed, At
    <3>2. CASE ~ledger
      BY <2>7, <3>2 DEF CreateLedger
    <3> QED
      BY <3>1, <3>2
  <2>8. ASSUME NEW p \in Processes, Check(p)
        PROVE  Nears
    <3> DEFINE f == proc[p].file
    <3>1. /\ proc[p].pc = "check" /\ UNCHANGED <<ledger, applied>>
          /\ f \in 1..Len(KindOf) + 1 /\ f <= Len(KindOf) + 1 /\ f \in Nat
      BY <2>0, <2>1, <2>8, ActiveCarries DEF Check, At
    <3>2. Distance(proc[p]) = 4 * (Len(KindOf) + 1 - f) + 3
      BY <2>0, <3>1, DistanceType DEF Doomed, StepsLeft
    <3>3. CASE Go(p, "serving")
      <4> DEFINE s == [proc[p] EXCEPT !.pc = "serving"]
      <4>1. s \in ProcessStates /\ s.pc = "serving"
        BY <2>0, <3>1, NextState, ActiveCarries DEF ActivePcs
      <4>2. Distance(s) = 0
        BY <4>1, DistanceType
      <4>3. proc' = [proc EXCEPT ![p] = s]
        BY <3>3 DEF Go
      <4> HIDE DEF s, f
      <4>4. Distance(s) \in 0..(Distance(proc[p]) - 1)
        BY <2>1, <3>1, <3>2, <4>2
      <4> QED
        BY <2>2, <3>1, <4>3, <4>4
    <3>4. CASE f <= proc[p].image /\ proc' = [proc EXCEPT ![p].file = @ + 1]
      <4>1. PICK s : s = [proc[p] EXCEPT !.file = @ + 1]
        OBVIOUS
      <4>2. proc[p] \in ProcessStates /\ proc[p].pc # "down" /\ proc[p].file <= proc[p].image
        BY <2>0, <3>1, <3>4
      <4>3. s \in ProcessStates /\ s.pc = "check" /\ s.file = f + 1
        BY <3>1, <4>1, <4>2, NextState, NextCarries
      <4>4. Distance(s) = 4 * (Len(KindOf) + 1 - (f + 1)) + 3
        BY <4>3, DistanceType DEF Doomed, StepsLeft
      <4>5. proc' = [proc EXCEPT ![p] = s]
        BY <3>4, <4>1
      <4>6. f + 1 <= Len(KindOf) + 1
        BY <2>1, <3>1, <4>3, ActiveCarries
      <4> HIDE DEF f
      <4>7. Distance(s) \in 0..(Distance(proc[p]) - 1)
        BY <2>1, <3>1, <3>2, <4>4, <4>6
      <4> QED
        BY <2>2, <3>1, <4>5, <4>7
    <3>5. CASE f \notin applied /\ Go(p, "exec")
      <4>1. /\ [proc[p] EXCEPT !.pc = "exec"].pc = "exec"
            /\ [proc[p] EXCEPT !.pc = "exec"].file = f
        BY <2>0, <3>1, ActiveCarries
      <4>2. ~Doomed([proc[p] EXCEPT !.pc = "exec"]) /\ ~Doomed(proc[p])
        BY <3>1, <3>5, <4>1 DEF Doomed
      <4>3. StepsLeft["exec"] \in 0..(StepsLeft[proc[p].pc] - 1) /\ "exec" \in ActivePcs
        BY <3>1 DEF StepsLeft, ActivePcs
      <4> QED
        BY <2>4, <3>1, <3>5, <4>2, <4>3
    <3> QED
      BY <2>8, <3>3, <3>4, <3>5 DEF Check
  <2>9. ASSUME NEW p \in Processes, Exec(p)
        PROVE  Nears
    <3> DEFINE f == proc[p].file
    <3>1. proc[p].pc = "exec" /\ UNCHANGED <<ledger, applied>>
      BY <2>9 DEF Exec, At
    <3>2. f \in Files
      BY <2>0, <2>1, <3>1, ActiveCarries, MigrationConstants DEF Sound, Files
    <3>3. CASE times[f] > 0 /\ Dies(p)
      <4>1. f \in applied
        BY <1>1, <3>2, <3>3 DEF MigrationInv, RecordedExactlyOnce
      <4> QED
        BY <2>3, <3>1, <3>3, <4>1 DEF Doomed
    <3>4. CASE Go(p, "record")
      <4>1. /\ [proc[p] EXCEPT !.pc = "record"].pc = "record"
            /\ [proc[p] EXCEPT !.pc = "record"].file = f
        BY <2>0, <3>1, ActiveCarries
      <4>2. Doomed([proc[p] EXCEPT !.pc = "record"]) <=> Doomed(proc[p])
        BY <3>1, <4>1 DEF Doomed
      <4>3. StepsLeft["record"] \in 0..(StepsLeft[proc[p].pc] - 1) /\ "record" \in ActivePcs
        BY <3>1 DEF StepsLeft, ActivePcs
      <4> QED
        BY <2>4, <3>1, <3>4, <4>2, <4>3
    <3> QED
      BY <2>9, <3>3, <3>4 DEF Exec
  <2>10. ASSUME NEW p \in Processes, Record(p)
         PROVE  Nears
    <3> DEFINE f == proc[p].file
    <3>1. proc[p].pc = "record" /\ UNCHANGED <<ledger, applied>>
      BY <2>10 DEF Record, At
    <3>2. CASE f \in applied /\ Dies(p)
      BY <2>3, <3>1, <3>2 DEF Doomed
    <3>3. CASE f \notin applied /\ Go(p, "commit")
      <4>1. [proc[p] EXCEPT !.pc = "commit"].pc = "commit"
        BY <2>0, <3>1, ActiveCarries
      <4>2. ~Doomed([proc[p] EXCEPT !.pc = "commit"]) /\ ~Doomed(proc[p])
        BY <3>1, <3>3, <4>1 DEF Doomed
      <4>3. StepsLeft["commit"] \in 0..(StepsLeft[proc[p].pc] - 1) /\ "commit" \in ActivePcs
        BY <3>1 DEF StepsLeft, ActivePcs
      <4> QED
        BY <2>4, <3>1, <3>3, <4>2, <4>3
    <3> QED
      BY <2>10, <3>2, <3>3 DEF Record
  <2>11. ASSUME NEW p \in Processes, Commit(p)
         PROVE  Grows
    <3>1. proc[p].pc = "commit" /\ Sound(proc[p]) /\ proc[p] \in ProcessStates
      BY <2>0, <2>11 DEF Commit, At
    <3>2. proc[p].file \in Files /\ proc[p].file \notin applied
      BY <2>1, <3>1, ActiveCarries, MigrationConstants DEF Sound, Files
    <3> QED
      BY <2>11, <3>2 DEF Commit, Committed
  <2>12. ASSUME NEW p \in Processes, Fault(p) \/ FaultAfterCommit(p)
         PROVE  FALSE
    BY <1>1, <2>0, <2>12 DEF Fault, FaultAfterCommit
  <2> HIDE DEF Grows, Nears
  <2> QED
    BY <1>1, <2>5, <2>6, <2>7, <2>8, <2>9, <2>10, <2>11, <2>12 DEF Next, Migrate
<1>2. MigrationInv /\ [Next]_vars => [faults' = faults => Grows \/ Nears]_vars
  BY <1>1
<1> QED
  BY <1>2, MigrationInvariant, PTL DEF Spec, StartsConverge
====
