---- MODULE Migrations ----
(***************************************************************************)
(* Store.Migrate (internal/db/db.go), run by every process before it       *)
(* serves (cmd/search/main.go), over one database.  Nothing keeps two      *)
(* processes from migrating at once, and images of different age carry     *)
(* different numbers of files.                                             *)
(*                                                                         *)
(* A file and its row in schema_migrations are one transaction.  What two  *)
(* transactions do to each other is PostgreSQL's doing, and depends on the *)
(* file:                                                                   *)
(*   "create"  001: fails if its objects exist, waits for a transaction    *)
(*             that has created them and is still open;                    *)
(*   "drop"    002: DROP TABLE IF EXISTS of a table that is not there      *)
(*             takes no lock and never fails;                              *)
(*   "alter"   003, 004: ADD COLUMN IF NOT EXISTS under an exclusive lock  *)
(*             on search_profiles, held until the transaction ends.        *)
(* The INSERT into schema_migrations waits for an open transaction that    *)
(* has inserted the same file name, and fails once that one has committed. *)
(*                                                                         *)
(* Any error ends the process (log.Fatalf); the transaction of a process   *)
(* that ends is rolled back at once.                                       *)
(***************************************************************************)
EXTENDS Naturals, Sequences

CONSTANTS
  Processes,      \* processes that start over the database
  KindOf,         \* the files in order: a sequence of "create", "drop", "alter"
  Images,         \* how many of the files an image may carry
  MaxFaults       \* bound of the model: faults, and stops of a process

Files == 1..Len(KindOf)

ASSUME MigrationConstants ==
  /\ KindOf \in Seq({"create", "drop", "alter"})
  /\ Images \subseteq 0..Len(KindOf)
  /\ MaxFaults \in Nat

VARIABLES
  ledger,         \* the table schema_migrations exists
  applied,        \* its rows
  times,          \* history: [Files -> Nat], how often a file's effect was committed
  proc,           \* [Processes -> ProcessStates]
  faults

vars == <<ledger, applied, times, proc, faults>>

\* `pc` is the statement the process is at, `file` the file it is at.
ProcessStates ==
  [pc : {"down"}]
    \cup [pc : {"ledger", "creating", "check", "exec", "record", "commit", "serving"},
          image : Images, file : 1..Len(KindOf) + 1]

Down == [pc |-> "down"]

Init ==
  /\ ledger = FALSE
  /\ applied = {}
  /\ times = [f \in Files |-> 0]
  /\ proc = [p \in Processes |-> Down]
  /\ faults = 0

TypeOK ==
  /\ ledger \in BOOLEAN
  /\ applied \subseteq Files
  /\ times \in [Files -> Nat]
  /\ proc \in [Processes -> ProcessStates]
  /\ faults \in 0..MaxFaults

At(p, pc) == proc[p].pc = pc

Go(p, pc) == proc' = [proc EXCEPT ![p].pc = pc]

\* log.Fatalf: the process is gone, its transaction rolled back.
Dies(p) == proc' = [proc EXCEPT ![p] = Down]

\* Process p has an open transaction in which file f has been executed.
HasRun(p, f) == proc[p].pc \in {"record", "commit"} /\ proc[p].file = f

\* Somebody starts the process (again), with one image or another, and waitDB has
\* connected.
Start(p) ==
  /\ At(p, "down")
  /\ \E n \in Images :
       proc' = [proc EXCEPT ![p] = [pc |-> "ledger", image |-> n, file |-> 1]]
  /\ UNCHANGED <<ledger, applied, times, faults>>

\* CREATE TABLE IF NOT EXISTS schema_migrations looks first...
FindLedger(p) ==
  /\ At(p, "ledger")
  /\ Go(p, IF ledger THEN "check" ELSE "creating")
  /\ UNCHANGED <<ledger, applied, times, faults>>

\* ...and fails on the catalogue's unique index if it came second.
CreateLedger(p) ==
  /\ At(p, "creating")
  /\ ledger' = TRUE
  /\ IF ledger THEN Dies(p) ELSE Go(p, "check")
  /\ UNCHANGED <<applied, times, faults>>

\* Mutant of Check: the name looked for is not the one that is recorded.
CheckOtherName(p) ==
  LET f == proc[p].file
  IN  /\ At(p, "check")
      /\ Go(p, IF f > proc[p].image THEN "serving" ELSE "exec")
      /\ UNCHANGED <<ledger, applied, times, faults>>

\* SELECT EXISTS for the next file of the image, outside any transaction; after
\* the last file main goes on to serve.
Check(p) ==
  LET f == proc[p].file
  IN  /\ At(p, "check")
      /\ \/ f > proc[p].image /\ Go(p, "serving")
         \/ f <= proc[p].image /\ f \in applied
              /\ proc' = [proc EXCEPT ![p].file = @ + 1]
         \/ f <= proc[p].image /\ f \notin applied /\ Go(p, "exec")
      /\ UNCHANGED <<ledger, applied, times, faults>>

\* The file must wait for the transaction of another process.
Blocked(p, f) ==
  \E q \in Processes \ {p} :
    \/ KindOf[f] = "create" /\ HasRun(q, f)
    \/ KindOf[f] = "alter" /\ \E g \in Files : KindOf[g] = "alter" /\ HasRun(q, g)

\* Mutant of Exec: a file that fails is left for the next start.
ExecOrSkip(p) ==
  LET f == proc[p].file
  IN  /\ At(p, "exec")
      /\ ~Blocked(p, f)
      /\ \/ Go(p, "record")
         \/ proc' = [proc EXCEPT ![p].pc = "check", ![p].file = @ + 1]
      /\ UNCHANGED <<ledger, applied, times, faults>>

\* BEGIN and the file.
Exec(p) ==
  LET f == proc[p].file
  IN  /\ At(p, "exec")
      /\ ~Blocked(p, f)
      /\ IF KindOf[f] = "create" /\ times[f] > 0 THEN Dies(p) ELSE Go(p, "record")
      /\ UNCHANGED <<ledger, applied, times, faults>>

\* Mutant of Record: ON CONFLICT DO NOTHING.
RecordOnConflict(p) ==
  /\ At(p, "record")
  /\ \A q \in Processes \ {p} : ~(At(q, "commit") /\ proc[q].file = proc[p].file)
  /\ Go(p, "commit")
  /\ UNCHANGED <<ledger, applied, times, faults>>

\* INSERT INTO schema_migrations, whose primary key is the file name.
Record(p) ==
  LET f == proc[p].file
  IN  /\ At(p, "record")
      /\ \A q \in Processes \ {p} : ~(At(q, "commit") /\ proc[q].file = f)
      /\ IF f \in applied THEN Dies(p) ELSE Go(p, "commit")
      /\ UNCHANGED <<ledger, applied, times, faults>>

\* Mutant of Committed: the name recorded is that of the file before.
CommittedBefore(f) ==
  /\ applied' = applied \cup {f - 1}
  /\ times' = [times EXCEPT ![f] = @ + 1]

\* The transaction takes effect.
Committed(f) ==
  /\ applied' = applied \cup {f}
  /\ times' = [times EXCEPT ![f] = @ + 1]

Commit(p) ==
  /\ At(p, "commit")
  /\ Committed(proc[p].file)
  /\ proc' = [proc EXCEPT ![p].pc = "check", ![p].file = @ + 1]
  /\ UNCHANGED <<ledger, faults>>

\* Mutant of Fault: the file is executed outside the transaction.
FaultKeepsFile(p) ==
  /\ ~At(p, "down")
  /\ faults < MaxFaults
  /\ faults' = faults + 1
  /\ Dies(p)
  /\ times' = [f \in Files |-> IF HasRun(p, f) THEN times[f] + 1 ELSE times[f]]
  /\ UNCHANGED <<ledger, applied>>

\* A statement fails (whatever the reason) or the process stops, wherever it is.
Fault(p) ==
  /\ ~At(p, "down")
  /\ faults < MaxFaults
  /\ faults' = faults + 1
  /\ Dies(p)
  /\ UNCHANGED <<ledger, applied, times>>

\* The same, after the database has committed and before the process knows.
FaultAfterCommit(p) ==
  /\ At(p, "commit")
  /\ faults < MaxFaults
  /\ faults' = faults + 1
  /\ Committed(proc[p].file)
  /\ Dies(p)
  /\ UNCHANGED ledger

Migrate(p) ==
  FindLedger(p) \/ CreateLedger(p) \/ Check(p) \/ Exec(p) \/ Record(p) \/ Commit(p)

Next ==
  \E p \in Processes : Start(p) \/ Migrate(p) \/ Fault(p) \/ FaultAfterCommit(p)

(***************************************************************************)
(* A process that runs takes its next step: a statement that waits goes on *)
(* when the transaction it waits for has ended.  Nothing makes anybody     *)
(* start a process, or start it again when it has died.                    *)
(***************************************************************************)
Fairness == \A p \in Processes : WF_vars(Migrate(p))

Spec == Init /\ [][Next]_vars /\ Fairness

----------------------------------------------------------------------------
\* schema_migrations tells the truth: a recorded file has taken effect exactly
\* once, any other not at all, however many processes ran it at a time and
\* wherever they stopped (db.go: "idempotent via schema_migrations").
RecordedExactlyOnce ==
  \A f \in Files : times[f] = IF f \in applied THEN 1 ELSE 0

\* No file is applied before the ones in front of it, although each process
\* decides file by file on what it saw a while ago.
AppliedInOrder ==
  \A f \in applied : 1..f \subseteq applied

\* A process serves only over a schema that has all files of its image.
ServesMigrated ==
  \A p \in Processes : At(p, "serving") => 1..proc[p].image \subseteq applied

\* No state that faults and races leave behind keeps a process from starting, and no
\* transaction waits for ever: a process that somebody starts again whenever it has
\* died comes to serve in the end, whether the others are started again or not.
RestartsLeadToServing ==
  \A p \in Processes : []<>(~At(p, "down")) => <>[](At(p, "serving"))

\* The refinement mapping: the image each process that serves was built from.
ServedNow ==
  [p \in Processes |-> IF At(p, "serving") THEN {proc[p].image} ELSE {}]

Promise == INSTANCE Schema WITH Last <- Len(KindOf), effects <- times, served <- ServedNow

\* Seen from the schema and from who serves, the processes might as well migrate one
\* after the other: the files take effect once each, in order, and only then does
\* anybody serve who needs them.
ImplementsSchema == Promise!Spec

----------------------------------------------------------------------------
\* A process in state s is about to do what another one has done in the meantime,
\* and will die of it.
Doomed(s) ==
  \/ s.pc = "creating" /\ ledger
  \/ s.pc \in {"exec", "record"} /\ s.file \in applied

StepsLeft ==
  [ledger |-> 5, creating |-> 4, check |-> 3, exec |-> 2, record |-> 1, commit |-> 0]

\* A bound on the steps a process in state s still has before it serves, if nobody
\* else does anything.
Distance(s) ==
  CASE s.pc = "serving" -> 0
    [] s.pc = "down" -> 4 * Len(KindOf) + 6
    [] Doomed(s) -> 4 * Len(KindOf) + 6 + StepsLeft[s.pc]
    [] OTHER -> 4 * (Len(KindOf) + 1 - s.file) + StepsLeft[s.pc]

\* Nothing is gained in vain: without a fault, every step takes the database one
\* table or one file further, or takes one process nearer to serving and none
\* further away.  So a process may die of a lost race, but of each race only once.
StartsConverge ==
  [][faults' = faults =>
       \/ ~ledger /\ ledger' /\ UNCHANGED applied
       \/ \E f \in Files \ applied : applied' = applied \cup {f} /\ UNCHANGED ledger
       \/ /\ UNCHANGED <<ledger, applied>>
          /\ \E p \in Processes :
               /\ Distance(proc[p])' \in 0..(Distance(proc[p]) - 1)
               /\ \A q \in Processes \ {p} : Distance(proc[q])' = Distance(proc[q])]_vars
====
