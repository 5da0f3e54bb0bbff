---- MODULE Schema ----
(***************************************************************************)
(* What Migrate (internal/db/db.go) promises to those who serve after it:  *)
(* the files of migrations/ take effect one at a time, in order and once   *)
(* each, and a process serves only over a schema that has all its own.     *)
(***************************************************************************)
EXTENDS Naturals

CONSTANTS
  Processes,
  Images,         \* how many of the files an image may carry
  Last            \* how many files there are

VARIABLES
  effects,        \* [1..Last -> Nat], how often a file has taken effect
  served          \* per process: {} or {the files its image carries}

schemaVars == <<effects, served>>

\* The schema when the first n files have been applied.
After(n) == [f \in 1..Last |-> IF f <= n THEN 1 ELSE 0]

Init == effects = After(0) /\ served = [p \in Processes |-> {}]

Apply ==
  /\ \E n \in 1..Last : effects = After(n - 1) /\ effects' = After(n)
  /\ UNCHANGED served

Serve(p) ==
  /\ served[p] = {}
  /\ \E n \in Images :
       /\ \A f \in 1..n : effects[f] = 1
       /\ served' = [served EXCEPT ![p] = {n}]
  /\ UNCHANGED effects

Stop(p) ==
  /\ served[p] # {}
  /\ served' = [served EXCEPT ![p] = {}]
  /\ UNCHANGED effects

Next == Apply \/ \E p \in Processes : Serve(p) \/ Stop(p)

Spec == Init /\ [][Next]_schemaVars
====
