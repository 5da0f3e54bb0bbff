---- MODULE MCMigrations ----
(***************************************************************************)
(* The four files of migrations/, and processes of the image with all of   *)
(* them and of the one before.                                             *)
(***************************************************************************)
EXTENDS Migrations

CONSTANTS p1, p2, p3

ThreeProcesses == {p1, p2, p3}
MCKindOf == <<"create", "drop", "alter", "alter">>
====
