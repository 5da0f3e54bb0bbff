---- MODULE MCFetchPages ----
(***************************************************************************)
(* A handful of notices listed at the start, and some more to come.        *)
(***************************************************************************)
EXTENDS FetchPages, TLC

CONSTANTS a, b, c, d, e, f, g

SevenRegs == {a, b, c, d, e, f, g}
FourListed == <<a, b, c, d>>
AllMoves == {"publish", "update", "withdraw"}
====
