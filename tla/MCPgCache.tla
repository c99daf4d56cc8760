----------------------------- MODULE MCPgCache -----------------------------
(* Small instances of PgCache for TLC. *)
EXTENDS PgCache, TLC

CONSTANTS i1, i2, k1, k2, t1, t2, t3

\* t1 and t3 run in the first process, t2 in the second.
HomeTwo == (t1 :> i1) @@ (t2 :> i2)
HomeThree == (t1 :> i1) @@ (t2 :> i2) @@ (t3 :> i1)
HomeSolo == (t1 :> i1)

============================================================================
