----------------------------- MODULE MCS3Cache ------------------------------
(* A small instance of S3Cache for TLC. *)
EXTENDS S3Cache

CONSTANTS k1, k2, v1, v2, v3, p1, p2

\* Two small versions of which the disk holds one pair but not another, and
\* one that does not fit.
SizeOf == (v1 :> 2) @@ (v2 :> 3) @@ (v3 :> 5)
Full == {[k \in Keys |-> v1]}
OneWarm == {k1, k2}
Symmetry == Permutations({p1, p2}) \cup Permutations({k1, k2})
=============================================================================
