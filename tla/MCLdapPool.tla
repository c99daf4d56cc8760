----------------------------- MODULE MCLdapPool -----------------------------
(* Small instances of LdapPool for TLC. *)
EXTENDS LdapPool, TLC

Symmetry == Permutations(Conns) \cup Permutations(Fillers) \cup Permutations(Callers)

=============================================================================
