------------------------------- MODULE MCNetd -------------------------------
(* A small instance of Netd for TLC. *)
EXTENDS Netd, TLC

CONSTANTS here, there, c1, c2, wide, theirs

\* wide is c1 with a shorter prefix.
AddressOf == (c1 :> 1) @@ (wide :> 1) @@ (c2 :> 2)

Peer == [key |-> theirs, cidrs |-> <<c1>>]
WiderPeer == [key |-> theirs, cidrs |-> <<wide>>]

\* The local node has no key yet and may have a peer.
FreshNode == {(here :> [key |-> NoKey, cidrs |-> <<c1, c2>>]) @@ (there :> v) : v \in {Absent, Peer}}

\* It goes, or is renumbered with a key that is not its own; the peer comes,
\* goes, changes its prefix and becomes unreadable.
TwoNodes == (here :> {Absent, [key |-> theirs, cidrs |-> <<c2>>]}) @@ (there :> {Absent, Unparsable, WiderPeer})
=============================================================================
