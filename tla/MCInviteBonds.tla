--------------------------- MODULE MCInviteBonds ---------------------------
(* Two users; only one of them has an account to start with, with karma for one   *)
(* invite and, with what it earns, for a second.  Fewer blocks come through the   *)
(* gateway than without it.                                                       *)
EXTENDS InviteBonds, TLC

CONSTANTS ann, bob, i1, i2

MCUser      == {ann, bob}
MCGenesis   == [u \in MCUser |-> IF u = ann THEN 3 ELSE 0]
MCMaxHeight == [g \in BOOLEAN |-> IF g THEN 2 ELSE 3]
MCMaxMoves  == [g \in BOOLEAN |-> IF g THEN 1 ELSE 0]
Slots       == Permutations({i1, i2})
=============================================================================
