--------------------------- MODULE MCBlockCreator ---------------------------
(***************************************************************************)
(* An instance of BlockCreator for TLC: every prune entry aims at one post,    *)
(* and every transaction is a like of it.                                     *)
(***************************************************************************)
EXTENDS BlockCreator

CONSTANTS Root

MCTarget == [e \in Prunes |-> Root]

(* What may be wrong with a body: nothing, a like that was given before, a like   *)
(* of a post that is not confirmed, a like of what the same body prunes.       *)
Liking     == {b \in SUBSET Entries : b \cap Txs # {}}
MCVerdicts == {{}, Liking, {b \in Liking : Root \notin b}, {b \in Liking : b \cap Prunes # {}}}
=============================================================================
