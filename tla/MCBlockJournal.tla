--------------------------- MODULE MCBlockJournal ---------------------------
(***************************************************************************)
(* Instances of BlockJournal for TLC.  Each configuration keeps the tables *)
(* one question is about and leaves the others empty.                      *)
(***************************************************************************)
EXTENDS BlockJournal

CONSTANT
  Owned     \* the boxes that bump an activity clock (karma, not a decay burn)

MCOwner == [b \in Box |-> IF b \in Owned THEN CHOOSE id \in Identity : TRUE
                          ELSE None]

(* Every like key is of one post; the other posts only carry marks. *)
MCLikeTarget == [l \in Like |-> CHOOSE p \in Post : TRUE]
=============================================================================
