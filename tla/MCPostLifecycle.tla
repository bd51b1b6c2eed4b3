-------------------------- MODULE MCPostLifecycle --------------------------
(***************************************************************************)
(* Instances of PostLifecycle for TLC: a thread and, when there is a second *)
(* post, a reply to it by another user.                                     *)
(***************************************************************************)
EXTENDS PostLifecycle

CONSTANTS
  Thread,   \* the one post without a parent
  Alice     \* its author

MCAuthor == [p \in Post |-> IF p = Thread THEN Alice
                            ELSE CHOOSE u \in User : u # Alice \/ User = {u}]
MCParent == [p \in Post |-> IF p = Thread THEN None ELSE Thread]
=============================================================================
