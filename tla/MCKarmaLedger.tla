--------------------------- MODULE MCKarmaLedger ---------------------------
(***************************************************************************)
(* Instances of KarmaLedger for TLC.                                       *)
(***************************************************************************)
EXTENDS KarmaLedger

CONSTANTS
  Writer,    \* the author of every post
  Root       \* the thread every post belongs to

MCAuthor == [p \in Post |-> Writer]
MCThread == [p \in Post |-> Root]
=============================================================================
