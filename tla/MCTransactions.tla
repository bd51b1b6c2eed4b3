--------------------------- MODULE MCTransactions ---------------------------
(* What validateTx asks of one transaction's shape, and what it lets many do to   *)
(* the boxes.  TxSchema and InviteBonds share no state, so in a behaviour one of   *)
(* the two moves and the other rests.                                             *)
EXTENDS MCInviteBonds, TxSchema

VARIABLE half
bothVars == <<half, vars, txVars>>

BothInit == /\ Init /\ TxInit
            /\ \/ half = "rules"  /\ door = "block" /\ type = "invite"
               \/ half = "schema" /\ ~gateway
BothNext == /\ \/ half = "rules"  /\ Next   /\ UNCHANGED txVars
               \/ half = "schema" /\ TxNext /\ UNCHANGED vars
            /\ UNCHANGED half
BothSpec == BothInit /\ [][BothNext]_bothVars
=============================================================================
