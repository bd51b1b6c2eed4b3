--------------------------- MODULE MCSyncMachine ---------------------------
(***************************************************************************)
(* An instance of SyncMachine for TLC: each of the nodes dials the next, so  *)
(* the middle one is asked from one side and asks on the other.  One bootstrap *)
(* peer is the floor of the first node, and below that of the middle one.     *)
(***************************************************************************)
EXTENDS SyncMachine

CONSTANTS First, Middle, Last

MCDial == [n \in Node |-> IF n = First THEN {Middle} \cap Node
                          ELSE IF n = Middle THEN {Last} \cap Node ELSE {}]
MCAfter == [n \in Node |-> IF n = First THEN Middle
                           ELSE IF n = Middle /\ Last \in Node THEN Last ELSE First]
MCMinPeers == [n \in Node |-> IF n = First THEN 1 ELSE 2]
=============================================================================
