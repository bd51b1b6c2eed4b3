---------------------------- MODULE HeaviestChain ----------------------------
(***************************************************************************)
(* What fork choice promises, without saying how blocks travel: a node's   *)
(* chain grows by a block it mined, or is replaced by a whole chain of      *)
(* mined blocks with strictly more work (CONSENSUS, section 6).             *)
(*                                                                         *)
(* A block is the sequence of the miners of its ancestors and itself, so    *)
(* it determines its chain the way prevBlockHash does.  The proof-of-work   *)
(* target is a function of the height (expectedTarget), so of two chains    *)
(* with a common ancestor the longer has more work.                         *)
(***************************************************************************)
EXTENDS Integers, Sequences

CONSTANTS Node, MaxHeight

VARIABLES
  chain,    \* chain[n]: the block at the tip of n's ordering_blocks
  mined     \* blocks mined so far

Prefix(b, h) == SubSeq(b, 1, h)

Valid(b) == \A h \in 1 .. Len(b) : Prefix(b, h) \in mined

Init == chain = [n \in Node |-> << >>] /\ mined = {}

Mine(n) ==
  /\ Len(chain[n]) < MaxHeight
  /\ chain' = [chain EXCEPT ![n] = Append(@, n)]
  /\ mined' = mined \cup {Append(chain[n], n)}

Adopt(n, b) ==
  /\ Len(b) > Len(chain[n])
  /\ Valid(b)
  /\ chain' = [chain EXCEPT ![n] = b]
  /\ UNCHANGED mined

Next == \E n \in Node : Mine(n) \/ \E b \in mined : Adopt(n, b)

Spec == Init /\ [][Next]_<<chain, mined>>
=============================================================================
