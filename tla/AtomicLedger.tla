---------------------------- MODULE AtomicLedger ----------------------------
(***************************************************************************)
(* What a node's database promises, without saying how: whatever the        *)
(* process does and wherever it dies, the next start finds the tables of a   *)
(* whole chain.  They only ever change by a whole block that is added, or by *)
(* a whole reorg that swaps the newest blocks for others (NODE_INTERFACE,    *)
(* "Reorg-abort-safe").  Nothing else changes them: no rejected block, no      *)
(* reorg that fails, no crash.                                                *)
(***************************************************************************)
EXTENDS Integers, Sequences

CONSTANTS
  Tables,       \* what the tables may hold
  Genesis,      \* what they hold before the first block
  Depth,        \* a reorg takes back fewer blocks than this
  KeepsWord     \* does a peer send all the blocks its headers promised?

VARIABLE ledger \* ledger[h + 1]: the tables after block h; the last is the present

Init == ledger = <<Genesis>>

(* The first n entries stay. *)
Keeps(n) ==
  /\ n <= Len(ledger')
  /\ \A i \in 1 .. n : ledger'[i] = ledger[i]
  /\ ledger' \in Seq(Tables)

ApplyBlock == Len(ledger') = Len(ledger) + 1 /\ Keeps(Len(ledger))

Reorg(n) ==
  /\ Len(ledger) - n < Depth
  /\ KeepsWord => Len(ledger') > Len(ledger)
  /\ Keeps(n)

Next == ApplyBlock \/ \E n \in 1 .. Len(ledger) : Reorg(n)

Spec == Init /\ [][Next]_ledger
=============================================================================
