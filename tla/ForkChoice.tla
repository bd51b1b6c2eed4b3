----------------------------- MODULE ForkChoice -----------------------------
(***************************************************************************)
(* How a node follows the chain: the onOrderingBlock handler of index.ts,   *)
(* its two awaits, and the reorg at its end (fork-resolution.ts).           *)
(*                                                                         *)
(* The handler is one asynchronous function.  Whatever the node does while  *)
(* it waits for headers and then for blocks (mining, applying gossip,       *)
(* another run of the same handler) happens between its steps, and so does  *)
(* whatever the peer does to the chain it answers from.  Blocks and work    *)
(* are represented as in HeaviestChain.  Between two steps a node is        *)
(* single threaded: applyOrderingBlock and reorg are atomic (BlockJournal). *)
(***************************************************************************)
EXTENDS Integers, Sequences

CONSTANTS
  Node,
  Slot,             \* runs of the handler a node may have waiting at once (bound)
  MaxReorgDepth,    \* MAX_REORG_DEPTH
  LostBodies,       \* may the answer to requestBlocks be empty?
  MaxHeight,        \* bound on the height of a chain
  None              \* no run in a slot

ASSUME BoundsAssumption ==
  /\ MaxReorgDepth \in Nat \ {0}
  /\ MaxHeight \in Nat
  /\ LostBodies \in BOOLEAN

VARIABLES
  chain,    \* chain[n]: the block at the tip of n's ordering_blocks
  mined,    \* blocks mined, each broadcast by gossip to everyone
  run       \* run[n][s]: a waiting onOrderingBlock

vars == <<chain, mined, run>>

Heights == 0 .. MaxHeight
Prefix(b, h) == SubSeq(b, 1, h)
Height(n) == Len(chain[n])
Parent(b) == Prefix(b, Len(b) - 1)

(* What the handler remembers across its first and across its second await *)
AskedHeaders == [stage : {"headers"}, peer : Node, top : Heights, height : Heights]
AskedBlocks  == [stage : {"blocks"}, peer : Node, top : Heights, height : Heights,
                 fork : Heights]

ASSUME NoneAssumption == None \notin AskedHeaders /\ None \notin AskedBlocks

Done(n, s) == run' = [run EXCEPT ![n][s] = None]

-----------------------------------------------------------------------------
(* Extending the chain *)

(* submitMinedBlock: applying any block clears the template, so a block is    *)
(* always mined on the tip.                                                   *)
MineBlock(n) ==
  /\ Height(n) < MaxHeight
  /\ chain' = [chain EXCEPT ![n] = Append(@, n)]
  /\ mined' = mined \cup {Append(chain[n], n)}
  /\ UNCHANGED run

(* A block whose parent is our tip, from gossip (onOrderingBlock) or from the *)
(* sync machine (setBlocksHandler): applyOrderingBlock.                       *)
ApplyBlock(n, b) ==
  /\ Parent(b) = chain[n]
  /\ chain' = [chain EXCEPT ![n] = b]
  /\ UNCHANGED <<mined, run>>

-----------------------------------------------------------------------------
(* Resolving a fork *)

(* Any other block from gossip starts fork resolution, an old one too; the    *)
(* peer asked is the first of the peer list, not the one that sent the block. *)
AskHeaders(n, b, p, s) ==
  /\ Height(n) > 0
  /\ Parent(b) # chain[n]
  /\ p # n
  /\ run[n][s] = None
  /\ run' = [run EXCEPT ![n][s] = [stage |-> "headers", peer |-> p, top |-> Len(b),
                                   height |-> Height(n)]]
  /\ UNCHANGED <<chain, mined>>

Least(a, b) == IF a < b THEN a ELSE b

(* Mutant: any common ancestor will do. *)
CommonUnbounded(ours, theirs, height, tip) ==
  {h \in 1 .. Least(height, tip) : Prefix(ours, h) = Prefix(theirs, h)}

(* findForkPoint: the heights of ours within MaxReorgDepth of the tip whose   *)
(* block is among the 2 * MaxReorgDepth headers the peer sent.                *)
Common(ours, theirs, height, tip) ==
  {h \in 1 .. Least(height, tip) :
     /\ h > height - MaxReorgDepth /\ h > tip - 2 * MaxReorgDepth
     /\ Prefix(ours, h) = Prefix(theirs, h)}

(* Mutant: equal work is enough. *)
HeavierOrEqual(tip, height) == tip >= height

(* theirWork > ourWork, both above the fork *)
Heavier(tip, height) == tip > height

(* The headers arrive: the peer's chain as it is now, newest first, from the  *)
(* height of the block that was heard of.  The node looks at its own chain    *)
(* up to the height it had before it asked.                                   *)
HeadersArrive(n, s) ==
  LET r      == run[n][s]
      theirs == chain[r.peer]
      tip    == Least(r.top, Len(theirs))
  IN  /\ r # None /\ r.stage = "headers"
      /\ IF tip > 0 /\ r.height <= Height(n) /\ Heavier(tip, r.height)
         THEN \/ \E f \in Common(chain[n], theirs, r.height, tip) :
                   /\ \A h \in Common(chain[n], theirs, r.height, tip) : h <= f
                   /\ run' = [run EXCEPT ![n][s] =
                        [stage |-> "blocks", peer |-> r.peer, top |-> tip,
                         height |-> r.height, fork |-> f]]
              \/ /\ Common(chain[n], theirs, r.height, tip) = {}
                 /\ Done(n, s)
         ELSE Done(n, s)
      /\ UNCHANGED <<chain, mined>>

(* The request fails or times out: the catch of the handler.                  *)
RequestFails(n, s) ==
  /\ run[n][s] # None
  /\ Done(n, s)
  /\ UNCHANGED <<chain, mined>>

(* reorg: revert to the fork, then apply the blocks one by one; the first     *)
(* must name our block at the fork as its parent, or everything rolls back.   *)
(* Blocks fork + 1 .. upTo are those of theirs.                               *)
Reorganised(ours, theirs, fork, upTo) ==
  IF upTo <= fork THEN Prefix(ours, fork)
  ELSE IF Prefix(theirs, fork) = Prefix(ours, fork) THEN Prefix(theirs, upTo)
  ELSE ours

(* What requestBlocks may return of a request that reaches up to tip: an      *)
(* empty stream decodes as an empty list of blocks.                           *)
Answers(fork, tip) == IF LostBodies THEN {fork, tip} ELSE {tip}

(* Mutant: the height is not looked at again. *)
BlocksArriveUnchecked(n, s) ==
  LET r      == run[n][s]
      theirs == chain[r.peer]
  IN  /\ r # None /\ r.stage = "blocks"
      /\ \E upTo \in Answers(r.fork, Least(r.top, Len(theirs))) :
           chain' = [chain EXCEPT ![n] = Reorganised(@, theirs, r.fork, upTo)]
      /\ Done(n, s)
      /\ UNCHANGED mined

(* The blocks arrive, from the chain the peer has by now and cut at its tip.  *)
(* Only our height is compared with what it was, and nothing compares the     *)
(* blocks with the headers that promised more work.                           *)
BlocksArrive(n, s) ==
  LET r      == run[n][s]
      theirs == chain[r.peer]
  IN  /\ r # None /\ r.stage = "blocks"
      /\ \E upTo \in Answers(r.fork, Least(r.top, Len(theirs))) :
           chain' = [chain EXCEPT ![n] =
                       IF Height(n) = r.height THEN Reorganised(@, theirs, r.fork, upTo) ELSE @]
      /\ Done(n, s)
      /\ UNCHANGED mined

(* The process restarts: the chain is in SQLite, the waiting handlers are not. *)
Restart(n) ==
  /\ run' = [run EXCEPT ![n] = [s \in Slot |-> None]]
  /\ UNCHANGED <<chain, mined>>

-----------------------------------------------------------------------------
(* The specification *)

Init ==
  /\ chain = [n \in Node |-> << >>]
  /\ mined = {}
  /\ run = [n \in Node |-> [s \in Slot |-> None]]

Step(n) ==
  \/ MineBlock(n)
  \/ \E b \in mined : ApplyBlock(n, b)
  \/ \E b \in mined, p \in Node, s \in Slot : AskHeaders(n, b, p, s)
  \/ \E s \in Slot : HeadersArrive(n, s) \/ RequestFails(n, s) \/ BlocksArrive(n, s)
  \/ Restart(n)

Next == \E n \in Node : Step(n)

Spec == Init /\ [][Next]_vars

-----------------------------------------------------------------------------
(* Properties *)

(* Every variable holds a value of its type; a handler that asked for blocks  *)
(* was promised a tip above the height it compared with.                      *)
TypeOK ==
  /\ chain \in [Node -> Seq(Node)]
  /\ mined \subseteq Seq(Node)
  /\ run \in [Node -> [Slot -> AskedHeaders \cup AskedBlocks \cup {None}]]
  /\ \A n \in Node, s \in Slot :
       LET r == run[n][s]
       IN  r # None /\ r.stage = "blocks" => r.fork <= r.height /\ r.height < r.top

(* The specification of what fork choice promises *)
Heaviest == INSTANCE HeaviestChain
              WITH Node <- Node, MaxHeight <- MaxHeight, chain <- chain, mined <- mined

(* However the awaits of several handlers of several nodes interleave, a node *)
(* only ever moves to a chain of mined blocks that is strictly longer than    *)
(* the one it has at that moment ("Strictly greater wins; equal work          *)
(* produces no reorg", CONSENSUS).                                            *)
HeaviestSpec == Heaviest!Spec

(* No reorg takes back MaxReorgDepth blocks or more: journals and the vouch   *)
(* cooldown are sized by it.                                                  *)
ReorgBounded ==
  [][\A n \in Node : \E h \in Heights :
       /\ h <= Height(n) /\ h <= Len(chain'[n])
       /\ Prefix(chain[n], h) = Prefix(chain'[n], h)
       /\ Height(n) - h < MaxReorgDepth]_vars

(* Whatever answers lack, a block is only taken back for work that was mined:   *)
(* a step that does not keep the whole chain leaves one shorter than another.   *)
GivenUpForMore ==
  [][\A n \in Node :
       \/ Len(chain'[n]) >= Height(n) /\ Prefix(chain'[n], Height(n)) = chain[n]
       \/ \E b \in mined : Len(b) > Height(n)]_vars

(* So the network as a whole never loses the work it has: whatever was mined,   *)
(* some node has a chain of at least that height.                              *)
WorkHeld == \A b \in mined : \E n \in Node : Height(n) >= Len(b)

(* Cumulative work decides: a node never gives up work it has.                *)
WorkNeverLost == [][\A n \in Node : Len(chain'[n]) >= Height(n)]_vars

=============================================================================
