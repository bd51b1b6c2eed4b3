---------------------------- MODULE SyncMachine ----------------------------
(***************************************************************************)
(* The sync machine of packages/net on several nodes at once: who asks whom  *)
(* for blocks, which answers count, and when a node gives up on a peer.       *)
(*                                                                         *)
(* All nodes hold prefixes of one chain, so a block is its height (the pull   *)
(* path knows no forks; those are ForkChoice's).  stalledPeers is written     *)
(* and never read, and is left out.  Control events are handled before data   *)
(* events, but every event arrives in a stream of its own: delivery is in any *)
(* order.  Time is counted in the 30 s ticks of node.ts; messages are faster  *)
(* than a tick except for MaxMishaps of them.                                *)
(***************************************************************************)
EXTENDS Integers, FiniteSets

CONSTANTS
  Node,
  Dial,            \* Dial[n]: the bootstrap peers of n; no two dial each other
  After,           \* whose timer fires after that of n; intervals are equal
  MaxHeight,       \* bound on the chain
  MaxInv,          \* MAX_INV_IDS
  MaxOutstanding,  \* MAX_OUTSTANDING_IDS
  MaxServe,        \* blocks that fit in MAX_SERVE_BODY_BYTES
  MaxMishaps,      \* bound on lost and late messages, disconnects, restarts
  MinPeers,        \* MinPeers[n]: minPeers, the floor of outbound connections
  None

ASSUME SyncAssumption ==
  /\ Dial \in [Node -> SUBSET Node] /\ None \notin Node
  /\ \A n, p \in Node : p \in Dial[n] => n \notin Dial[p] /\ n # p
  /\ After \in [Node -> Node]
  /\ {MaxHeight, MaxInv, MaxServe} \subseteq Nat \ {0}
  /\ MaxOutstanding \in Nat /\ MaxOutstanding >= MaxInv
  /\ MaxMishaps \in Nat /\ MinPeers \in [Node -> Nat]

VARIABLES
  height,   \* height[n]: chainHeight()
  sm,       \* sm[n]: phase, sync peer, requested ids by peer, ticks since progress
  up,       \* links whose both ends are Active
  filled,   \* nodes with an outbound connection of the fill phase
  net,      \* messages and peer-active events under way
  turn,     \* the node whose timer fires next
  mishaps

vars == <<height, sm, up, filled, net, turn, mishaps>>

Blocks == 1 .. MaxHeight

Machine == [phase : {"idle", "syncing", "synced"}, peer : Node \cup {None},
            asked : [Node -> SUBSET Blocks], stale : 0 .. 2]

Fresh == [phase |-> "idle", peer |-> None, asked |-> [m \in Node |-> {}], stale |-> 0]

Message ==
  [kind : {"hello", "active", "info"}, from : Node, to : Node, tip : 0 .. MaxHeight]
    \cup [kind : {"inv", "req", "resp"}, from : Node, to : Node, ids : SUBSET Blocks]

-----------------------------------------------------------------------------
(* Sending *)

(* The first k ids of S in order *)
Take(S, k) == {b \in S : Cardinality({c \in S : c < b}) < k}

Info(n, p) == {[kind |-> "info", from |-> n, to |-> p, tip |-> height[n]]}

Ids(kind, n, p, ids) ==
  IF ids = {} THEN {} ELSE {[kind |-> kind, from |-> n, to |-> p, ids |-> ids]}

(* Mutant: one height too many. *)
ContinuationPastTip(n, tip) == Take(tip + 1 .. height[n] + 1, MaxInv)

(* The ids servePeer announces to a peer at height tip *)
Continuation(n, tip) == Take(tip + 1 .. height[n], MaxInv)

(* Messages to a peer that is gone are dropped by sendToPeer. *)
Consume(msg, out) == net' = (net \ {msg}) \cup {m \in out : {m.from, m.to} \in up}

-----------------------------------------------------------------------------
(* Events *)

Syncing(n, p) == [sm[n] EXCEPT !.phase = "syncing", !.peer = p, !.stale = 0]

(* Mutant: a synced node does not begin again. *)
MayBeginIdle(n) == sm[n].phase = "idle"

(* A sync begins when none is going on. *)
MayBegin(n) == sm[n].phase # "syncing"

(* The handshake handlers and handlePeerActive: the end that was dialled        *)
(* learns the other's height first and answers with its own.                  *)
PeerActive(msg) ==
  LET n == msg.to
      p == msg.from
      answer == IF msg.kind = "active" THEN {}
                ELSE {[kind |-> "active", from |-> n, to |-> p, tip |-> height[n]]}
  IN  /\ msg.kind \in {"hello", "active"}
      /\ \/ /\ msg.tip > height[n] /\ MayBegin(n)
            /\ sm' = [sm EXCEPT ![n] = Syncing(n, p)]
            /\ Consume(msg, answer \cup Info(n, p))
         \/ /\ ~(msg.tip > height[n] /\ MayBegin(n))
            /\ Consume(msg, answer \cup Ids("inv", n, p, Continuation(n, msg.tip)))
            /\ UNCHANGED sm
      /\ UNCHANGED <<height, up, filled, turn, mishaps>>

(* handleSyncInfoMsg.  A peer ahead is taken as sync peer but not asked yet;  *)
(* any peer at our height ends the sync, the sync peer or not.                *)
SyncInfoMsg(msg) ==
  LET n == msg.to
      p == msg.from
  IN  /\ msg.kind = "info"
      /\ \/ /\ msg.tip > height[n]
            /\ sm' = IF MayBegin(n) THEN [sm EXCEPT ![n] = Syncing(n, p)] ELSE sm
            /\ Consume(msg, {})
         \/ /\ msg.tip < height[n]
            /\ Consume(msg, Ids("inv", n, p, Continuation(n, msg.tip)))
            /\ UNCHANGED sm
         \/ /\ msg.tip = height[n]
            /\ sm' = IF sm[n].phase = "syncing" THEN [sm EXCEPT ![n].phase = "synced"] ELSE sm
            /\ Consume(msg, {})
      /\ UNCHANGED <<height, up, filled, turn, mishaps>>

AskedTotal(m) == Cardinality({x \in Node \X Blocks : x[2] \in m.asked[x[1]]})

(* Of the announced ids those we neither have nor wait for, within the budget *)
Wanted(n, p, ids) ==
  LET fresh == {b \in ids : b > height[n] /\ b \notin sm[n].asked[p]}
  IN  Take(fresh, MaxOutstanding - AskedTotal(sm[n]))

(* handleInvMsg *)
InvMsg(msg) ==
  LET n == msg.to
      p == msg.from
      w == IF sm[n].phase = "syncing" /\ sm[n].peer = p THEN Wanted(n, p, msg.ids) ELSE {}
  IN  /\ msg.kind = "inv"
      /\ sm' = [sm EXCEPT ![n].asked[p] = @ \cup w]
      /\ Consume(msg, Ids("req", n, p, w))
      /\ UNCHANGED <<height, up, filled, turn, mishaps>>

(* handleModifierRequestMsg: as many as fit, at least one *)
ModifierRequestMsg(msg) ==
  LET n == msg.to
  IN  /\ msg.kind = "req"
      /\ Consume(msg, Ids("resp", n, msg.from,
                          Take({b \in msg.ids : b <= height[n]}, MaxServe)))
      /\ UNCHANGED <<height, sm, up, filled, turn, mishaps>>

(* appendBlocks: each block is applied if it extends the tip, from h to g. *)
Appended(ids, h, g) == h + 1 .. g \subseteq ids /\ g + 1 \notin ids

(* handleModifierResponseMsg: only what this sender was asked for counts, and  *)
(* only a higher chain is progress.                                           *)
ModifierResponseMsg(msg) ==
  LET n   == msg.to
      p   == msg.from
      got == msg.ids \cap sm[n].asked[p]
  IN  /\ msg.kind = "resp"
      /\ \E h \in height[n] .. MaxHeight :
           /\ Appended(got, height[n], h)
           /\ height' = [height EXCEPT ![n] = h]
           /\ sm' = [sm EXCEPT ![n].asked[p] = @ \ got,
                               ![n].stale = IF h > height[n] THEN 0 ELSE @]
      /\ Consume(msg, {})
      /\ UNCHANGED <<up, filled, turn, mishaps>>

Deliver ==
  \E msg \in net :
    \/ PeerActive(msg)
    \/ SyncInfoMsg(msg)
    \/ InvMsg(msg)
    \/ ModifierRequestMsg(msg)
    \/ ModifierResponseMsg(msg)

-----------------------------------------------------------------------------
(* The 30 s timer *)

(* rotatePeer: the conversation is over, and no other peer is looked for *)
Rotated(m) == [m EXCEPT !.phase = "idle", !.peer = None, !.stale = 0,
                        !.asked = [p \in Node |-> {}]]

Stalled(n) == sm[n].phase = "syncing" /\ sm[n].stale = 2

(* planTick counts outbound connections.  Those of the fill phase run no        *)
(* handshake, so their peers are not Active and nothing is said on them.       *)
Outbound(n) == Cardinality({p \in Dial[n] : {n, p} \in up}) + (IF n \in filled THEN 1 ELSE 0)

(* Floor phase: all bootstrap peers are dialled, the connected ones again, and   *)
(* a handshake is run with each.                                              *)
Dialled(n) == IF Outbound(n) < MinPeers[n] THEN Dial[n] ELSE {}

(* Fill phase: a peer of the table is dialled, if there is one.                 *)
FillDial(n) ==
  \/ UNCHANGED filled
  \/ Outbound(n) >= MinPeers[n] /\ n \notin filled /\ filled' = filled \cup {n}

Hellos(n) == {[kind |-> "hello", from |-> n, to |-> p, tip |-> height[n]] : p \in Dialled(n)}

Ticked(n) ==
  IF Stalled(n) THEN Rotated(sm[n])
  ELSE IF sm[n].phase = "syncing" THEN [sm[n] EXCEPT !.stale = @ + 1] ELSE sm[n]

(* The interval of node.ts: onTimerTick (rotate after 60 s without progress,   *)
(* else poll the sync peer), then what planTick says of the connections.       *)
TimerTick(n) ==
  /\ n = turn /\ net = {}
  /\ turn' = After[n]
  /\ up' = up \cup {{n, p} : p \in Dialled(n)} /\ FillDial(n)
  /\ net' = Hellos(n) \cup
            (IF sm[n].phase # "idle" /\ ~Stalled(n) THEN Info(n, sm[n].peer) ELSE {})
  /\ sm' = [sm EXCEPT ![n] = Ticked(n)]
  /\ UNCHANGED <<height, mishaps>>

-----------------------------------------------------------------------------
(* The surroundings *)

(* Mutant: the ids asked for stay outstanding. *)
LeftKeepsAsked(m, p) == IF m.peer = p THEN [m EXCEPT !.phase = "idle", !.peer = None] ELSE m

(* handlePeerDisconnect *)
Left(m, p) ==
  IF m.peer = p
  THEN [m EXCEPT !.phase = "idle", !.peer = None, !.asked = [q \in Node |-> {}]]
  ELSE m

Mishap == mishaps < MaxMishaps /\ mishaps' = mishaps + 1

Disconnect(n, p) ==
  /\ {n, p} \in up /\ Mishap
  /\ up' = up \ {{n, p}}
  /\ sm' = [m \in Node |-> IF m = n THEN Left(sm[m], p)
                          ELSE IF m = p THEN Left(sm[m], n) ELSE sm[m]]
  /\ UNCHANGED <<height, filled, net, turn>>

(* The connection of the fill phase closes.                                   *)
FillLost(n) ==
  /\ n \in filled /\ Mishap
  /\ filled' = filled \ {n}
  /\ UNCHANGED <<height, sm, up, net, turn>>

(* A lost stream, or an event pushed out of the full data queue *)
Lose(msg) ==
  /\ Mishap
  /\ net' = net \ {msg}
  /\ UNCHANGED <<height, sm, up, filled, turn>>

(* The stall timer expires although an answer is still on its way. *)
LateStall(n) ==
  /\ Stalled(n) /\ net # {} /\ Mishap
  /\ sm' = [sm EXCEPT ![n] = Rotated(@)]
  /\ UNCHANGED <<height, up, filled, net, turn>>

Restart(n) ==
  /\ Mishap
  /\ up' = {l \in up : n \notin l} /\ filled' = filled \ {n}
  /\ sm' = [m \in Node |-> IF m = n THEN Fresh ELSE Left(sm[m], n)]
  /\ net' = {m \in net : m.to # n}
  /\ UNCHANGED <<height, turn>>

(* A block is mined on the longest chain, and gossip may bring the next block  *)
(* of it to a node (onOrderingBlock).                                         *)
Mine(n) ==
  /\ height[n] < MaxHeight /\ \A m \in Node : height[m] <= height[n]
  /\ height' = [height EXCEPT ![n] = @ + 1]
  /\ UNCHANGED <<sm, up, filled, net, turn, mishaps>>

Gossip(n) ==
  /\ \E m \in Node : height[m] > height[n]
  /\ height' = [height EXCEPT ![n] = @ + 1]
  /\ UNCHANGED <<sm, up, filled, net, turn, mishaps>>

-----------------------------------------------------------------------------
(* The specification *)

Init ==
  /\ height \in [Node -> 0 .. MaxHeight]
  /\ sm = [n \in Node |-> Fresh]
  /\ up = {} /\ filled = {} /\ net = {} /\ turn \in Node /\ mishaps = 0

Next ==
  \/ Deliver
  \/ \E n \in Node : TimerTick(n) \/ LateStall(n) \/ Restart(n) \/ FillLost(n)
                     \/ Mine(n) \/ Gossip(n)
  \/ \E n, p \in Node : Disconnect(n, p)
  \/ \E msg \in net : Lose(msg)

(* Events that arrived are handled (the event loop), and intervals fire. *)
Fairness == WF_vars(Deliver) /\ WF_vars(\E n \in Node : TimerTick(n))

Spec == Init /\ [][Next]_vars /\ Fairness

-----------------------------------------------------------------------------
(* Properties *)

(* Types; only blocks that exist are announced, asked for or sent.             *)
TypeOK ==
  /\ height \in [Node -> 0 .. MaxHeight]
  /\ sm \in [Node -> Machine]
  /\ up \subseteq {{n, p} : n, p \in Node} /\ filled \subseteq Node
  /\ net \subseteq Message
  /\ \A m \in net : m.kind \in {"inv", "req", "resp"} =>
                      \A b \in m.ids : \E n \in Node : b <= height[n]
  /\ turn \in Node /\ mishaps \in 0 .. MaxMishaps

(* A node without a sync peer waits for nothing: whatever ended the last        *)
(* conversation, no id of it can block or answer the next one (rotatePeer,    *)
(* handlePeerDisconnect).                                                     *)
IdleIsClean ==
  \A n \in Node :
    /\ sm[n].phase = "idle" <=> sm[n].peer = None
    /\ sm[n].phase = "idle" => AskedTotal(sm[n]) = 0

(* The ids a node waits for never exceed its budget, over all peers it ever     *)
(* asked: whatever a sync that ended early, a new sync peer or a lost answer    *)
(* leaves outstanding, the next request takes only what is left (handleInvMsg). *)
BudgetKept == \A n \in Node : AskedTotal(sm[n]) <= MaxOutstanding

(* n has fewer bootstrap peers than its floor: it never gets to the fill phase,  *)
(* and shakes hands with all of them at every tick.                           *)
Short(n) == Cardinality(Dial[n]) < MinPeers[n]

(* A node whose bootstrap list is shorter than minPeers and each of its          *)
(* bootstrap peers catch up with one another: through lost messages, truncated *)
(* responses, wedged requests, premature ends of a sync and stalls, and while  *)
(* others sync from them (SyncMachine as a whole).  Nothing else makes a       *)
(* stalled node look for a peer: rotatePeer picks none, and neither the fill   *)
(* phase nor a floor that is reached leads to another handshake.               *)
CatchesUp ==
  \A h \in Blocks, n \in Node : \A p \in Dial[n] :
    Short(n) => /\ height[n] >= h ~> height[p] >= h
                /\ height[p] >= h ~> height[n] >= h

=============================================================================
