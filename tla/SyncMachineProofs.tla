------------------------- MODULE SyncMachineProofs -------------------------
(***************************************************************************)
(* What the sync machines keep, for any number of nodes, blocks, budgets    *)
(* and mishaps: only blocks that exist travel, and a node without a sync     *)
(* peer waits for nothing.                                                   *)
(***************************************************************************)
EXTENDS SyncMachine, FiniteSetTheorems, WellFoundedInduction, TLAPS

(* A machine without a sync peer is idle and has asked for nothing. *)
Clean(m) ==
  /\ m.phase = "idle" <=> m.peer = None
  /\ m.phase = "idle" => \A p \in Node : m.asked[p] = {}

(* A message under way when the heights are h *)
Fit(msg, h) ==
  /\ msg \in Message
  /\ msg.kind \in {"inv", "req", "resp"} =>
       \A b \in msg.ids : \E n \in Node : b <= h[n]

Inv ==
  /\ height \in [Node -> 0 .. MaxHeight]
  /\ sm \in [Node -> Machine] /\ \A n \in Node : Clean(sm[n])
  /\ up \subseteq {{n, p} : n, p \in Node}
  /\ \A msg \in net : Fit(msg, height)
  /\ turn \in Node /\ mishaps \in 0 .. MaxMishaps

-----------------------------------------------------------------------------
(* Messages *)

(* The kind of a message tells its fields. *)
LEMMA MessageFields ==
  ASSUME NEW msg \in Message
  PROVE  /\ msg.from \in Node /\ msg.to \in Node
         /\ msg.kind \in {"hello", "active", "info"} => msg.tip \in 0 .. MaxHeight
         /\ msg.kind \in {"inv", "req", "resp"} => msg.ids \subseteq Blocks
BY DEF Message

(* What a node tells of its height fits. *)
LEMMA TipsFit ==
  ASSUME Inv, NEW n \in Node, NEW p \in Node, NEW kind \in {"hello", "active", "info"}
  PROVE  Fit([kind |-> kind, from |-> n, to |-> p, tip |-> height[n]], height)
BY DEF Inv, Fit, Message

(* SyncInfo fits. *)
LEMMA InfoFits ==
  ASSUME Inv, NEW n \in Node, NEW p \in Node
  PROVE  \A msg \in Info(n, p) : Fit(msg, height)
BY TipsFit DEF Info

(* A message with ids of existing blocks fits. *)
LEMMA IdsFit ==
  ASSUME NEW n \in Node, NEW p \in Node, NEW kind \in {"inv", "req", "resp"},
         NEW ids \in SUBSET Blocks, \A b \in ids : \E q \in Node : b <= height[q]
  PROVE  \A msg \in Ids(kind, n, p, ids) : Fit(msg, height)
<1> DEFINE m == [kind |-> kind, from |-> n, to |-> p, ids |-> ids]
<1>1. m \in Message
  BY DEF Message
<1>2. Fit(m, height)
  BY <1>1 DEF Fit
<1> QED
  BY <1>2 DEF Ids

(* A node announces what it has. *)
LEMMA ContinuationFits ==
  ASSUME Inv, NEW n \in Node, NEW p \in Node, NEW tip \in 0 .. MaxHeight
  PROVE  \A msg \in Ids("inv", n, p, Continuation(n, tip)) : Fit(msg, height)
<1>1. height[n] \in 0 .. MaxHeight
  BY DEF Inv
<1>2. /\ Continuation(n, tip) \subseteq Blocks
      /\ \A b \in Continuation(n, tip) : b <= height[n]
  BY <1>1, SyncAssumption DEF Continuation, Take, Blocks
<1> QED
  BY <1>2, IdsFit

(* Every message after Consume was under way or is sent now. *)
LEMMA ConsumeSends ==
  ASSUME NEW msg, NEW out, Consume(msg, out)
  PROVE  \A m \in net' : m \in net \/ m \in out
BY DEF Consume

-----------------------------------------------------------------------------
(* Machines *)

(* A machine that starts is clean. *)
LEMMA FreshClean == Fresh \in Machine /\ Clean(Fresh)
BY DEF Fresh, Machine, Clean

(* A machine is the record of its fields. *)
LEMMA Fields ==
  ASSUME NEW m \in Machine
  PROVE  m = [phase |-> m.phase, peer |-> m.peer, asked |-> m.asked, stale |-> m.stale]
BY DEF Machine

(* A sync that begins has a peer. *)
LEMMA SyncingClean ==
  ASSUME Inv, NEW n \in Node, NEW p \in Node
  PROVE  Syncing(n, p) \in Machine /\ Clean(Syncing(n, p))
<1> DEFINE m == sm[n]
<1>1. m \in Machine /\ p # None
  BY SyncAssumption DEF Inv
<1>2. Syncing(n, p) = [[phase |-> m.phase, peer |-> m.peer, asked |-> m.asked, stale |-> m.stale]
                         EXCEPT !.phase = "syncing", !.peer = p, !.stale = 0]
  BY <1>1, Fields DEF Syncing
<1>3. Syncing(n, p) = [phase |-> "syncing", peer |-> p, asked |-> m.asked, stale |-> 0]
  BY <1>2, Zenon
<1>4. Syncing(n, p) \in Machine
  BY <1>1, <1>3 DEF Machine
<1> QED
  BY <1>1, <1>3, <1>4 DEF Clean

(* rotatePeer leaves nothing behind. *)
LEMMA RotatedClean ==
  ASSUME NEW m \in Machine
  PROVE  Rotated(m) \in Machine /\ Clean(Rotated(m))
<1> DEFINE none == [p \in Node |-> {}]
<1>1. Rotated(m) = [[phase |-> m.phase, peer |-> m.peer, asked |-> m.asked, stale |-> m.stale]
                      EXCEPT !.phase = "idle", !.peer = None, !.stale = 0, !.asked = none]
  BY Fields DEF Rotated
<1>2. Rotated(m) = [phase |-> "idle", peer |-> None, asked |-> none, stale |-> 0]
  BY <1>1, Zenon
<1>3. Rotated(m) \in Machine
  BY <1>2 DEF Machine
<1> QED
  BY <1>2, <1>3 DEF Clean

(* handlePeerDisconnect leaves nothing behind. *)
LEMMA LeftClean ==
  ASSUME NEW m \in Machine, Clean(m), NEW p \in Node
  PROVE  Left(m, p) \in Machine /\ Clean(Left(m, p))
BY SyncAssumption DEF Left, Machine, Clean

(* A sync that ends keeps its peer. *)
LEMMA SyncedClean ==
  ASSUME NEW m \in Machine, Clean(m), m.phase = "syncing"
  PROVE  LET k == [m EXCEPT !.phase = "synced"] IN k \in Machine /\ Clean(k)
BY DEF Machine, Clean

(* Waiting keeps a machine clean. *)
LEMMA TickedClean ==
  ASSUME NEW m \in Machine, Clean(m), NEW t \in 0 .. 2
  PROVE  LET k == [m EXCEPT !.stale = t] IN k \in Machine /\ Clean(k)
BY DEF Machine, Clean

(* Asking keeps a machine clean, unless it is idle. *)
LEMMA AskedClean ==
  ASSUME NEW m \in Machine, Clean(m), NEW p \in Node, NEW ids \in SUBSET Blocks,
         m.phase = "idle" => ids = {}
  PROVE  LET k == [m EXCEPT !.asked[p] = ids] IN k \in Machine /\ Clean(k)
BY DEF Machine, Clean

(* Answers keep a machine clean. *)
LEMMA AnsweredClean ==
  ASSUME NEW m \in Machine, Clean(m), NEW p \in Node, NEW ids \in SUBSET m.asked[p],
         NEW t \in 0 .. 2
  PROVE  LET k == [m EXCEPT !.asked[p] = ids, !.stale = t] IN k \in Machine /\ Clean(k)
BY DEF Machine, Clean

(* What a step has to show to keep the invariant *)
LEMMA Preserved ==
  ASSUME Inv,
         height' \in [Node -> 0 .. MaxHeight], \A n \in Node : height[n] <= height'[n],
         sm' \in [Node -> Machine], \A n \in Node : Clean(sm'[n]),
         up' \subseteq {{n, p} : n, p \in Node},
         \A msg \in net' : msg \in net \/ Fit(msg, height),
         turn' \in Node, mishaps' \in 0 .. MaxMishaps
  PROVE  Inv'
<1>1. ASSUME NEW msg \in net' PROVE Fit(msg, height')
  <2>1. Fit(msg, height)
    BY DEF Inv
  <2>2. msg \in Message
    BY <2>1 DEF Fit
  <2>3. ASSUME msg.kind \in {"inv", "req", "resp"}, NEW b \in msg.ids
        PROVE  \E n \in Node : b <= height'[n]
    <3>1. PICK n \in Node : b <= height[n]
      BY <2>1, <2>3 DEF Fit
    <3>2. b \in Blocks
      BY <2>2, <2>3, MessageFields
    <3>3. b \in Int /\ height[n] \in Int /\ height'[n] \in Int
      BY <3>2, SyncAssumption DEF Inv, Blocks
    <3> QED
      BY <3>1, <3>3
  <2> QED
    BY <2>2, <2>3 DEF Fit
<1> QED
  BY <1>1 DEF Inv

(* The same of a step that changes one machine and sends messages. *)
LEMMA PreservedByMachine ==
  ASSUME Inv, NEW n \in Node, NEW m, m \in Machine, Clean(m),
         sm' = [sm EXCEPT ![n] = m],
         \A msg \in net' : msg \in net \/ Fit(msg, height),
         UNCHANGED <<height, up, turn>>, mishaps' \in 0 .. MaxMishaps
  PROVE  Inv'
<1>1. sm' \in [Node -> Machine]
  BY DEF Inv
<1>2. \A k \in Node : Clean(sm'[k])
  BY DEF Inv
<1>3. \A k \in Node : height[k] <= height'[k]
  BY DEF Inv
<1>4. /\ height' \in [Node -> 0 .. MaxHeight] /\ turn' \in Node
      /\ up' \subseteq {{k, p} : k, p \in Node}
  BY DEF Inv
<1> QED
  BY <1>1, <1>2, <1>3, <1>4, Preserved

(* The same of a step that changes no machine. *)
LEMMA PreservedByMessages ==
  ASSUME Inv, UNCHANGED <<height, sm, up, turn>>,
         \A msg \in net' : msg \in net \/ Fit(msg, height), mishaps' \in 0 .. MaxMishaps
  PROVE  Inv'
<1>1. /\ height' \in [Node -> 0 .. MaxHeight] /\ turn' \in Node
      /\ \A k \in Node : height[k] <= height'[k] /\ Clean(sm'[k])
      /\ up' \subseteq {{k, p} : k, p \in Node} /\ sm' \in [Node -> Machine]
  BY DEF Inv
<1> QED
  BY <1>1, Preserved

-----------------------------------------------------------------------------
(* Events *)

(* A handshake keeps the invariant. *)
LEMMA PeerActiveInv ==
  ASSUME Inv, NEW msg \in net, PeerActive(msg)
  PROVE  Inv'
<1> DEFINE n == msg.to
           p == msg.from
           answer == IF msg.kind = "active" THEN {}
                     ELSE {[kind |-> "active", from |-> n, to |-> p, tip |-> height[n]]}
<1>1. n \in Node /\ p \in Node /\ msg.tip \in 0 .. MaxHeight
  <2>1. msg \in Message
    BY DEF Inv, Fit
  <2> QED BY <2>1, MessageFields DEF PeerActive
<1>2. \A m \in answer : Fit(m, height)
  BY <1>1, TipsFit
<1>3. UNCHANGED <<height, up, turn>> /\ mishaps' \in 0 .. MaxMishaps
  BY DEF PeerActive, Inv
<1>4. CASE sm' = [sm EXCEPT ![n] = Syncing(n, p)] /\ Consume(msg, answer \cup Info(n, p))
  <2>1. \A m \in net' : m \in net \/ Fit(m, height)
    BY <1>1, <1>2, <1>4, InfoFits, ConsumeSends
  <2> QED
    BY <2>1, <1>1, <1>3, <1>4, SyncingClean, PreservedByMachine
<1>5. CASE /\ Consume(msg, answer \cup Ids("inv", n, p, Continuation(n, msg.tip)))
           /\ UNCHANGED sm
  <2>1. \A m \in net' : m \in net \/ Fit(m, height)
    BY <1>1, <1>2, <1>5, ContinuationFits, ConsumeSends
  <2> QED
    BY <2>1, <1>3, <1>5, PreservedByMessages
<1> QED
  BY <1>4, <1>5 DEF PeerActive

(* A SyncInfo keeps the invariant. *)
LEMMA SyncInfoInv ==
  ASSUME Inv, NEW msg \in net, SyncInfoMsg(msg)
  PROVE  Inv'
<1> DEFINE n == msg.to
           p == msg.from
<1>1. n \in Node /\ p \in Node /\ msg.tip \in 0 .. MaxHeight
  <2>1. msg \in Message
    BY DEF Inv, Fit
  <2> QED BY <2>1, MessageFields DEF SyncInfoMsg
<1>2. UNCHANGED <<height, up, turn>> /\ mishaps' \in 0 .. MaxMishaps
  BY DEF SyncInfoMsg, Inv
<1>3. /\ \A m \in Ids("inv", n, p, Continuation(n, msg.tip)) : Fit(m, height)
      /\ \A m \in {} : Fit(m, height)
  BY <1>1, ContinuationFits
<1>4. \A m \in net' : m \in net \/ Fit(m, height)
  BY <1>3, ConsumeSends DEF SyncInfoMsg
<1>5. CASE UNCHANGED sm
  BY <1>2, <1>4, <1>5, PreservedByMessages
<1>6. CASE sm' = [sm EXCEPT ![n] = Syncing(n, p)]
  BY <1>1, <1>2, <1>4, <1>6, SyncingClean, PreservedByMachine
<1>7. CASE sm[n].phase = "syncing" /\ sm' = [sm EXCEPT ![n].phase = "synced"]
  <2>1. sm[n] \in Machine /\ Clean(sm[n])
    BY <1>1 DEF Inv
  <2>2. /\ [sm[n] EXCEPT !.phase = "synced"] \in Machine
        /\ Clean([sm[n] EXCEPT !.phase = "synced"])
    BY <2>1, <1>7, SyncedClean
  <2>3. sm' = [sm EXCEPT ![n] = [sm[n] EXCEPT !.phase = "synced"]]
    BY <1>1, <1>7 DEF Inv
  <2> QED
    BY <2>2, <2>3, <1>1, <1>2, <1>4, PreservedByMachine
<1> QED
  BY <1>5, <1>6, <1>7 DEF SyncInfoMsg

(* An announcement keeps the invariant: only a syncing machine asks. *)
LEMMA InvMsgInv ==
  ASSUME Inv, NEW msg \in net, InvMsg(msg)
  PROVE  Inv'
<1> DEFINE n == msg.to
           p == msg.from
           w == IF sm[n].phase = "syncing" /\ sm[n].peer = p THEN Wanted(n, p, msg.ids) ELSE {}
           m == [sm[n] EXCEPT !.asked[p] = sm[n].asked[p] \cup w]
<1>1. n \in Node /\ p \in Node /\ msg.ids \subseteq Blocks
  <2>1. msg \in Message
    BY DEF Inv, Fit
  <2> QED BY <2>1, MessageFields DEF InvMsg
<1>2. /\ sm' = [sm EXCEPT ![n].asked[p] = sm[n].asked[p] \cup w]
      /\ Consume(msg, Ids("req", n, p, w))
      /\ UNCHANGED <<height, up, turn>> /\ mishaps' \in 0 .. MaxMishaps
  BY DEF InvMsg, Inv
<1>3. w \subseteq msg.ids
  BY DEF Wanted, Take
<1>4. \A b \in w : \E q \in Node : b <= height[q]
  BY <1>3 DEF Inv, Fit, InvMsg
<1>5. sm[n] \in Machine /\ Clean(sm[n]) /\ sm \in [Node -> Machine]
  BY <1>1 DEF Inv
<1>6. sm[n].asked[p] \subseteq Blocks
  BY <1>1, <1>5 DEF Machine
<1>7. sm[n].phase = "idle" => sm[n].asked[p] \cup w = {}
  BY <1>1, <1>5 DEF Clean
<1>8. \A q \in net' : q \in net \/ Fit(q, height)
  BY <1>1, <1>2, <1>3, <1>4, IdsFit, ConsumeSends
<1> HIDE DEF w
<1>9. m \in Machine /\ Clean(m)
  BY <1>1, <1>3, <1>5, <1>6, <1>7, AskedClean
<1>10. sm' = [sm EXCEPT ![n] = m]
  BY <1>1, <1>2, <1>5
<1> HIDE DEF m
<1> QED
  BY <1>1, <1>2, <1>8, <1>9, <1>10, PreservedByMachine

(* Serving a request keeps the invariant. *)
LEMMA RequestInv ==
  ASSUME Inv, NEW msg \in net, ModifierRequestMsg(msg)
  PROVE  Inv'
<1> DEFINE n == msg.to
           out == Take({b \in msg.ids : b <= height[n]}, MaxServe)
<1>1. n \in Node /\ msg.from \in Node /\ msg.ids \subseteq Blocks
  <2>1. msg \in Message
    BY DEF Inv, Fit
  <2> QED BY <2>1, MessageFields DEF ModifierRequestMsg
<1>2. out \subseteq Blocks /\ \A b \in out : \E q \in Node : b <= height[q]
  BY <1>1 DEF Take
<1>3. Consume(msg, Ids("resp", n, msg.from, out)) /\ UNCHANGED <<height, sm, up, turn, mishaps>>
  BY DEF ModifierRequestMsg
<1> HIDE DEF out
<1>4. \A q \in net' : q \in net \/ Fit(q, height)
  BY <1>1, <1>2, <1>3, IdsFit, ConsumeSends
<1>5. mishaps' \in 0 .. MaxMishaps
  BY <1>3 DEF Inv
<1> QED
  BY <1>3, <1>4, <1>5, PreservedByMessages

(* A response keeps the invariant: chains only grow. *)
LEMMA ResponseInv ==
  ASSUME Inv, NEW msg \in net, ModifierResponseMsg(msg)
  PROVE  Inv'
<1> DEFINE n == msg.to
           p == msg.from
           got == msg.ids \cap sm[n].asked[p]
<1>1. n \in Node /\ p \in Node
  <2>1. msg \in Message
    BY DEF Inv, Fit
  <2> QED BY <2>1, MessageFields DEF ModifierResponseMsg
<1>2. PICK h \in height[n] .. MaxHeight :
        /\ height' = [height EXCEPT ![n] = h]
        /\ sm' = [sm EXCEPT ![n].asked[p] = sm[n].asked[p] \ got,
                            ![n].stale = IF h > height[n] THEN 0 ELSE sm[n].stale]
  BY DEF ModifierResponseMsg, Inv
<1> DEFINE t == IF h > height[n] THEN 0 ELSE sm[n].stale
           m == [sm[n] EXCEPT !.asked[p] = sm[n].asked[p] \ got, !.stale = t]
<1>3. sm[n] \in Machine /\ Clean(sm[n]) /\ sm \in [Node -> Machine]
  BY <1>1 DEF Inv
<1>4. t \in 0 .. 2 /\ sm[n].asked[p] \ got \in SUBSET sm[n].asked[p]
  BY <1>3 DEF Machine
<1>5. m \in Machine /\ Clean(m)
  BY <1>1, <1>3, <1>4, AnsweredClean
<1>6. sm' = [sm EXCEPT ![n] = m]
  BY <1>1, <1>2, <1>3
<1> HIDE DEF m
<1>7. sm' \in [Node -> Machine] /\ \A k \in Node : Clean(sm'[k])
  <2>1. \A k \in Node : Clean(sm[k])
    BY DEF Inv
  <2> HIDE DEF n
  <2> QED BY <2>1, <1>1, <1>3, <1>5, <1>6
<1>8. height[n] \in 0 .. MaxHeight /\ h \in 0 .. MaxHeight /\ height[n] <= h
  <2>1. height[n] \in 0 .. MaxHeight
    BY <1>1 DEF Inv
  <2>2. MaxHeight \in Nat
    BY SyncAssumption
  <2>3. h \in height[n] .. MaxHeight
    BY <1>2
  <2> HIDE DEF n
  <2> QED BY <2>1, <2>2, <2>3
<1>9. /\ height' \in [Node -> 0 .. MaxHeight]
      /\ \A k \in Node : height[k] <= height'[k]
  <2>1. height \in [Node -> 0 .. MaxHeight] /\ MaxHeight \in Nat
    BY SyncAssumption DEF Inv
  <2>2. height' = [height EXCEPT ![n] = h]
    BY <1>2
  <2> HIDE DEF n
  <2>3. \A k \in Node : height'[k] = IF k = n THEN h ELSE height[k]
    BY <2>1, <2>2
  <2>4. \A k \in Node : height[k] \in 0 .. MaxHeight
    BY <2>1
  <2>5. \A k \in Node : height[k] <= height'[k]
    BY <2>1, <2>3, <2>4, <1>1, <1>8
  <2> QED BY <2>1, <2>2, <2>5, <1>1, <1>8
<1>10. /\ \A q \in net' : q \in net \/ q \in {}
       /\ UNCHANGED <<up, turn, mishaps>>
  <2>1. Consume(msg, {}) /\ UNCHANGED <<up, turn, mishaps>>
    BY DEF ModifierResponseMsg
  <2> QED BY <2>1, ConsumeSends
<1> QED
  BY <1>7, <1>9, <1>10, Preserved DEF Inv

-----------------------------------------------------------------------------
(* The timer and the surroundings *)

(* The 30 s interval keeps the invariant. *)
LEMMA TimerInv ==
  ASSUME Inv, NEW n \in Node, TimerTick(n)
  PROVE  Inv'
<1> DEFINE polls == IF sm[n].phase # "idle" /\ ~Stalled(n) THEN Info(n, sm[n].peer) ELSE {}
<1>1. /\ sm' = [sm EXCEPT ![n] = Ticked(n)] /\ net' = Hellos(n) \cup polls
      /\ up' = up \cup {{n, p} : p \in Dialled(n)}
      /\ turn' = After[n] /\ UNCHANGED <<height, mishaps>>
  BY DEF TimerTick
<1>2. sm[n] \in Machine /\ Clean(sm[n])
  BY DEF Inv
<1>3. Dialled(n) \subseteq Node
  BY SyncAssumption DEF Dialled
<1>4. Ticked(n) \in Machine /\ Clean(Ticked(n))
  <2>1. CASE Stalled(n)
    BY <2>1, <1>2, RotatedClean DEF Ticked
  <2>2. CASE ~Stalled(n) /\ sm[n].phase = "syncing"
    <3>1. sm[n].stale \in 0 .. 2 /\ sm[n].stale # 2
      BY <2>2, <1>2 DEF Stalled, Machine
    <3>2. sm[n].stale + 1 \in 0 .. 2
      BY <3>1
    <3> QED
      BY <2>2, <3>2, <1>2, TickedClean DEF Ticked
  <2>3. CASE ~Stalled(n) /\ sm[n].phase # "syncing"
    BY <2>3, <1>2 DEF Ticked
  <2> QED
    BY <2>1, <2>2, <2>3
<1>5. sm[n].phase # "idle" => sm[n].peer \in Node
  BY <1>2 DEF Clean, Machine
<1>6. \A q \in net' : q \in net \/ Fit(q, height)
  <2>1. \A q \in Hellos(n) : Fit(q, height)
    BY <1>3, TipsFit DEF Hellos
  <2>2. \A q \in polls : Fit(q, height)
    BY <1>5, InfoFits
  <2> QED
    BY <1>1, <2>1, <2>2
<1> HIDE DEF polls
<1>7. sm' \in [Node -> Machine] /\ \A k \in Node : Clean(sm'[k])
  BY <1>1, <1>4 DEF Inv
<1>8. up' \subseteq {{k, p} : k, p \in Node}
  BY <1>1, <1>3 DEF Inv
<1>9. /\ turn' \in Node /\ mishaps' \in 0 .. MaxMishaps
      /\ height' \in [Node -> 0 .. MaxHeight] /\ \A k \in Node : height[k] <= height'[k]
  <2>1. After[n] \in Node
    BY SyncAssumption
  <2>2. height' = height /\ mishaps' = mishaps /\ turn' \in Node
    BY <1>1, <2>1
  <2>3. mishaps \in 0 .. MaxMishaps /\ height \in [Node -> 0 .. MaxHeight]
    BY DEF Inv
  <2>4. \A k \in Node : height[k] <= height[k]
    BY <2>3
  <2> QED
    BY <2>2, <2>3, <2>4
<1> QED
  BY <1>6, <1>7, <1>8, <1>9, Preserved

(* A mishap is counted. *)
LEMMA MishapCounted ==
  ASSUME Inv, Mishap
  PROVE  mishaps' \in 0 .. MaxMishaps
BY SyncAssumption DEF Inv, Mishap

(* Losing a peer keeps the invariant. *)
LEMMA DisconnectInv ==
  ASSUME Inv, NEW n \in Node, NEW p \in Node, Disconnect(n, p)
  PROVE  Inv'
<1>1. /\ sm' = [m \in Node |-> IF m = n THEN Left(sm[m], p)
                              ELSE IF m = p THEN Left(sm[m], n) ELSE sm[m]]
      /\ up' \subseteq up /\ Mishap /\ UNCHANGED <<height, net, turn>>
  BY DEF Disconnect
<1>2. \A m, q \in Node : Left(sm[m], q) \in Machine /\ Clean(Left(sm[m], q))
  BY LeftClean DEF Inv
<1>5. sm' \in [Node -> Machine] /\ \A k \in Node : Clean(sm'[k])
  BY <1>1, <1>2 DEF Inv
<1>6. mishaps' \in 0 .. MaxMishaps
  BY <1>1, MishapCounted
<1>7. /\ turn' \in Node /\ up' \subseteq {{k, q} : k, q \in Node}
      /\ height' \in [Node -> 0 .. MaxHeight] /\ \A k \in Node : height[k] <= height'[k]
  BY <1>1 DEF Inv
<1> QED
  BY <1>1, <1>5, <1>6, <1>7, Preserved

(* A restart keeps the invariant. *)
LEMMA RestartInv ==
  ASSUME Inv, NEW n \in Node, Restart(n)
  PROVE  Inv'
<1>1. /\ sm' = [m \in Node |-> IF m = n THEN Fresh ELSE Left(sm[m], n)]
      /\ up' \subseteq up /\ Mishap /\ net' \subseteq net /\ UNCHANGED <<height, turn>>
  BY DEF Restart
<1>2. \A m \in Node : Left(sm[m], n) \in Machine /\ Clean(Left(sm[m], n))
  BY LeftClean DEF Inv
<1>3. sm' \in [Node -> Machine] /\ \A k \in Node : Clean(sm'[k])
  BY <1>1, <1>2, FreshClean
<1>4. mishaps' \in 0 .. MaxMishaps
  BY <1>1, MishapCounted
<1>5. /\ turn' \in Node /\ up' \subseteq {{k, q} : k, q \in Node}
      /\ height' \in [Node -> 0 .. MaxHeight] /\ \A k \in Node : height[k] <= height'[k]
  BY <1>1 DEF Inv
<1> QED
  BY <1>1, <1>3, <1>4, <1>5, Preserved

(* A chain that grows otherwise keeps the invariant. *)
LEMMA GrowthInv ==
  ASSUME Inv, NEW n \in Node, Mine(n) \/ Gossip(n)
  PROVE  Inv'
<1>1. height' = [height EXCEPT ![n] = height[n] + 1] /\ UNCHANGED <<sm, up, net, turn, mishaps>>
  BY DEF Mine, Gossip, Inv
<1>2. height[n] \in 0 .. MaxHeight /\ height[n] < MaxHeight
  BY SyncAssumption DEF Inv, Mine, Gossip
<1>3. /\ height' \in [Node -> 0 .. MaxHeight]
      /\ \A k \in Node : height[k] <= height'[k]
  BY <1>1, <1>2, SyncAssumption DEF Inv
<1>4. /\ turn' \in Node /\ up' \subseteq {{k, q} : k, q \in Node} /\ mishaps' \in 0 .. MaxMishaps
      /\ sm' \in [Node -> Machine] /\ \A k \in Node : Clean(sm'[k])
  BY <1>1 DEF Inv
<1> QED
  BY <1>1, <1>3, <1>4, Preserved

-----------------------------------------------------------------------------
(* Theorems *)

(* The nodes start idle. *)
LEMMA InitInv == Init => Inv
BY FreshClean, SyncAssumption DEF Init, Inv

(* Every step keeps the invariant. *)
LEMMA NextInv == Inv /\ [Next]_vars => Inv'
<1> SUFFICES ASSUME Inv, [Next]_vars PROVE Inv'
  OBVIOUS
<1>1. CASE UNCHANGED vars
  BY <1>1 DEF vars, Inv
<1>2. CASE Deliver
  BY <1>2, PeerActiveInv, SyncInfoInv, InvMsgInv, RequestInv, ResponseInv DEF Deliver
<1>3. ASSUME NEW n \in Node, LateStall(n) PROVE Inv'
  <2>1. sm[n] \in Machine /\ sm' = [sm EXCEPT ![n] = Rotated(sm[n])]
    BY <1>3 DEF LateStall, Inv
  <2>2. UNCHANGED <<height, up, turn, net>> /\ mishaps' \in 0 .. MaxMishaps
    BY <1>3, MishapCounted DEF LateStall
  <2> QED
    BY <2>1, <2>2, RotatedClean, PreservedByMachine
<1>4. ASSUME NEW msg \in net, Lose(msg) PROVE Inv'
  <2>1. UNCHANGED <<height, sm, up, turn>> /\ net' \subseteq net /\ mishaps' \in 0 .. MaxMishaps
    BY <1>4, MishapCounted DEF Lose
  <2> QED
    BY <2>1, PreservedByMessages
<1>5. ASSUME NEW n \in Node, FillLost(n) PROVE Inv'
  <2>1. UNCHANGED <<height, sm, up, net, turn>> /\ mishaps' \in 0 .. MaxMishaps
    BY <1>5, MishapCounted DEF FillLost
  <2> QED
    BY <2>1, PreservedByMessages
<1> QED
  BY <1>1, <1>2, <1>3, <1>4, <1>5, TimerInv, RestartInv, GrowthInv, DisconnectInv DEF Next

(* A fill connection is one node's own. *)
LEMMA FilledNodes == Spec => [](filled \subseteq Node)
<1>1. Init => filled \subseteq Node
  BY DEF Init
<1>2. filled \subseteq Node /\ [Next]_vars => (filled \subseteq Node)'
  <2> SUFFICES ASSUME filled \subseteq Node, [Next]_vars PROVE filled' \subseteq Node
    OBVIOUS
  <2>1. CASE UNCHANGED vars
    BY <2>1 DEF vars
  <2>2. CASE Deliver
    BY <2>2 DEF Deliver, PeerActive, SyncInfoMsg, InvMsg, ModifierRequestMsg, ModifierResponseMsg
  <2>3. ASSUME NEW n \in Node, TimerTick(n) PROVE filled' \subseteq Node
    BY <2>3 DEF TimerTick, FillDial
  <2>4. ASSUME NEW n \in Node, Restart(n) \/ FillLost(n) PROVE filled' \subseteq Node
    BY <2>4 DEF Restart, FillLost
  <2>5. ASSUME NEW n \in Node, LateStall(n) \/ Mine(n) \/ Gossip(n) PROVE filled' \subseteq Node
    BY <2>5 DEF LateStall, Mine, Gossip
  <2>6. ASSUME NEW n \in Node, NEW p \in Node, Disconnect(n, p) PROVE filled' \subseteq Node
    BY <2>6 DEF Disconnect
  <2>7. ASSUME NEW msg \in net, Lose(msg) PROVE filled' \subseteq Node
    BY <2>7 DEF Lose
  <2> QED BY <2>1, <2>2, <2>3, <2>4, <2>5, <2>6, <2>7 DEF Next
<1> QED BY <1>1, <1>2, PTL DEF Spec

(* The invariant holds throughout. *)
LEMMA Invariance == Spec => []Inv
BY InitInv, NextInv, PTL DEF Spec

(* Every reachable state is well typed, and no id of a block that no node has   *)
(* is ever announced, asked for or sent (servePeer, handleModifierRequestMsg). *)
THEOREM SyncTypeCorrect == Spec => []TypeOK
<1>1. Inv /\ filled \subseteq Node => TypeOK
  BY DEF Inv, TypeOK, Fit
<1> QED
  BY <1>1, Invariance, FilledNodes, PTL

(* Whatever ended the last conversation, a node without a sync peer waits for   *)
(* no block: nothing of it can block or answer the next one (rotatePeer,       *)
(* handlePeerDisconnect).                                                     *)
THEOREM IdleNodesClean == Spec => []IdleIsClean
<1>1. ASSUME Inv, NEW n \in Node, sm[n].phase = "idle"
      PROVE  AskedTotal(sm[n]) = 0
  <2>1. {x \in Node \X Blocks : x[2] \in sm[n].asked[x[1]]} = {}
    BY <1>1 DEF Inv, Clean
  <2> QED
    BY <2>1, FS_EmptySet DEF AskedTotal
<1>2. Inv => IdleIsClean
  BY <1>1 DEF Inv, Clean, IdleIsClean
<1> QED
  BY <1>2, Invariance, PTL

-----------------------------------------------------------------------------
(* The budget *)

LEMMA LeastIn ==
  ASSUME NEW T, T \subseteq Nat, T # {}
  PROVE  \E x \in T : \A y \in T : x <= y
<1>1. PICK x \in T : \A y \in T : <<y, x>> \notin OpToRel(<, Nat)
  BY NatLessThanWellFounded, WFMin
<1>2. \A y \in T : ~(y < x)
  BY <1>1, Zenon DEF OpToRel
<1>3. x \in Nat /\ \A y \in T : y \in Nat
  OBVIOUS
<1> QED BY <1>2, <1>3

(* The ids under a bound have a last one: the least bound.                     *)
LEMMA LastOf ==
  ASSUME NEW T \in SUBSET Blocks, T # {}
  PROVE  \E x \in T : \A y \in T : y <= x
<1> DEFINE B == {m \in 0 .. MaxHeight : \A y \in T : y <= m}
<1>1. MaxHeight \in B /\ B \subseteq Nat
  BY SyncAssumption DEF Blocks
<1>2. PICK x \in B : \A m \in B : x <= m
  BY <1>1, LeastIn
<1>3. ASSUME x \notin T PROVE FALSE
  <2>1. PICK t \in T : TRUE
    OBVIOUS
  <2>2. \A y \in T : y \in Int /\ y <= x /\ y # x /\ y >= 1
    BY <1>2, <1>3, SyncAssumption DEF Blocks
  <2>3. x \in 0 .. MaxHeight
    BY <1>2
  <2>4. x - 1 \in 0 .. MaxHeight /\ \A y \in T : y <= x - 1
    BY <2>1, <2>2, <2>3, SyncAssumption
  <2>5. x - 1 \in B
    BY <2>4
  <2> QED BY <1>2, <2>3, <2>5
<1> QED BY <1>2, <1>3

(* Take takes no more than it may: below the last id taken are fewer.           *)
LEMMA TakeBounded ==
  ASSUME NEW S \in SUBSET Blocks, NEW k \in Nat
  PROVE  IsFiniteSet(Take(S, k)) /\ Cardinality(Take(S, k)) <= k
<1> DEFINE T == Take(S, k)
<1>1. T \in SUBSET S /\ \A x \in T : Cardinality({c \in S : c < x}) < k
  BY DEF Take
<1>2. IsFiniteSet(Blocks)
  BY FS_Interval, SyncAssumption DEF Blocks
<1>3. IsFiniteSet(S)
  BY <1>2, FS_Subset
<1> HIDE DEF T
<1>4. IsFiniteSet(T) /\ Cardinality(T) \in Nat
  BY <1>1, <1>3, FS_Subset, FS_CardinalityType
<1>5. CASE T = {}
  BY <1>4, <1>5, FS_EmptySet DEF T
<1>6. CASE T # {}
  <2>1. PICK x \in T : \A y \in T : y <= x
    BY <1>1, <1>6, LastOf
  <2> DEFINE L == {c \in S : c < x}
  <2>2. T \ {x} \in SUBSET L
    <3>1. \A y \in T : y \in Int
      BY <1>1, SyncAssumption DEF Blocks
    <3> QED BY <1>1, <2>1, <3>1
  <2>3. IsFiniteSet(L) /\ Cardinality(L) < k
    <3>1. L \in SUBSET S
      OBVIOUS
    <3> QED BY <1>1, <1>3, <3>1, FS_Subset
  <2>4. Cardinality(L) \in Nat
    BY <2>3, FS_CardinalityType
  <2> HIDE DEF L
  <2>5. Cardinality(T \ {x}) <= Cardinality(L)
    BY <2>2, <2>3, FS_Subset
  <2>6. Cardinality(T \ {x}) = Cardinality(T) - 1
    BY <1>4, <2>1, FS_RemoveElement
  <2>7. Cardinality(T) <= k
    BY <1>4, <2>3, <2>4, <2>5, <2>6
  <2> QED BY <1>4, <2>7 DEF T
<1> QED BY <1>5, <1>6

(* The ids a machine waits for, with the peers it asked                        *)
Asked(m) == {x \in Node \X Blocks : x[2] \in m.asked[x[1]]}

Within(m) == IsFiniteSet(Asked(m)) /\ AskedTotal(m) <= MaxOutstanding

LEMMA TotalOf == ASSUME NEW m PROVE AskedTotal(m) = Cardinality(Asked(m))
BY DEF AskedTotal, Asked

(* Waiting for less stays within the budget.                                   *)
LEMMA LessWithin ==
  ASSUME NEW m, NEW k, Within(m), \A p \in Node : k.asked[p] \subseteq m.asked[p]
  PROVE  Within(k)
<1>1. Asked(k) \in SUBSET Asked(m)
  BY DEF Asked
<1>2. /\ IsFiniteSet(Asked(k)) /\ Cardinality(Asked(k)) <= Cardinality(Asked(m))
      /\ Cardinality(Asked(k)) \in Nat /\ Cardinality(Asked(m)) \in Nat
  BY <1>1, FS_Subset, FS_CardinalityType DEF Within
<1>3. MaxOutstanding \in Nat /\ Cardinality(Asked(m)) <= MaxOutstanding
  BY SyncAssumption, TotalOf DEF Within
<1> QED BY <1>2, <1>3, TotalOf DEF Within

(* Asking one peer for what the budget leaves stays within it.                  *)
LEMMA MoreWithin ==
  ASSUME NEW m, NEW k, Within(m), NEW p \in Node, NEW w \in SUBSET Blocks,
         IsFiniteSet(w), Cardinality(w) <= MaxOutstanding - AskedTotal(m),
         \A q \in Node : k.asked[q] = IF q = p THEN m.asked[q] \cup w ELSE m.asked[q]
  PROVE  Within(k)
<1> DEFINE new == {p} \X w
<1>1. IsFiniteSet({p}) /\ Cardinality({p}) = 1
  BY FS_Singleton
<1>2. IsFiniteSet(new) /\ Cardinality(new) = 1 * Cardinality(w) /\ Cardinality(w) \in Nat
  BY <1>1, FS_Product, FS_CardinalityType
<1>3. Asked(k) = Asked(m) \cup new
  <2>1. ASSUME NEW x \in Asked(k) PROVE x \in Asked(m) \cup new
    <3>1. x \in Node \X Blocks /\ x[2] \in k.asked[x[1]] /\ x = <<x[1], x[2]>> /\ x[1] \in Node
      BY DEF Asked
    <3>2. CASE x[2] \in m.asked[x[1]]
      BY <3>1, <3>2 DEF Asked
    <3>3. CASE x[1] = p /\ x[2] \in w
      BY <3>1, <3>3
    <3> QED BY <3>1, <3>2, <3>3
  <2>2. ASSUME NEW x \in Asked(m) \cup new PROVE x \in Asked(k)
    <3>1. x \in Node \X Blocks
      BY DEF Asked
    <3>2. x[2] \in k.asked[x[1]]
      BY <3>1 DEF Asked
    <3> QED BY <3>1, <3>2 DEF Asked
  <2> QED BY <2>1, <2>2
<1> HIDE DEF new
<1>4. IsFiniteSet(Asked(m)) /\ Cardinality(Asked(m)) \in Nat
  BY FS_CardinalityType DEF Within
<1>5. /\ IsFiniteSet(Asked(m) \cup new)
      /\ Cardinality(Asked(m) \cup new)
           = Cardinality(Asked(m)) + Cardinality(new) - Cardinality(Asked(m) \cap new)
  BY <1>2, <1>4, FS_Union
<1>6. Cardinality(Asked(m) \cap new) \in Nat
  <2>1. Asked(m) \cap new \in SUBSET Asked(m)
    OBVIOUS
  <2>2. IsFiniteSet(Asked(m) \cap new)
    BY <1>4, <2>1, FS_Subset
  <2> QED BY <2>2, FS_CardinalityType
<1>7. MaxOutstanding \in Nat /\ Cardinality(w) <= MaxOutstanding - Cardinality(Asked(m))
  BY SyncAssumption, TotalOf
<1>8. Cardinality(new) = Cardinality(w)
  BY <1>2
<1>9. Cardinality(Asked(k)) <= MaxOutstanding
  BY <1>2, <1>3, <1>4, <1>5, <1>6, <1>7, <1>8
<1> QED BY <1>3, <1>5, <1>9, TotalOf DEF Within

(* Only an announcement makes a machine ask, and only what the budget leaves.   *)
LEMMA AskingWithin ==
  ASSUME Inv, \A n \in Node : Within(sm[n]), NEW msg \in net, InvMsg(msg)
  PROVE  \A n \in Node : Within(sm'[n])
<1> DEFINE n == msg.to
           p == msg.from
           w == IF sm[n].phase = "syncing" /\ sm[n].peer = p THEN Wanted(n, p, msg.ids) ELSE {}
<1>1. n \in Node /\ p \in Node /\ msg.ids \subseteq Blocks
  <2>1. msg \in Message
    BY DEF Inv, Fit
  <2> QED BY <2>1, MessageFields DEF InvMsg
<1>2. sm' = [sm EXCEPT ![n].asked[p] = sm[n].asked[p] \cup w]
  BY DEF InvMsg
<1>3. /\ MaxOutstanding - AskedTotal(sm[n]) \in Nat /\ Within(sm[n])
      /\ sm \in [Node -> Machine]
  <2>1. Within(sm[n]) /\ sm \in [Node -> Machine]
    BY <1>1 DEF Inv
  <2>2. AskedTotal(sm[n]) \in Nat /\ AskedTotal(sm[n]) <= MaxOutstanding
    BY <2>1, TotalOf, FS_CardinalityType DEF Within
  <2> QED BY <2>1, <2>2, SyncAssumption
<1>4. /\ w \in SUBSET Blocks /\ IsFiniteSet(w)
      /\ Cardinality(w) <= MaxOutstanding - AskedTotal(sm[n])
  <2>1. CASE w = {}
    <3>1. IsFiniteSet(w) /\ Cardinality(w) = 0
      BY <2>1, FS_EmptySet
    <3> QED BY <1>3, <2>1, <3>1
  <2>2. CASE w = Wanted(n, p, msg.ids)
    <3> DEFINE fresh == {b \in msg.ids : b > height[n] /\ b \notin sm[n].asked[p]}
               k == MaxOutstanding - AskedTotal(sm[n])
    <3>1. w = Take(fresh, k) /\ fresh \in SUBSET Blocks /\ k \in Nat
      BY <1>1, <1>3, <2>2 DEF Wanted
    <3>2. Take(fresh, k) \subseteq fresh
      BY DEF Take
    <3> HIDE DEF fresh, k, w
    <3>3. IsFiniteSet(w) /\ Cardinality(w) <= k
      BY <3>1, TakeBounded
    <3> QED BY <3>1, <3>2, <3>3 DEF k
  <2> QED BY <2>1, <2>2
<1> HIDE DEF w
<1>5. \A q \in Node : sm'[n].asked[q] = IF q = p THEN sm[n].asked[q] \cup w ELSE sm[n].asked[q]
  BY <1>1, <1>2, <1>3 DEF Machine
<1>6. Within(sm'[n])
  <2> DEFINE m == sm[n]
             k == sm'[n]
  <2>1. /\ Within(m) /\ p \in Node /\ w \in SUBSET Blocks /\ IsFiniteSet(w)
        /\ Cardinality(w) <= MaxOutstanding - AskedTotal(m)
        /\ \A q \in Node : k.asked[q] = IF q = p THEN m.asked[q] \cup w ELSE m.asked[q]
    BY <1>1, <1>3, <1>4, <1>5
  <2> HIDE DEF m, k, p
  <2>2. Within(k)
    BY <2>1, MoreWithin
  <2> QED BY <2>2 DEF k
<1>7. \A q \in Node \ {n} : sm'[q] = sm[q]
  BY <1>1, <1>2, <1>3
<1> QED BY <1>1, <1>6, <1>7

(* Every other step leaves a machine waiting for the same or less.              *)
LEMMA WithinStep ==
  ASSUME Inv, \A n \in Node : Within(sm[n]), [Next]_vars
  PROVE  \A n \in Node : Within(sm'[n])
<1> DEFINE Less == \A n, p \in Node : sm'[n].asked[p] \subseteq sm[n].asked[p]
<1>0. /\ sm \in [Node -> Machine]
      /\ \A n \in Node : sm[n] \in Machine /\ sm[n].asked \in [Node -> SUBSET Blocks]
      /\ \A msg \in net : msg \in Message
  BY DEF Inv, Machine, Fit
<1>1. ASSUME UNCHANGED sm PROVE Less
  BY <1>1
<1>2. ASSUME NEW n \in Node, NEW m, sm' = [sm EXCEPT ![n] = m],
             \A p \in Node : m.asked[p] \subseteq sm[n].asked[p]
      PROVE  Less
  BY <1>0, <1>2
<1>3. ASSUME NEW n \in Node, NEW p \in Node
      PROVE  Syncing(n, p).asked = sm[n].asked
  BY <1>0 DEF Syncing, Machine
<1>4. ASSUME NEW m \in Machine, NEW p \in Node
      PROVE  /\ \A q \in Node : Rotated(m).asked[q] \subseteq m.asked[q]
             /\ \A q \in Node : Left(m, p).asked[q] \subseteq m.asked[q]
             /\ \A q \in Node : Fresh.asked[q] \subseteq m.asked[q]
  BY DEF Rotated, Left, Fresh, Machine
<1>5. ASSUME NEW msg \in net, PeerActive(msg) \/ SyncInfoMsg(msg) \/ ModifierRequestMsg(msg)
      PROVE  Less
  <2>1. msg.to \in Node /\ msg.from \in Node
    BY <1>0, MessageFields
  <2>2. CASE UNCHANGED sm
    BY <1>1, <2>2
  <2>3. CASE sm' = [sm EXCEPT ![msg.to] = Syncing(msg.to, msg.from)]
    BY <1>2, <1>3, <2>1, <2>3
  <2>4. CASE sm' = [sm EXCEPT ![msg.to].phase = "synced"]
    <3>1. sm' = [sm EXCEPT ![msg.to] = [sm[msg.to] EXCEPT !.phase = "synced"]]
      BY <1>0, <2>1, <2>4
    <3>2. [sm[msg.to] EXCEPT !.phase = "synced"].asked = sm[msg.to].asked
      BY <1>0, <2>1 DEF Machine
    <3> QED BY <1>2, <2>1, <3>1, <3>2
  <2> QED BY <1>5, <2>2, <2>3, <2>4 DEF PeerActive, SyncInfoMsg, ModifierRequestMsg
<1>6. ASSUME NEW msg \in net, ModifierResponseMsg(msg) PROVE Less
  <2> DEFINE n == msg.to
             p == msg.from
             got == msg.ids \cap sm[n].asked[p]
  <2>1. n \in Node /\ p \in Node
    BY <1>0, MessageFields
  <2>2. PICK t : sm' = [sm EXCEPT ![n].asked[p] = sm[n].asked[p] \ got, ![n].stale = t]
    BY <1>6 DEF ModifierResponseMsg
  <2>3. sm' = [sm EXCEPT ![n] = [sm[n] EXCEPT !.asked[p] = sm[n].asked[p] \ got, !.stale = t]]
    BY <1>0, <2>1, <2>2
  <2>4. [sm[n] EXCEPT !.asked[p] = sm[n].asked[p] \ got, !.stale = t].asked
          = [sm[n].asked EXCEPT ![p] = sm[n].asked[p] \ got]
    BY <1>0, <2>1 DEF Machine
  <2>5. \A q \in Node : [sm[n].asked EXCEPT ![p] = sm[n].asked[p] \ got][q] \subseteq sm[n].asked[q]
    BY <1>0, <2>1
  <2> HIDE DEF got, n
  <2> QED BY <1>2, <2>1, <2>3, <2>4, <2>5
<1>7. ASSUME NEW n \in Node, TimerTick(n) PROVE Less
  <2>1. sm' = [sm EXCEPT ![n] = Ticked(n)]
    BY <1>7 DEF TimerTick
  <2>2. \A p \in Node : Ticked(n).asked[p] \subseteq sm[n].asked[p]
    <3>1. CASE Stalled(n)
      BY <1>0, <1>4, <3>1 DEF Ticked
    <3>2. CASE ~Stalled(n)
      <4>1. [sm[n] EXCEPT !.stale = sm[n].stale + 1].asked = sm[n].asked
        BY <1>0 DEF Machine
      <4> QED BY <3>2, <4>1 DEF Ticked
    <3> QED BY <3>1, <3>2
  <2> QED BY <1>2, <2>1, <2>2
<1>8. ASSUME NEW n \in Node, LateStall(n) PROVE Less
  <2>1. sm' = [sm EXCEPT ![n] = Rotated(sm[n])]
    BY <1>8 DEF LateStall
  <2> QED BY <1>0, <1>2, <1>4, <2>1
<1>9. ASSUME NEW n \in Node, Restart(n) PROVE Less
  BY <1>0, <1>4, <1>9 DEF Restart
<1>10. ASSUME NEW n \in Node, NEW p \in Node, Disconnect(n, p) PROVE Less
  BY <1>0, <1>4, <1>10 DEF Disconnect
<1>11. ASSUME Less PROVE \A n \in Node : Within(sm'[n])
  BY <1>11, LessWithin
<1>12. CASE \E msg \in net : InvMsg(msg)
  BY <1>12, AskingWithin
<1>13. CASE \E n \in Node : FillLost(n) \/ Mine(n) \/ Gossip(n)
  BY <1>1, <1>11, <1>13 DEF FillLost, Mine, Gossip
<1>14. CASE (\E msg \in net : Lose(msg)) \/ UNCHANGED vars
  BY <1>1, <1>11, <1>14 DEF Lose, vars
<1> QED
  BY <1>5, <1>6, <1>7, <1>8, <1>9, <1>10, <1>11, <1>12, <1>13, <1>14 DEF Next, Deliver

(* Whatever a sync that ended early or changed its peer left outstanding, a    *)
(* machine never waits for more ids than its budget, over all peers it asked   *)
(* (handleInvMsg, MAX_OUTSTANDING_IDS).                                        *)
THEOREM BudgetsKept == Spec => []BudgetKept
<1>1. Init => \A n \in Node : Within(sm[n])
  <2> SUFFICES ASSUME Init, NEW n \in Node PROVE Within(sm[n])
    OBVIOUS
  <2>1. Asked(sm[n]) = {}
    BY DEF Init, Fresh, Asked
  <2>2. IsFiniteSet(Asked(sm[n])) /\ Cardinality(Asked(sm[n])) = 0
    BY <2>1, FS_EmptySet
  <2> QED BY <2>2, TotalOf, SyncAssumption DEF Within
<1>2. Inv /\ (\A n \in Node : Within(sm[n])) /\ [Next]_vars
      => (\A n \in Node : Within(sm[n]))'
  BY WithinStep
<1>3. (\A n \in Node : Within(sm[n])) => BudgetKept
  BY DEF Within, BudgetKept
<1> QED BY <1>1, <1>2, <1>3, Invariance, PTL DEF Spec
=============================================================================
