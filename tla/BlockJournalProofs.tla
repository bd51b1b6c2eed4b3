------------------------- MODULE BlockJournalProofs -------------------------
(***************************************************************************)
(* Rejecting, reverting, aborting and crashing restore the tables, for any *)
(* number of boxes, identities, blocks and mutations.                      *)
(*                                                                         *)
(* StateExact is not inductive: that a revert ends on the right tables     *)
(* rests on every journal on disk being an inverse of its block, and that  *)
(* an abort does rests on the snapshot being taken on a consistent chain.  *)
(* TablesInv says both, of the live tables and of the reorg's snapshot.    *)
(* SideInv says the same of the side tables, whose undo is not a log but a *)
(* set of rows, and ReachInv which journals the purge has to leave.         *)
(* LedgerAtomic puts them together: what is on disk implements AtomicLedger. *)
(***************************************************************************)
EXTENDS BlockJournal, TLAPS

(* j's log leads from tables s to tables t, and its undo leads back. *)
Linked(j, s, t) ==
  /\ Len(j.trail) = Len(j.mutations) + 1
  /\ j.trail[1] = s
  /\ j.trail[Len(j.trail)] = t
  /\ \A i \in 1 .. Len(j.mutations) :
       Undo(j.mutations[i], j.trail[i + 1]) = j.trail[i]

(* Every journal kept for a chain of height h inverts its block. *)
Chain(h, js, hs) ==
  /\ h \in Heights
  /\ hs \in [Heights -> HistEntry \cup {None}]
  /\ \A v \in 0 .. h : hs[v] \in HistEntry
  /\ js \in [Heights -> Journal \cup {None}]
  /\ \A v \in Heights : js[v] # None =>
       /\ 1 <= v /\ v <= h
       /\ Linked(js[v], hs[v - 1].state, hs[v].state)

BlockInv ==
  phase # "idle" =>
    /\ undo = None
    /\ open.height = height + 1 /\ height < MaxHeight
    /\ saved.state = hist[height].state
    /\ Linked(open, saved.state, state)
    /\ reorg # None => reorg.stage = "apply" /\ reorg.left > 0

RevertInv ==
  undo # None =>
    /\ reorg # None /\ reorg.stage = "revert" /\ height > reorg.fork
    /\ journals[height] # None
    /\ undo <= Len(journals[height].mutations)
    /\ state = journals[height].trail[undo + 1]

ReorgInv ==
  reorg # None => /\ Chain(outer.height, outer.journals, outer.hist)
                  /\ outer.state = outer.hist[outer.height].state

TablesInv ==
  /\ TablesTypeOK
  /\ Chain(height, journals, hist)
  /\ BlockInv
  /\ RevertInv
  /\ ReorgInv
  /\ StateExact

-----------------------------------------------------------------------------
(* What the mutations ms did to the tables, as proverFeedFromJournal sees it. *)
FedBoxes(ms, s, t) ==
  \A b \in Box :
    LET ins == b \in BoxesOf(ms, "insert")
        rem == b \in BoxesOf(ms, "remove")
    IN  /\ ins => s.box[b] = "absent"
        /\ rem /\ ~ins => s.box[b] = "unspent"
        /\ rem => t.box[b] = "spent"
        /\ ins /\ ~rem => t.box[b] = "unspent"
        /\ ~ins /\ ~rem => t.box[b] = s.box[b]

FedRecords(ms, s, t) ==
  \A id \in Identity :
    IF WritesOf(ms, id) = {} THEN t.rec[id] = s.rec[id]
    ELSE \E i \in WritesOf(ms, id) : /\ \A j \in WritesOf(ms, id) : j <= i
                                     /\ ms[i].record = t.rec[id]

(* The stored versions of a chain of height h are the trees of its blocks,    *)
(* and the block below every journal still has one.                           *)
Versioned(h, js, vs, hs) ==
  /\ vs \in [Heights -> TreeType \cup {None}]
  /\ vs[h] # None
  /\ \A v \in Heights : vs[v] # None => v <= h /\ vs[v] = Committed(hs[v].state)
  /\ \A v \in Heights \ {0} : js[v] # None => vs[v - 1] # None

TreesInv ==
  /\ TreesTypeOK
  /\ Versioned(height, journals, versions, hist)
  /\ phase # "idle" =>
       /\ saved.prover = Committed(saved.state)
       /\ FedBoxes(open.mutations, saved.state, state)
       /\ FedRecords(open.mutations, saved.state, state)
       /\ prover = IF phase = "fed" THEN Committed(state) ELSE saved.prover
  /\ reorg # None => /\ Versioned(outer.height, outer.journals, outer.versions, outer.hist)
                     /\ outer.prover = Committed(outer.state)
                     /\ reorg.stage = "revert" => prover = outer.prover
  /\ ProverCurrent

-----------------------------------------------------------------------------
(* The undo log *)

(* A mutation that can be made on the tables s. *)
Fits(m, s) ==
  /\ m.kind = "insert" => s.box[m.box] = "absent"
  /\ m.kind = "remove" => s.box[m.box] = "unspent"
  /\ m.kind = "record" => s.rec[m.id] = m.replaced

(* Doing a mutation keeps the tables well formed. *)
LEMMA DoType ==
  ASSUME NEW m \in Mutation, NEW s \in State
  PROVE  Do(m, s) \in State
BY DEF Mutation, BoxMutation, RecordMutation, State, Do, BoxStatus

(* So does undoing one. *)
LEMMA UndoType ==
  ASSUME NEW m \in Mutation, NEW s \in State
  PROVE  Undo(m, s) \in State
BY DEF Mutation, BoxMutation, RecordMutation, State, Undo, BoxStatus

(* The inverse of every primitive that fits takes it back exactly. *)
LEMMA UndoDo ==
  ASSUME NEW m \in Mutation, NEW s \in State, Fits(m, s)
  PROVE  Undo(m, Do(m, s)) = s
BY DEF Mutation, BoxMutation, RecordMutation, State, Do, Undo, Fits

(* Recording the mutation where the row changes extends the undo log. *)
LEMMA LogLinks ==
  ASSUME NEW j \in Journal, NEW s, NEW t \in State, NEW m \in Mutation,
         Linked(j, s, t), Fits(m, t)
  PROVE  /\ Log(m, j) \in Journal
         /\ Log(m, j).height = j.height
         /\ Linked(Log(m, j), s, Do(m, t))
<1> DEFINE n == Len(j.mutations)
           k == Log(m, j)
<1>1. /\ j.mutations \in Seq(Mutation) /\ j.trail \in Seq(State)
      /\ n \in Nat /\ Len(j.trail) = n + 1
      /\ j.trail[n + 1] = t
  BY DEF Journal, Linked
<1>2. Do(m, t) \in State
  BY DoType
<1>3. /\ k.mutations = Append(j.mutations, m)
      /\ k.trail = Append(j.trail, Do(m, t))
      /\ k.height = j.height
  BY <1>1 DEF Log, Journal
<1>4. k \in Journal
  <2>1. /\ Append(j.mutations, m) \in Seq(Mutation)
        /\ Append(j.trail, Do(m, t)) \in Seq(State)
    BY <1>1, <1>2
  <2>2. k = [j EXCEPT !.mutations = Append(j.mutations, m),
                      !.trail = Append(j.trail, Do(m, t))]
    BY <1>1 DEF Log
  <2> QED BY <2>1, <2>2 DEF Journal
<1>5. /\ Len(k.mutations) = n + 1 /\ Len(k.trail) = n + 2
      /\ k.trail[1] = s
      /\ k.trail[n + 2] = Do(m, t)
  BY <1>1, <1>2, <1>3 DEF Linked
<1>6. ASSUME NEW i \in 1 .. n + 1
      PROVE  Undo(k.mutations[i], k.trail[i + 1]) = k.trail[i]
  <2>1. CASE i <= n
    <3>1. k.mutations[i] = j.mutations[i] /\ k.trail[i + 1] = j.trail[i + 1]
          /\ k.trail[i] = j.trail[i]
      BY <1>1, <1>2, <1>3, <2>1
    <3> QED BY <3>1, <1>1, <2>1 DEF Linked
  <2>2. CASE i = n + 1
    <3>1. k.mutations[i] = m /\ k.trail[i + 1] = Do(m, t) /\ k.trail[i] = t
      BY <1>1, <1>2, <1>3, <2>2
    <3> QED BY <3>1, UndoDo
  <2> QED BY <2>1, <2>2, <1>1
<1> QED BY <1>3, <1>4, <1>5, <1>6 DEF Linked

-----------------------------------------------------------------------------
(* Steps inside a block *)

LEMMA PhaseDomain == DOMAIN PhaseNo = {"idle", "confirm", "prune", "txs", "settle", "fed"}
BY DEF PhaseNo

(* Whatever a step inside a block does to the tables, it keeps the invariant   *)
(* when the log of the open journal still links them to the snapshot.          *)
LEMMA InBlockStep ==
  ASSUME TablesInv, phase # "idle",
         phase' \in DOMAIN PhaseNo, phase' # "idle",
         state' \in State, side' \in Side, open' \in Journal,
         open'.height = open.height, Linked(open', saved.state, state'),
         UNCHANGED <<height, journals, undo, reorg, saved, outer, hist>>
  PROVE  TablesInv'
<1>1. TablesTypeOK'
  BY DEF TablesInv, TablesTypeOK
<1>2. BlockInv'
  BY DEF TablesInv, BlockInv, Linked
<1>3. RevertInv' /\ StateExact'
  BY DEF TablesInv, BlockInv, RevertInv, StateExact, Quiet
<1>4. Chain(height, journals, hist)' /\ ReorgInv'
  BY DEF TablesInv, Chain, ReorgInv, Linked
<1> QED BY <1>1, <1>2, <1>3, <1>4 DEF TablesInv

(* The steps that touch only the side tables and their journal fields. *)
LEMMA SideSteps ==
  ASSUME TablesInv,
         \/ \E p \in Post : ConfirmSubBlock(p)
         \/ \E ps \in SUBSET Post \ {{}} : PruneSubtree(ps)
         \/ \E l \in Like : InsertLikeRecord(l)
         \/ \E p \in Pair : InsertVouchCooldown(p) \/ DeleteVouchCooldown(p)
         \/ FeedProver
  PROVE  TablesInv'
<1> USE PhaseDomain
<1> DEFINE Same == /\ open' \in Journal /\ side' \in Side
                   /\ open'.height = open.height
                   /\ open'.mutations = open.mutations
                   /\ open'.trail = open.trail
                   /\ state' = state
<1>0. /\ phase # "idle" /\ phase' \in DOMAIN PhaseNo /\ phase' # "idle"
      /\ UNCHANGED <<state, height, journals, undo, reorg, saved, outer, hist>>
  BY DEF ConfirmSubBlock, PruneSubtree, InsertLikeRecord, InsertVouchCooldown,
         DeleteVouchCooldown, FeedProver, Enter, OutsideBlock, PhaseNo
<1>1. /\ open \in Journal /\ side \in Side /\ state \in State /\ height \in Heights
      /\ Linked(open, saved.state, state) /\ open.height \in Heights
  BY <1>0 DEF TablesInv, TablesTypeOK, BlockInv, Journal
<1>2. /\ Heights \subseteq Nat /\ NoRow \in Heights
      /\ NoRow \in Releases /\ Heights \subseteq Releases
      /\ open.height + CooldownBlocks \in Releases
  BY <1>1, BoundsAssumption DEF Heights, NoRow, Releases
<1>3. Same
  <2>1. ASSUME NEW p \in Post, ConfirmSubBlock(p) PROVE Same
    BY <2>1, <1>1, <1>2 DEF ConfirmSubBlock, Journal, Side, OutsideBlock
  <2>2. ASSUME NEW ps \in SUBSET Post, PruneSubtree(ps) PROVE Same
    BY <2>2, <1>1, <1>2 DEF PruneSubtree, Journal, Side, OutsideBlock
  <2>3. ASSUME NEW l \in Like, InsertLikeRecord(l) PROVE Same
    BY <2>3, <1>1, <1>2 DEF InsertLikeRecord, Journal, Side, OutsideBlock
  <2>4. ASSUME NEW p \in Pair, InsertVouchCooldown(p) PROVE Same
    BY <2>4, <1>1, <1>2 DEF InsertVouchCooldown, Journal, Side, OutsideBlock
  <2>5. ASSUME NEW p \in Pair, DeleteVouchCooldown(p) PROVE Same
    BY <2>5, <1>1, <1>2 DEF DeleteVouchCooldown, Journal, Side, OutsideBlock
  <2>6. ASSUME FeedProver PROVE Same
    BY <2>6, <1>1 DEF FeedProver
  <2> QED BY <2>1, <2>2, <2>3, <2>4, <2>5, <2>6
<1>4. Linked(open', saved.state, state')
  BY <1>1, <1>3 DEF Linked
<1> QED BY <1>0, <1>1, <1>3, <1>4, InBlockStep

(* The steps that change boxes and records, each with its log entry. *)
LEMMA RecordSteps ==
  ASSUME TablesInv,
         \/ \E b \in Box : InsertBox(b) \/ ConsumeBox(b)
         \/ \E id \in Identity, r \in Rest : PutIdentityRecord(id, r)
  PROVE  TablesInv'
<1> USE PhaseDomain
<1>0. /\ phase # "idle" /\ phase' \in DOMAIN PhaseNo /\ phase' # "idle"
      /\ UNCHANGED <<side, height, journals, undo, reorg, saved, outer, hist>>
  BY DEF InsertBox, ConsumeBox, PutIdentityRecord, Enter, OutsideBlock, PhaseNo
<1>1. /\ open \in Journal /\ side \in Side /\ state \in State
      /\ Linked(open, saved.state, state) /\ open.height \in Heights
  BY <1>0 DEF TablesInv, TablesTypeOK, BlockInv, Journal
<1> DEFINE Good == /\ open' \in Journal /\ state' \in State
                   /\ open'.height = open.height
                   /\ Linked(open', saved.state, state')
<1>2. ASSUME NEW m \in Mutation, Record1(m), Fits(m, state) PROVE Good
  BY <1>1, <1>2, LogLinks, DoType DEF Record1
<1>3. ASSUME NEW id \in Identity, NEW r \in Record, NEW s \in State
      PROVE  Put(id, r, s) \in Mutation /\ Fits(Put(id, r, s), s)
  BY DEF Put, Mutation, RecordMutation, Fits, State
<1>4. ASSUME NEW b \in Box, InsertBox(b) PROVE Good
  <2> DEFINE ins  == [kind |-> "insert", box |-> b]
             mid  == Do(ins, state)
             old  == state.rec[Owner[b]]
             r    == [activity |-> open.height,
                      rest |-> IF old = None THEN Rest0 ELSE old.rest]
             bump == Put(Owner[b], r, mid)
  <2>1. ins \in Mutation /\ Fits(ins, state)
    BY <1>4 DEF Mutation, BoxMutation, Fits, InsertBox
  <2>2. mid \in State
    BY <2>1, <1>1, DoType
  <2>3. CASE Owner[b] = None
    BY <2>3, <2>1, <1>2, <1>4 DEF InsertBox
  <2>4. CASE Owner[b] # None
    <3>1. Owner[b] \in Identity
      BY <2>4, SetsAssumption
    <3>2. r \in Record
      BY <3>1, <1>1, SetsAssumption DEF State, Record
    <3>3. bump \in Mutation /\ Fits(bump, mid)
      BY <3>1, <3>2, <2>2, <1>3
    <3>4. /\ Log(ins, open) \in Journal /\ Log(ins, open).height = open.height
          /\ Linked(Log(ins, open), saved.state, mid)
      BY <2>1, <1>1, LogLinks
    <3>5. /\ Log(bump, Log(ins, open)) \in Journal
          /\ Log(bump, Log(ins, open)).height = open.height
          /\ Linked(Log(bump, Log(ins, open)), saved.state, Do(bump, mid))
      <4> HIDE DEF bump, mid
      <4> QED BY <3>3, <3>4, <2>2, LogLinks
    <3>6. Do(bump, mid) \in State
      <4> HIDE DEF bump, mid
      <4> QED BY <3>3, <2>2, DoType
    <3>7. state' = Do(bump, mid) /\ open' = Log(bump, Log(ins, open))
      BY <1>4, <2>4 DEF InsertBox
    <3> QED BY <3>5, <3>6, <3>7
  <2> QED BY <2>3, <2>4
<1>5. ASSUME NEW b \in Box, ConsumeBox(b) PROVE Good
  <2>1. [kind |-> "remove", box |-> b] \in Mutation
        /\ Fits([kind |-> "remove", box |-> b], state)
    BY <1>5 DEF Mutation, BoxMutation, Fits, ConsumeBox
  <2> QED BY <2>1, <1>2, <1>5 DEF ConsumeBox
<1>6. ASSUME NEW id \in Identity, NEW r \in Rest, PutIdentityRecord(id, r) PROVE Good
  <2> DEFINE old == state.rec[id]
             rec == [activity |-> IF old = None THEN 0 ELSE old.activity, rest |-> r]
  <2>1. rec \in Record
    BY <1>1, BoundsAssumption DEF State, Record, Heights
  <2>2. Record1(Put(id, rec, state))
    BY <1>6 DEF PutIdentityRecord
  <2> HIDE DEF rec
  <2> QED BY <2>1, <2>2, <1>1, <1>2, <1>3
<1> QED BY <1>0, <1>1, <1>4, <1>5, <1>6, InBlockStep

-----------------------------------------------------------------------------
(* Steps between blocks *)

LEMMA BeginBlockStep == ASSUME TablesInv, BeginBlock PROVE TablesInv'
<1> USE PhaseDomain
<1>1. /\ state \in State /\ height + 1 \in Heights /\ undo = None
      /\ state = hist[height].state
  BY BoundsAssumption DEF TablesInv, TablesTypeOK, StateExact, Quiet, BeginBlock, Heights
<1>2. open' \in Journal /\ open'.height = height + 1
  <2>1. <<state>> \in Seq(State) /\ << >> \in Seq(Mutation)
        /\ NoRow \in Heights /\ NoRow \in Releases
    BY <1>1, BoundsAssumption DEF NoRow, Heights, Releases
  <2> QED BY <2>1, <1>1 DEF BeginBlock, NewJournal, Journal
<1>3. Linked(open', saved'.state, state')
  BY <1>1 DEF BeginBlock, NewJournal, Linked
<1>4. TablesTypeOK'
  BY <1>1, <1>2 DEF TablesInv, TablesTypeOK, BeginBlock
<1>5. BlockInv'
  BY <1>1, <1>2, <1>3 DEF TablesInv, TablesTypeOK, BlockInv, BeginBlock, ReorgType, Heights
<1>6. RevertInv' /\ StateExact' /\ ReorgInv' /\ Chain(height, journals, hist)'
  BY <1>1 DEF TablesInv, RevertInv, StateExact, Quiet, ReorgInv, Chain, Linked, BeginBlock
<1> QED BY <1>4, <1>5, <1>6 DEF TablesInv

LEMMA CommitBlockStep == ASSUME TablesInv, CommitBlock PROVE TablesInv'
<1> USE PhaseDomain
<1> DEFINE h == open.height
<1>1. /\ phase # "idle" /\ open \in Journal /\ state \in State /\ side \in Side
      /\ h = height + 1 /\ h \in Heights /\ height \in Heights /\ undo = None
      /\ Linked(open, hist[height].state, state)
  BY DEF TablesInv, TablesTypeOK, BlockInv, CommitBlock, Journal
<1>2. /\ height' = h /\ state' = state
      /\ \A v \in 0 .. height : hist'[v] = hist[v]
  BY <1>1 DEF CommitBlock, Heights
<1>3. hist'[h] = [state |-> state, side |-> side]
  BY <1>1 DEF CommitBlock, TablesInv, TablesTypeOK
<1>4. \A v \in 0 .. height' : hist'[v] \in HistEntry
  BY <1>1, <1>2, <1>3 DEF TablesInv, Chain, HistEntry, Heights
<1>5. hist' \in [Heights -> HistEntry \cup {None}]
  BY <1>1, <1>3 DEF CommitBlock, TablesInv, TablesTypeOK, HistEntry
<1>6. journals' \in [Heights -> Journal \cup {None}]
  BY <1>1 DEF CommitBlock, TablesInv, TablesTypeOK
<1>7. ASSUME NEW v \in Heights, journals'[v] # None
      PROVE  /\ 1 <= v /\ v <= height'
             /\ Linked(journals'[v], hist'[v - 1].state, hist'[v].state)
  <2>1. CASE v = h
    BY <2>1, <1>1, <1>2, <1>3 DEF CommitBlock, Heights
  <2>2. CASE v # h
    <3>1. journals'[v] = journals[v] /\ journals[v] # None
      BY <2>2, <1>7 DEF CommitBlock
    <3>2. 1 <= v /\ v <= height /\ Linked(journals[v], hist[v - 1].state, hist[v].state)
      BY <3>1 DEF TablesInv, Chain
    <3>3. hist'[v] = hist[v] /\ hist'[v - 1] = hist[v - 1]
      BY <3>2, <1>1, <1>2 DEF Heights
    <3> QED BY <3>1, <3>2, <3>3, <1>1, <1>2 DEF Heights
  <2> QED BY <2>1, <2>2
<1>8. Chain(height, journals, hist)'
  BY <1>1, <1>2, <1>4, <1>5, <1>6, <1>7 DEF Chain
<1>9. IF reorg' = None THEN reorg = None
      ELSE reorg # None /\ reorg' \in ReorgType
  <2>1. CASE reorg = None
    BY <2>1 DEF CommitBlock
  <2>2. CASE reorg # None
    <3>1. reorg \in ReorgType /\ reorg.left > 0 /\ reorg.left \in 0 .. MaxHeight
      BY <2>2, <1>1 DEF TablesInv, TablesTypeOK, BlockInv, ReorgType, Heights
    <3>2. reorg.left - 1 \in Heights
      BY <3>1, BoundsAssumption DEF Heights
    <3>3. reorg' = [reorg EXCEPT !.left = reorg.left - 1]
      BY <2>2 DEF CommitBlock
    <3>4. reorg' \in ReorgType
      BY <3>1, <3>2, <3>3 DEF ReorgType
    <3> QED BY <3>4, <2>2, NoneAssumption
  <2> QED BY <2>1, <2>2
<1>10. TablesTypeOK'
  <2>1. /\ phase' = "idle" /\ open' = None /\ saved' = None /\ undo' = None
        /\ outer' = outer /\ side' = side
    BY <1>1 DEF CommitBlock
  <2> QED BY <2>1, <1>1, <1>2, <1>5, <1>6, <1>9 DEF TablesInv, TablesTypeOK
<1>11. BlockInv' /\ RevertInv' /\ StateExact'
  BY <1>1, <1>2, <1>3 DEF CommitBlock, TablesInv, BlockInv, RevertInv, StateExact, Quiet
<1>12. ReorgInv'
  <2>1. outer' = outer /\ (reorg' # None => reorg # None)
    BY DEF CommitBlock
  <2>2. reorg # None => /\ Chain(outer.height, outer.journals, outer.hist)
                        /\ outer.state = outer.hist[outer.height].state
    BY DEF TablesInv, ReorgInv
  <2> QED BY <2>1, <2>2 DEF ReorgInv
<1> QED BY <1>8, <1>10, <1>11, <1>12 DEF TablesInv

(* Aborting a reorg puts the snapshot back. *)
LEMMA RollbackStep ==
  ASSUME TablesInv, reorg # None, RollbackReorg
  PROVE  TablesInv'
<1>1. TablesTypeOK'
  BY DEF TablesInv, ReorgInv, Chain, RollbackReorg, TablesTypeOK, PhaseNo
<1>2. Chain(height, journals, hist)'
  BY DEF TablesInv, ReorgInv, Chain, RollbackReorg, Linked
<1>3. BlockInv' /\ RevertInv' /\ ReorgInv' /\ StateExact'
  BY DEF TablesInv, BlockInv, RevertInv, ReorgInv, StateExact, Quiet, RollbackReorg
<1> QED BY <1>1, <1>2, <1>3 DEF TablesInv

LEMMA RejectBlockStep == ASSUME TablesInv, RejectBlock PROVE TablesInv'
<1>1. CASE reorg # None
  BY <1>1, RollbackStep DEF RejectBlock
<1>2. CASE reorg = None
  <2>1. TablesTypeOK'
    BY <1>2 DEF TablesInv, TablesTypeOK, BlockInv, RejectBlock, PhaseNo
  <2>2. Chain(height, journals, hist)' /\ ReorgInv'
    BY <1>2 DEF TablesInv, Chain, RejectBlock, Linked, ReorgInv
  <2>3. BlockInv' /\ RevertInv' /\ StateExact'
    BY <1>2 DEF TablesInv, BlockInv, RevertInv, StateExact, Quiet, RejectBlock
  <2> QED BY <2>1, <2>2, <2>3 DEF TablesInv
<1> QED BY <1>1, <1>2

LEMMA BeginReorgStep ==
  ASSUME TablesInv, NEW f \in Heights \ {0}, NEW n \in Heights, BeginReorg(f, n)
  PROVE  TablesInv'
<1>1. TablesTypeOK'
  <2>1. reorg' \in ReorgType /\ reorg' # None
    BY NoneAssumption DEF BeginReorg, ReorgType
  <2>2. outer'.state \in State /\ outer'.side \in Side
    BY DEF BeginReorg, TablesInv, TablesTypeOK
  <2> QED BY <2>1, <2>2 DEF TablesInv, TablesTypeOK, BeginReorg
<1>2. Chain(height, journals, hist)'
  BY DEF TablesInv, Chain, BeginReorg, Linked
<1>3. ReorgInv'
  BY DEF TablesInv, Chain, BeginReorg, ReorgInv, Linked, StateExact, Quiet
<1>4. BlockInv' /\ RevertInv' /\ StateExact'
  BY DEF TablesInv, BlockInv, RevertInv, StateExact, Quiet, BeginReorg
<1> QED BY <1>1, <1>2, <1>3, <1>4 DEF TablesInv

(* Steps of a reorg that leave the tables and the chain alone. *)
LEMMA ReorgStageSteps ==
  ASSUME TablesInv, BeginRevert \/ RollBackProver \/ CommitReorg
  PROVE  TablesInv'
<1>0. /\ UNCHANGED <<state, side, height, journals, phase, open, saved, hist>>
      /\ phase = "idle" /\ undo = None /\ reorg # None /\ reorg \in ReorgType
  BY DEF BeginRevert, RollBackProver, CommitReorg, Reverting, TablesInv, TablesTypeOK,
         RevertInv
<1>1. IF reorg' = None THEN outer' = None ELSE reorg' \in ReorgType /\ outer' = outer
  BY <1>0, NoneAssumption DEF BeginRevert, RollBackProver, CommitReorg, ReorgType
<1>2. undo' = None \/ undo' \in Nat
  BY <1>0 DEF BeginRevert, RollBackProver, CommitReorg, TablesInv, TablesTypeOK, Journal
<1>3. TablesTypeOK'
  BY <1>0, <1>1, <1>2 DEF TablesInv, TablesTypeOK
<1>4. Chain(height, journals, hist)'
  BY <1>0 DEF TablesInv, Chain, Linked
<1>5. RevertInv'
  <2>1. CASE BeginRevert
    BY <2>1, <1>0 DEF TablesInv, RevertInv, StateExact, Quiet, BeginRevert, Reverting,
                      Chain, Linked
  <2>2. CASE RollBackProver \/ CommitReorg
    BY <2>2, <1>0 DEF RevertInv, RollBackProver, CommitReorg
  <2> QED BY <2>1, <2>2
<1>6. ReorgInv'
  BY <1>0, <1>1 DEF TablesInv, ReorgInv, Chain, Linked
<1>7. BlockInv' /\ StateExact'
  BY <1>0 DEF TablesInv, BlockInv, StateExact, Quiet
<1> QED BY <1>3, <1>4, <1>5, <1>6, <1>7 DEF TablesInv

LEMMA UndoMutationStep == ASSUME TablesInv, UndoMutation PROVE TablesInv'
<1> DEFINE j == journals[height]
<1>1. /\ j \in Journal /\ undo \in 1 .. Len(j.mutations) /\ height \in Heights
      /\ state = j.trail[undo + 1] /\ phase = "idle"
      /\ Linked(j, hist[height - 1].state, hist[height].state)
  BY DEF TablesInv, TablesTypeOK, RevertInv, BlockInv, UndoMutation, Chain
<1>2. state' = j.trail[undo] /\ undo' = undo - 1
  BY <1>1 DEF UndoMutation, Linked
<1>3. j.mutations[undo] \in Mutation
  BY <1>1 DEF Journal
<1>4. state' \in State
  BY <1>3, UndoType DEF UndoMutation, TablesInv, TablesTypeOK
<1>5. undo' \in Nat /\ undo' + 1 = undo
  BY <1>1, <1>2
<1>6. TablesTypeOK'
  BY <1>4, <1>5 DEF UndoMutation, TablesInv, TablesTypeOK
<1>7. RevertInv'
  BY <1>1, <1>2, <1>5 DEF UndoMutation, TablesInv, RevertInv
<1>8. StateExact' /\ BlockInv'
  BY <1>1, <1>5, NoneAssumption DEF UndoMutation, StateExact, Quiet, BlockInv
<1>9. Chain(height, journals, hist)' /\ ReorgInv'
  BY DEF UndoMutation, TablesInv, Chain, ReorgInv, Linked
<1> QED BY <1>6, <1>7, <1>8, <1>9 DEF TablesInv

LEMMA FinishRevertStep == ASSUME TablesInv, FinishRevert PROVE TablesInv'
<1> DEFINE j == journals[height]
<1>1. /\ undo = 0 /\ undo # None /\ reorg # None /\ j # None /\ j \in Journal
      /\ height \in Heights /\ height > reorg.fork /\ reorg \in ReorgType
      /\ state = j.trail[1] /\ 1 <= height /\ phase = "idle"
      /\ Linked(j, hist[height - 1].state, hist[height].state)
  BY NoneAssumption
     DEF TablesInv, TablesTypeOK, RevertInv, BlockInv, FinishRevert, Chain
<1>2. /\ height' = height - 1 /\ height' \in Heights
      /\ state' = state /\ state = hist[height - 1].state
  BY <1>1, BoundsAssumption DEF FinishRevert, Linked, Heights
<1>3. /\ hist' \in [Heights -> HistEntry \cup {None}]
      /\ \A v \in Heights \ {height} : hist'[v] = hist[v]
      /\ hist'[height - 1] = hist[height - 1]
  <2>1. height - 1 \in Heights \ {height}
    BY <1>1, <1>2, BoundsAssumption DEF FinishRevert, Heights
  <2>2. /\ hist \in [Heights -> HistEntry \cup {None}]
        /\ hist' = [hist EXCEPT ![height] = None]
    BY DEF FinishRevert, TablesInv, Chain
  <2> QED BY <2>1, <2>2
<1>4. side' \in Side
  <2> USE DEF Side
  <2>1. side \in Side /\ NoRow \in Heights /\ NoRow \in Releases
    BY BoundsAssumption DEF TablesInv, TablesTypeOK, NoRow, Heights, Releases
  <2>2. RestoreLikes(j, side.like) \in [Like -> Heights]
    BY <1>1, <2>1 DEF RestoreLikes, Journal
  <2>3. RestoreCooldowns(j, side.cool) \in [Pair -> Releases]
    BY <1>1, <2>1 DEF RestoreCooldowns, Journal
  <2>4. [p \in Post |-> IF side.topo[p] = height THEN NoRow ELSE side.topo[p]]
          \in [Post -> Heights]
    BY <2>1
  <2>5. side.pruned \ j.confirmed \in SUBSET Post
    BY <2>1
  <2> HIDE DEF j
  <2> QED BY <2>2, <2>3, <2>4, <2>5 DEF FinishRevert, j
<1>5. journals' \in [Heights -> Journal \cup {None}]
  BY DEF FinishRevert, TablesInv, TablesTypeOK
<1>6. Chain(height, journals, hist)'
  <2>1. ASSUME NEW v \in Heights, journals'[v] # None
        PROVE  /\ 1 <= v /\ v <= height'
               /\ Linked(journals'[v], hist'[v - 1].state, hist'[v].state)
    <3>1. v # height /\ journals'[v] = journals[v]
      BY <2>1, <1>1 DEF FinishRevert, TablesInv, TablesTypeOK
    <3>2. 1 <= v /\ v <= height /\ Linked(journals[v], hist[v - 1].state, hist[v].state)
      BY <3>1, <2>1 DEF TablesInv, Chain
    <3>3. {v, v - 1} \subseteq Heights \ {height}
      BY <2>1, <3>1, <3>2, <1>1, BoundsAssumption DEF Heights
    <3>4. hist'[v] = hist[v] /\ hist'[v - 1] = hist[v - 1]
      BY <3>3, <1>3
    <3> QED BY <3>1, <3>2, <3>3, <3>4, <1>1, <1>2, BoundsAssumption DEF Heights
  <2>2. /\ hist' \in [Heights -> HistEntry \cup {None}]
        /\ \A v \in 0 .. height' : hist'[v] \in HistEntry
    <3>1. \A v \in 0 .. height' : v \in 0 .. height /\ v \in Heights \ {height}
      BY <1>1, <1>2, BoundsAssumption DEF Heights
    <3> QED BY <3>1, <1>3 DEF TablesInv, Chain
  <2> QED BY <2>1, <2>2, <1>2, <1>5 DEF Chain
<1>7. TablesTypeOK'
  BY <1>1, <1>2, <1>4, <1>5, <1>3 DEF FinishRevert, TablesInv, TablesTypeOK
<1>8. BlockInv' /\ RevertInv' /\ StateExact'
  BY <1>1, <1>2, <1>3 DEF FinishRevert, BlockInv, RevertInv, StateExact, Quiet
<1>9. ReorgInv'
  BY DEF FinishRevert, TablesInv, ReorgInv, Chain, Linked
<1> QED BY <1>6, <1>7, <1>8, <1>9 DEF TablesInv

LEMMA RestartStep == ASSUME TablesInv, Restart PROVE TablesInv'
<1>1. CASE reorg # None
  <2>1. TablesTypeOK'
    BY <1>1 DEF TablesInv, ReorgInv, Chain, Restart, TablesTypeOK, PhaseNo
  <2>2. Chain(height, journals, hist)'
    <3>1. height' = outer.height /\ journals' = outer.journals /\ hist' = outer.hist
      BY <1>1 DEF Restart
    <3>2. Chain(outer.height, outer.journals, outer.hist)
      BY <1>1 DEF TablesInv, ReorgInv
    <3> QED BY <3>1, <3>2 DEF Chain, Linked
  <2>3. BlockInv' /\ RevertInv' /\ ReorgInv' /\ StateExact'
    BY <1>1 DEF TablesInv, BlockInv, RevertInv, ReorgInv, StateExact, Quiet, Restart
  <2> QED BY <2>1, <2>2, <2>3 DEF TablesInv
<1>2. CASE reorg = None
  <2>1. TablesTypeOK'
    BY <1>2 DEF TablesInv, TablesTypeOK, Restart, PhaseNo
  <2>2. Chain(height, journals, hist)'
    <3>1. height' = height /\ journals' = journals /\ hist' = hist
      BY <1>2 DEF Restart
    <3> QED BY <3>1 DEF TablesInv, Chain, Linked
  <2>3. StateExact'
    BY <1>2 DEF TablesInv, BlockInv, RevertInv, StateExact, Quiet, Restart
  <2>4. BlockInv' /\ RevertInv' /\ ReorgInv'
    BY <1>2 DEF BlockInv, RevertInv, ReorgInv, Restart
  <2> QED BY <2>1, <2>2, <2>3, <2>4 DEF TablesInv
<1> QED BY <1>1, <1>2

LEMMA InitTables == Init => TablesInv
<1> SUFFICES ASSUME Init PROVE TablesInv
  OBVIOUS
<1>1. NoRow \in Heights /\ NoRow \in Releases /\ 0 \in Heights
  BY BoundsAssumption DEF NoRow, Heights, Releases
<1>2. state \in State /\ side \in Side
  BY <1>1 DEF Init, State, Side, BoxStatus
<1>3. hist \in [Heights -> HistEntry \cup {None}] /\ hist[0] = [state |-> state, side |-> side]
      /\ hist[0] \in HistEntry
  BY <1>1, <1>2 DEF Init, HistEntry
<1>4. journals \in [Heights -> Journal \cup {None}] /\ \A v \in Heights : journals[v] = None
  BY DEF Init
<1>5. TablesTypeOK
  BY <1>1, <1>2, <1>3, <1>4 DEF Init, TablesTypeOK, PhaseNo
<1>6. Chain(height, journals, hist)
  <2>1. height = 0 /\ 0 .. height = {0}
    BY DEF Init
  <2> QED BY <2>1, <1>1, <1>3, <1>4 DEF Chain
<1>7. BlockInv /\ RevertInv /\ ReorgInv /\ StateExact
  BY <1>3 DEF Init, BlockInv, RevertInv, ReorgInv, StateExact
<1> QED BY <1>5, <1>6, <1>7 DEF TablesInv

LEMMA TablesStep == TablesInv /\ [Next]_vars => TablesInv'
<1> SUFFICES ASSUME TablesInv, [Next]_vars PROVE TablesInv'
  OBVIOUS
<1>1. CASE BeginBlock
  BY <1>1, BeginBlockStep
<1>2. CASE \E p \in Post : ConfirmSubBlock(p)
  BY <1>2, SideSteps
<1>3. CASE \E ps \in SUBSET Post \ {{}} : PruneSubtree(ps)
  BY <1>3, SideSteps
<1>4. CASE \E b \in Box : InsertBox(b) \/ ConsumeBox(b)
  BY <1>4, RecordSteps
<1>5. CASE \E id \in Identity, r \in Rest : PutIdentityRecord(id, r)
  BY <1>5, RecordSteps
<1>6. CASE \E l \in Like : InsertLikeRecord(l)
  BY <1>6, SideSteps
<1>7. CASE \E p \in Pair : InsertVouchCooldown(p) \/ DeleteVouchCooldown(p)
  BY <1>7, SideSteps
<1>8. CASE FeedProver
  BY <1>8, SideSteps
<1>9. CASE CommitBlock
  BY <1>9, CommitBlockStep
<1>10. CASE RejectBlock
  BY <1>10, RejectBlockStep
<1>11. CASE \E f \in Heights \ {0}, n \in Heights : BeginReorg(f, n)
  BY <1>11, BeginReorgStep
<1>12. CASE BeginRevert \/ RollBackProver \/ CommitReorg
  BY <1>12, ReorgStageSteps
<1>13. CASE RevertWithoutJournal
  BY <1>13, RollbackStep DEF RevertWithoutJournal, Reverting
<1>14. CASE UndoMutation
  BY <1>14, UndoMutationStep
<1>15. CASE FinishRevert
  BY <1>15, FinishRevertStep
<1>16. CASE Restart
  BY <1>16, RestartStep
<1>17. CASE UNCHANGED vars
  BY <1>17 DEF vars, TablesInv, TablesTypeOK, Chain, BlockInv, RevertInv, ReorgInv,
               StateExact, Quiet, Linked
<1> QED BY <1>1, <1>2, <1>3, <1>4, <1>5, <1>6, <1>7, <1>8, <1>9, <1>10, <1>11, <1>12,
           <1>13, <1>14, <1>15, <1>16, <1>17 DEF Next

LEMMA TablesAlways == Spec => []TablesInv
BY InitTables, TablesStep, PTL DEF Spec

(* For any boxes, identities and bounds: whenever no block is half applied or  *)
(* half reverted, the boxes and the identity records are those the block at    *)
(* the current height left, whatever was rejected, reverted, aborted or cut    *)
(* short by a crash in between.                                                *)
THEOREM StateRestored == Spec => []StateExact
<1>1. TablesInv => StateExact
  BY DEF TablesInv
<1> QED BY <1>1, TablesAlways, PTL

-----------------------------------------------------------------------------
(* The authenticated tree follows the tables *)

LEMMA CommittedType ==
  ASSUME NEW s \in State
  PROVE  Committed(s) \in TreeType /\ Committed(s) # None
<1>1. Committed(s) \in TreeType
  BY DEF State, Committed, TreeType
<1> QED BY <1>1, NoneAssumption

LEMMA BoxesOfAppend ==
  ASSUME NEW ms \in Seq(Mutation), NEW m \in Mutation, NEW k
  PROVE  BoxesOf(Append(ms, m), k)
           = BoxesOf(ms, k) \cup (IF m.kind = k THEN {m.box} ELSE {})
<1> DEFINE ns == Append(ms, m)
           n  == Len(ms)
<1>1. /\ DOMAIN ns = 1 .. n + 1 /\ DOMAIN ms = 1 .. n /\ n \in Nat
      /\ \A i \in 1 .. n : ns[i] = ms[i]
      /\ ns[n + 1] = m
  OBVIOUS
<1> HIDE DEF ns, n
<1>2. ASSUME NEW b PROVE b \in BoxesOf(ns, k) <=> \E j \in DOMAIN ns : ns[j].kind = k /\ b = ns[j].box
  BY DEF BoxesOf
<1>3. ASSUME NEW b PROVE b \in BoxesOf(ms, k) <=> \E j \in DOMAIN ms : ms[j].kind = k /\ b = ms[j].box
  BY DEF BoxesOf
<1>4. ASSUME NEW b
      PROVE b \in BoxesOf(ns, k) <=> b \in BoxesOf(ms, k) \/ (m.kind = k /\ b = m.box)
  BY <1>1, <1>2, <1>3
<1> QED BY <1>4 DEF ns

LEMMA WritesOfAppend ==
  ASSUME NEW ms \in Seq(Mutation), NEW m \in Mutation, NEW id
  PROVE  WritesOf(Append(ms, m), id)
           = WritesOf(ms, id) \cup (IF m.kind = "record" /\ m.id = id THEN {Len(ms) + 1} ELSE {})
<1> DEFINE ns == Append(ms, m)
           n  == Len(ms)
<1>1. /\ DOMAIN ns = 1 .. n + 1 /\ DOMAIN ms = 1 .. n /\ n \in Nat
      /\ \A i \in 1 .. n : ns[i] = ms[i]
      /\ ns[n + 1] = m
  OBVIOUS
<1> HIDE DEF ns
<1>2. ASSUME NEW i
      PROVE i \in WritesOf(ns, id)
              <=> i \in WritesOf(ms, id) \/ (m.kind = "record" /\ m.id = id /\ i = n + 1)
  BY <1>1 DEF WritesOf
<1> QED BY <1>2 DEF ns

(* One more logged mutation keeps the log's net effect on every box right.     *)
LEMMA FedBoxesAppend ==
  ASSUME NEW ms \in Seq(Mutation), NEW s \in State, NEW t \in State, NEW m \in Mutation,
         FedBoxes(ms, s, t), Fits(m, t)
  PROVE  FedBoxes(Append(ms, m), s, Do(m, t))
<1> DEFINE ns == Append(ms, m)
           u  == Do(m, t)
<1>1. ASSUME NEW b \in Box
      PROVE  LET ins == b \in BoxesOf(ns, "insert")
                 rem == b \in BoxesOf(ns, "remove")
             IN  /\ ins => s.box[b] = "absent"
                 /\ rem /\ ~ins => s.box[b] = "unspent"
                 /\ rem => u.box[b] = "spent"
                 /\ ins /\ ~rem => u.box[b] = "unspent"
                 /\ ~ins /\ ~rem => u.box[b] = s.box[b]
  <2>1. /\ b \in BoxesOf(ns, "insert")
             <=> b \in BoxesOf(ms, "insert") \/ (m.kind = "insert" /\ m.box = b)
        /\ b \in BoxesOf(ns, "remove")
             <=> b \in BoxesOf(ms, "remove") \/ (m.kind = "remove" /\ m.box = b)
    BY BoxesOfAppend
  <2>2. u.box[b] = IF m.kind = "insert" /\ m.box = b THEN "unspent"
                   ELSE IF m.kind = "remove" /\ m.box = b THEN "spent" ELSE t.box[b]
    BY DEF Do, State, Mutation, BoxMutation, RecordMutation
  <2>3. /\ m.kind = "insert" /\ m.box = b => t.box[b] = "absent"
        /\ m.kind = "remove" /\ m.box = b => t.box[b] = "unspent"
    BY DEF Fits
  <2>4. /\ b \in BoxesOf(ms, "insert") => s.box[b] = "absent"
        /\ b \in BoxesOf(ms, "remove") /\ b \notin BoxesOf(ms, "insert") => s.box[b] = "unspent"
        /\ b \in BoxesOf(ms, "remove") => t.box[b] = "spent"
        /\ b \in BoxesOf(ms, "insert") /\ b \notin BoxesOf(ms, "remove") => t.box[b] = "unspent"
        /\ b \notin BoxesOf(ms, "insert") /\ b \notin BoxesOf(ms, "remove")
             => t.box[b] = s.box[b]
    BY DEF FedBoxes
  <2> HIDE DEF ns, u
  <2> QED BY <2>1, <2>2, <2>3, <2>4
<1> QED BY <1>1 DEF FedBoxes

(* ... and on every identity record.                                           *)
LEMMA FedRecordsAppend ==
  ASSUME NEW ms \in Seq(Mutation), NEW s \in State, NEW t \in State, NEW m \in Mutation,
         FedRecords(ms, s, t)
  PROVE  FedRecords(Append(ms, m), s, Do(m, t))
<1> DEFINE ns == Append(ms, m)
           u  == Do(m, t)
           n  == Len(ms)
<1>1. /\ n \in Nat /\ ns[n + 1] = m /\ \A i \in 1 .. n : ns[i] = ms[i]
  OBVIOUS
<1>2. ASSUME NEW id \in Identity
      PROVE  IF WritesOf(ns, id) = {} THEN u.rec[id] = s.rec[id]
             ELSE \E i \in WritesOf(ns, id) : /\ \A j \in WritesOf(ns, id) : j <= i
                                              /\ ns[i].record = u.rec[id]
  <2>1. WritesOf(ms, id) \subseteq 1 .. n
    BY DEF WritesOf
  <2>2. CASE m.kind = "record" /\ m.id = id
    <3>1. WritesOf(ns, id) = WritesOf(ms, id) \cup {n + 1}
      BY <2>2, WritesOfAppend
    <3>2. u.rec[id] = m.record
      BY <2>2 DEF Do, State
    <3>3. \A j \in WritesOf(ns, id) : j <= n + 1
      BY <2>1, <3>1
    <3> QED BY <3>1, <3>2, <3>3, <1>1
  <2>3. CASE ~(m.kind = "record" /\ m.id = id)
    <3>0. WritesOf(ns, id) = WritesOf(ms, id)
                               \cup (IF m.kind = "record" /\ m.id = id THEN {n + 1} ELSE {})
      BY WritesOfAppend
    <3>1. WritesOf(ns, id) = WritesOf(ms, id)
      <4> HIDE DEF ns, n
      <4> QED BY <2>3, <3>0
    <3>2. u.rec[id] = t.rec[id]
      BY <2>3 DEF Do, State, Mutation, BoxMutation, RecordMutation
    <3>3. \A i \in WritesOf(ms, id) : ns[i] = ms[i]
      BY <2>1, <1>1
    <3> HIDE DEF ns, u
    <3> QED BY <3>1, <3>2, <3>3 DEF FedRecords
  <2> QED BY <2>2, <2>3
<1> QED BY <1>2 DEF FedRecords

(* So the feed turns the tree of the old tables into the tree of the new ones. *)
LEMMA FeedExact ==
  ASSUME NEW ms \in Seq(Mutation), NEW s \in State, NEW t \in State,
         FedBoxes(ms, s, t), FedRecords(ms, s, t)
  PROVE  ApplyFeed(ms, Committed(s)) = Committed(t)
<1> DEFINE tree == Committed(s)
           I == BoxesOf(ms, "insert")
           R == BoxesOf(ms, "remove")
<1>1. ASSUME NEW b \in Box
      PROVE  b \in (tree.boxes \ (R \ I)) \cup (I \ R) <=> t.box[b] = "unspent"
  BY DEF FedBoxes, Committed
<1>2. I \ R \subseteq Box
  BY DEF BoxesOf, Mutation, BoxMutation, RecordMutation
<1>3. (tree.boxes \ (R \ I)) \cup (I \ R) = {b \in Box : t.box[b] = "unspent"}
  BY <1>1, <1>2 DEF Committed
<1>4. ASSUME NEW id \in Identity
      PROVE  t.rec[id] = IF WritesOf(ms, id) = {} THEN tree.records[id]
                         ELSE ms[CHOOSE i \in WritesOf(ms, id) :
                                   \A j \in WritesOf(ms, id) : j <= i].record
  <2>1. CASE WritesOf(ms, id) = {}
    BY <2>1 DEF FedRecords, Committed
  <2>2. CASE WritesOf(ms, id) # {}
    <3> DEFINE Last(i) == \A j \in WritesOf(ms, id) : j <= i
               last == CHOOSE i \in WritesOf(ms, id) : Last(i)
    <3>1. PICK i \in WritesOf(ms, id) : Last(i) /\ ms[i].record = t.rec[id]
      BY <2>2 DEF FedRecords
    <3>2. last \in WritesOf(ms, id) /\ Last(last)
      BY <3>1
    <3>3. last = i
      BY <3>1, <3>2 DEF WritesOf
    <3> QED BY <2>2, <3>1, <3>3
  <2> QED BY <2>1, <2>2
<1>5. [id \in Identity |->
         IF WritesOf(ms, id) = {} THEN tree.records[id]
         ELSE ms[CHOOSE i \in WritesOf(ms, id) : \A j \in WritesOf(ms, id) : j <= i].record]
      = t.rec
  BY <1>4 DEF State
<1> QED BY <1>3, <1>5 DEF ApplyFeed, Committed

-----------------------------------------------------------------------------
(* Every step keeps the tree and its stored versions right *)

(* The mutation phase is over once the prover has been fed. *)
LEMMA EnterPhase ==
  ASSUME phase \in DOMAIN PhaseNo, NEW p \in {"confirm", "prune", "txs", "settle"}, Enter(p)
  PROVE  phase # "idle" /\ phase # "fed" /\ phase' # "idle" /\ phase' # "fed"
BY PhaseDomain DEF Enter, PhaseNo

(* The steps that log a mutation. *)
LEMMA RecordTrees ==
  ASSUME TablesInv, TreesInv,
         \/ \E b \in Box : InsertBox(b) \/ ConsumeBox(b)
         \/ \E id \in Identity, r \in Rest : PutIdentityRecord(id, r)
  PROVE  TreesInv'
<1> DEFINE Fed(ms, t) == FedBoxes(ms, saved.state, t) /\ FedRecords(ms, saved.state, t)
<1>0. /\ phase # "idle" /\ phase # "fed" /\ phase' # "idle" /\ phase' # "fed"
      /\ UNCHANGED <<side, height, journals, versions, prover, undo, reorg, saved, outer, hist>>
  BY EnterPhase DEF TablesInv, TablesTypeOK, InsertBox, ConsumeBox, PutIdentityRecord,
                    OutsideBlock
<1>1. /\ open \in Journal /\ state \in State /\ saved.state \in State
      /\ open.mutations \in Seq(Mutation) /\ open.height \in Heights
      /\ Fed(open.mutations, state)
  BY <1>0 DEF TablesInv, TablesTypeOK, TreesInv, Journal
<1>2. ASSUME NEW j \in Journal, NEW t \in State, NEW m \in Mutation, Fits(m, t),
             Fed(j.mutations, t)
      PROVE  Log(m, j).mutations \in Seq(Mutation) /\ Fed(Log(m, j).mutations, Do(m, t))
  <2>1. Log(m, j).mutations = Append(j.mutations, m) /\ j.mutations \in Seq(Mutation)
    BY DEF Log, Journal
  <2>2. Fed(Append(j.mutations, m), Do(m, t))
    BY <2>1, <1>1, <1>2, FedBoxesAppend, FedRecordsAppend
  <2> QED BY <2>1, <2>2
<1>3. ASSUME NEW id \in Identity, NEW r \in Record, NEW s \in State
      PROVE  Put(id, r, s) \in Mutation /\ Fits(Put(id, r, s), s)
  BY DEF Put, Mutation, RecordMutation, Fits, State
<1>4. ASSUME NEW b \in Box, InsertBox(b) PROVE Fed(open'.mutations, state')
  <2> DEFINE ins  == [kind |-> "insert", box |-> b]
             mid  == Do(ins, state)
             old  == state.rec[Owner[b]]
             r    == [activity |-> open.height,
                      rest |-> IF old = None THEN Rest0 ELSE old.rest]
             bump == Put(Owner[b], r, mid)
  <2>1. ins \in Mutation /\ Fits(ins, state) /\ mid \in State
    BY <1>1, <1>4, DoType DEF Mutation, BoxMutation, Fits, InsertBox
  <2>2. Fed(Log(ins, open).mutations, mid)
    BY <2>1, <1>1, <1>2
  <2>3. CASE Owner[b] = None
    BY <2>2, <2>3, <1>4 DEF InsertBox, Record1
  <2>4. CASE Owner[b] # None
    <3>1. Owner[b] \in Identity /\ r \in Record
      BY <2>4, <1>1, SetsAssumption DEF State, Record
    <3>2. bump \in Mutation /\ Fits(bump, mid)
      BY <3>1, <2>1, <1>3
    <3>3. Log(ins, open) \in Journal
      BY <2>1, <1>0, <1>1, LogLinks DEF TablesInv, BlockInv
    <3>4. Fed(Log(bump, Log(ins, open)).mutations, Do(bump, mid))
      <4> HIDE DEF bump, mid, ins
      <4> QED BY <3>2, <3>3, <2>1, <2>2, <1>2
    <3>5. state' = Do(bump, mid) /\ open' = Log(bump, Log(ins, open))
      BY <1>4, <2>4 DEF InsertBox
    <3> QED BY <3>4, <3>5
  <2> QED BY <2>3, <2>4
<1>5. ASSUME NEW b \in Box, ConsumeBox(b) PROVE Fed(open'.mutations, state')
  <2>1. [kind |-> "remove", box |-> b] \in Mutation
        /\ Fits([kind |-> "remove", box |-> b], state)
    BY <1>5 DEF Mutation, BoxMutation, Fits, ConsumeBox
  <2> QED BY <2>1, <1>1, <1>2, <1>5 DEF ConsumeBox, Record1
<1>6. ASSUME NEW id \in Identity, NEW r \in Rest, PutIdentityRecord(id, r)
      PROVE  Fed(open'.mutations, state')
  <2> DEFINE old == state.rec[id]
             rec == [activity |-> IF old = None THEN 0 ELSE old.activity, rest |-> r]
  <2>1. rec \in Record
    BY <1>1, BoundsAssumption DEF State, Record, Heights
  <2>2. Record1(Put(id, rec, state))
    BY <1>6 DEF PutIdentityRecord
  <2> HIDE DEF rec
  <2> QED BY <2>1, <2>2, <1>1, <1>2, <1>3 DEF Record1
<1>7. Fed(open'.mutations, state')
  BY <1>4, <1>5, <1>6
<1>8. TreesTypeOK' /\ Versioned(height, journals, versions, hist)'
  BY <1>0 DEF TreesInv, TreesTypeOK, Versioned, Committed
<1>9. (reorg # None => /\ Versioned(outer.height, outer.journals, outer.versions, outer.hist)
                       /\ outer.prover = Committed(outer.state)
                       /\ reorg.stage = "revert" => prover = outer.prover)'
  BY <1>0 DEF TreesInv, Versioned, Committed
<1>10. ProverCurrent'
  BY <1>0 DEF ProverCurrent, Quiet
<1> QED BY <1>0, <1>7, <1>8, <1>9, <1>10 DEF TreesInv, Committed

(* The steps that touch only the side tables. *)
LEMMA SideTrees ==
  ASSUME TablesInv, TreesInv,
         \/ \E p \in Post : ConfirmSubBlock(p)
         \/ \E ps \in SUBSET Post \ {{}} : PruneSubtree(ps)
         \/ \E l \in Like : InsertLikeRecord(l)
         \/ \E p \in Pair : InsertVouchCooldown(p) \/ DeleteVouchCooldown(p)
  PROVE  TreesInv'
<1>0. /\ phase # "idle" /\ phase # "fed" /\ phase' # "idle" /\ phase' # "fed"
      /\ UNCHANGED <<state, height, journals, versions, prover, undo, reorg, saved, outer, hist>>
  BY EnterPhase DEF TablesInv, TablesTypeOK, ConfirmSubBlock, PruneSubtree, InsertLikeRecord,
                    InsertVouchCooldown, DeleteVouchCooldown, OutsideBlock
<1>1. open \in Journal
  BY <1>0 DEF TablesInv, TablesTypeOK
<1>2. open'.mutations = open.mutations
  BY <1>1 DEF ConfirmSubBlock, PruneSubtree, InsertLikeRecord, InsertVouchCooldown,
         DeleteVouchCooldown, Journal
<1>3. TreesTypeOK' /\ Versioned(height, journals, versions, hist)' /\ ProverCurrent'
  BY <1>0 DEF TreesInv, TreesTypeOK, Versioned, Committed, ProverCurrent, Quiet
<1>4. (reorg # None => /\ Versioned(outer.height, outer.journals, outer.versions, outer.hist)
                       /\ outer.prover = Committed(outer.state)
                       /\ reorg.stage = "revert" => prover = outer.prover)'
  BY <1>0 DEF TreesInv, Versioned, Committed
<1>5. (/\ FedBoxes(open.mutations, saved.state, state)
       /\ FedRecords(open.mutations, saved.state, state))'
  BY <1>0, <1>2 DEF TreesInv, FedBoxes, FedRecords
<1> QED BY <1>0, <1>3, <1>4, <1>5 DEF TreesInv, Committed

LEMMA FeedProverTrees ==
  ASSUME TablesInv, TreesInv, FeedProver
  PROVE  TreesInv'
<1>1. /\ open \in Journal /\ state \in State /\ saved.state \in State
      /\ open.mutations \in Seq(Mutation)
      /\ FedBoxes(open.mutations, saved.state, state)
      /\ FedRecords(open.mutations, saved.state, state)
      /\ prover = Committed(saved.state)
      /\ phase # "idle" /\ phase' = "fed"
  BY DEF TablesInv, TablesTypeOK, TreesInv, Journal, FeedProver
<1>2. prover' = Committed(state) /\ prover' \in TreeType
  BY <1>1, FeedExact, CommittedType DEF FeedProver
<1>3. UNCHANGED <<state, height, journals, versions, open, undo, reorg, saved, outer, hist>>
  BY DEF FeedProver
<1>4. TreesTypeOK' /\ Versioned(height, journals, versions, hist)' /\ ProverCurrent'
  BY <1>1, <1>2, <1>3 DEF TreesInv, TreesTypeOK, Versioned, Committed, ProverCurrent, Quiet
<1>5. (reorg # None => /\ Versioned(outer.height, outer.journals, outer.versions, outer.hist)
                       /\ outer.prover = Committed(outer.state)
                       /\ reorg.stage = "revert" => prover = outer.prover)'
  BY <1>1, <1>3 DEF TablesInv, BlockInv, TreesInv, Versioned, Committed
<1>6. (phase # "idle" =>
        /\ saved.prover = Committed(saved.state)
        /\ FedBoxes(open.mutations, saved.state, state)
        /\ FedRecords(open.mutations, saved.state, state)
        /\ prover = IF phase = "fed" THEN Committed(state) ELSE saved.prover)'
  BY <1>1, <1>2, <1>3 DEF TreesInv, FedBoxes, FedRecords, Committed
<1> QED BY <1>4, <1>5, <1>6 DEF TreesInv

LEMMA BeginBlockTrees ==
  ASSUME TablesInv, TreesInv, BeginBlock
  PROVE  TreesInv'
<1>1. /\ prover = Committed(state) /\ phase = "idle" /\ phase' = "confirm"
      /\ UNCHANGED <<state, height, journals, versions, prover, undo, reorg, outer, hist>>
      /\ saved' = [state |-> state, side |-> side, prover |-> prover]
      /\ open'.mutations = << >>
      /\ reorg # None => reorg.stage = "apply"
  BY DEF BeginBlock, TreesInv, ProverCurrent, Quiet, NewJournal
<1>2. FedBoxes(<< >>, state, state) /\ FedRecords(<< >>, state, state)
  BY DEF FedBoxes, FedRecords, BoxesOf, WritesOf
<1>3. (/\ FedBoxes(open.mutations, saved.state, state)
       /\ FedRecords(open.mutations, saved.state, state))'
  BY <1>1, <1>2 DEF FedBoxes, FedRecords
<1>4. TreesTypeOK' /\ Versioned(height, journals, versions, hist)' /\ ProverCurrent'
  BY <1>1 DEF TreesInv, TreesTypeOK, Versioned, Committed, ProverCurrent, Quiet
<1>5. (reorg # None => /\ Versioned(outer.height, outer.journals, outer.versions, outer.hist)
                       /\ outer.prover = Committed(outer.state)
                       /\ reorg.stage = "revert" => prover = outer.prover)'
  BY <1>1 DEF TreesInv, Versioned, Committed
<1> QED BY <1>1, <1>3, <1>4, <1>5 DEF TreesInv, Committed

LEMMA CommitBlockTrees ==
  ASSUME TablesInv, TreesInv, CommitBlock
  PROVE  TreesInv'
<1> DEFINE h == open.height
<1>1. /\ phase = "fed" /\ h = height + 1 /\ h \in Heights /\ height \in Heights
      /\ state \in State /\ prover = Committed(state) /\ prover \in TreeType /\ prover # None
      /\ height' = h /\ state' = state /\ prover' = prover
      /\ phase' = "idle" /\ outer' = outer
  BY CommittedType
     DEF TablesInv, TablesTypeOK, BlockInv, TreesInv, CommitBlock, Journal
<1>2. /\ \A v \in Heights : hist'[v] = IF v = h THEN [state |-> state, side |-> side]
                                       ELSE hist[v]
      /\ \A v \in Heights : versions'[v] = IF v = h THEN prover
                                           ELSE IF v < h - ProofHistory THEN None
                                           ELSE versions[v]
      /\ \A v \in Heights : journals'[v] = IF v = h THEN open
                                           ELSE IF v < h - JournalWindow THEN None
                                           ELSE journals[v]
  BY DEF CommitBlock, Purged, TablesInv, TablesTypeOK
<1>3. TreesTypeOK'
  BY <1>1 DEF CommitBlock, TreesInv, TreesTypeOK
<1>4. Versioned(height, journals, versions, hist)'
  <2>1. versions'[height'] # None
    BY <1>1, <1>2
  <2>2. ASSUME NEW v \in Heights, versions'[v] # None
        PROVE  v <= height' /\ versions'[v] = Committed(hist'[v].state)
    <3>1. CASE v = h
      BY <3>1, <1>1, <1>2 DEF Heights
    <3>2. CASE v # h
      <4>1. versions'[v] = versions[v] /\ versions[v] # None /\ hist'[v] = hist[v]
        BY <3>2, <2>2, <1>2
      <4>2. v <= height /\ versions[v] = Committed(hist[v].state)
        BY <4>1 DEF TreesInv, Versioned
      <4> QED BY <4>1, <4>2, <1>1 DEF Heights
    <3> QED BY <3>1, <3>2
  <2>3. ASSUME NEW v \in Heights \ {0}, journals'[v] # None
        PROVE  versions'[v - 1] # None
    <3>1. JournalWindow \in Nat \ {0} /\ ProofHistory \in Nat /\ JournalWindow < ProofHistory
      BY BoundsAssumption, WindowAssumption
    <3>2. v - 1 \in Heights
      BY BoundsAssumption DEF Heights
    <3>3. CASE v = h
      BY <3>1, <3>2, <3>3, <1>1, <1>2 DEF TreesInv, Versioned, Heights
    <3>4. CASE v # h
      <4>1. ~(v < h - JournalWindow) /\ journals[v] # None
        BY <3>4, <2>3, <1>2
      <4>2. v <= height /\ versions[v - 1] # None
        BY <4>1 DEF TablesInv, Chain, TreesInv, Versioned
      <4>3. v - 1 # h /\ ~(v - 1 < h - ProofHistory)
        BY <4>1, <4>2, <3>1, <1>1 DEF Heights
      <4> QED BY <4>2, <4>3, <3>2, <1>2
    <3> QED BY <3>3, <3>4
  <2>4. \A v \in Heights : versions'[v] # None =>
          v <= height' /\ versions'[v] = Committed(hist[v].state)'
    BY <2>2 DEF Committed
  <2> QED BY <2>1, <2>3, <2>4, <1>3 DEF Versioned, Committed, TreesTypeOK
<1>5. ProverCurrent'
  BY <1>1 DEF ProverCurrent, Committed
<1>6. (reorg # None => /\ Versioned(outer.height, outer.journals, outer.versions, outer.hist)
                       /\ outer.prover = Committed(outer.state)
                       /\ reorg.stage = "revert" => prover = outer.prover)'
  <2>1. reorg' # None => reorg # None /\ reorg'.stage = "apply"
    BY <1>1 DEF CommitBlock, TablesInv, TablesTypeOK, BlockInv, ReorgType
  <2> QED BY <2>1, <1>1 DEF TreesInv, Versioned, Committed
<1> QED BY <1>1, <1>3, <1>4, <1>5, <1>6 DEF TreesInv

LEMMA RollbackTrees ==
  ASSUME TablesInv, TreesInv, reorg # None, RollbackReorg
  PROVE  TreesInv'
<1>1. /\ Versioned(outer.height, outer.journals, outer.versions, outer.hist)
      /\ outer.prover = Committed(outer.state)
  BY DEF TreesInv
<1>2. outer.state \in State
  BY DEF TablesInv, TablesTypeOK
<1>3. outer.prover \in TreeType /\ outer.versions \in [Heights -> TreeType \cup {None}]
  BY <1>1, <1>2, CommittedType DEF Versioned
<1>4. /\ state' = outer.state /\ height' = outer.height /\ journals' = outer.journals
      /\ versions' = outer.versions /\ hist' = outer.hist /\ prover' = outer.prover
      /\ phase' = "idle" /\ reorg' = None
  BY DEF RollbackReorg
<1>5. TreesTypeOK' /\ Versioned(height, journals, versions, hist)' /\ ProverCurrent'
  BY <1>1, <1>3, <1>4 DEF TreesTypeOK, Versioned, Committed, ProverCurrent
<1> QED BY <1>4, <1>5 DEF TreesInv

LEMMA RejectBlockTrees ==
  ASSUME TablesInv, TreesInv, RejectBlock
  PROVE  TreesInv'
<1>1. CASE reorg # None
  BY <1>1, RollbackTrees DEF RejectBlock
<1>2. CASE reorg = None
  <2>1. /\ state' = saved.state /\ prover' = saved.prover /\ phase' = "idle" /\ reorg' = None
        /\ UNCHANGED <<height, journals, versions, hist>>
        /\ saved.prover = Committed(saved.state) /\ saved.state \in State
    BY <1>2 DEF RejectBlock, TreesInv, TablesInv, TablesTypeOK
  <2>2. prover' \in TreeType
    BY <2>1, CommittedType
  <2>3. TreesTypeOK' /\ Versioned(height, journals, versions, hist)' /\ ProverCurrent'
    BY <2>1, <2>2 DEF TreesInv, TreesTypeOK, Versioned, Committed, ProverCurrent
  <2> QED BY <2>1, <2>3 DEF TreesInv
<1> QED BY <1>1, <1>2

LEMMA BeginReorgTrees ==
  ASSUME TablesInv, TreesInv, NEW f \in Heights \ {0}, NEW n \in Heights, BeginReorg(f, n)
  PROVE  TreesInv'
<1>1. /\ phase = "idle" /\ prover = Committed(state)
      /\ UNCHANGED <<state, height, journals, versions, prover, phase, open, saved, hist, undo>>
      /\ outer'.state = state /\ outer'.height = height /\ outer'.hist = hist
      /\ outer'.journals = journals /\ outer'.versions = versions /\ outer'.prover = prover
      /\ reorg' # None /\ reorg'.stage = "revert"
  BY NoneAssumption DEF BeginReorg, ReorgType, TreesInv, ProverCurrent, Quiet
<1>2. TreesTypeOK' /\ Versioned(height, journals, versions, hist)' /\ ProverCurrent'
  BY <1>1 DEF TreesInv, TreesTypeOK, Versioned, Committed, ProverCurrent
<1>3. Versioned(outer.height, outer.journals, outer.versions, outer.hist)'
  BY <1>1 DEF TreesInv, Versioned, Committed
<1>4. (outer.prover = Committed(outer.state))' /\ prover' = outer'.prover
  BY <1>1 DEF Committed
<1> QED BY <1>1, <1>2, <1>3, <1>4 DEF TreesInv

LEMMA RevertTrees ==
  ASSUME TablesInv, TreesInv, BeginRevert \/ UndoMutation \/ FinishRevert \/ CommitReorg
  PROVE  TreesInv'
<1>1. /\ phase = "idle" /\ phase' = "idle" /\ reorg # None
      /\ prover' = prover
      /\ \A v \in Heights : v # height \/ ~FinishRevert => hist'[v] = hist[v]
      /\ reorg' # None => reorg' = reorg /\ outer' = outer
      /\ reorg' # None => reorg.stage = "revert"
  BY NoneAssumption
     DEF TablesInv, TablesTypeOK, BlockInv, RevertInv, BeginRevert, UndoMutation,
         FinishRevert, CommitReorg, Reverting, Chain
<1>2. TreesTypeOK' /\ Versioned(height, journals, versions, hist)'
  <2>1. CASE BeginRevert \/ UndoMutation \/ CommitReorg
    <3>1. UNCHANGED <<height, journals, versions, prover, hist>>
      BY <2>1 DEF BeginRevert, UndoMutation, CommitReorg
    <3> QED BY <3>1 DEF TreesInv, TreesTypeOK, Versioned, Committed
  <2>2. CASE FinishRevert
    <3>1. /\ journals[height] # None /\ height \in Heights \ {0} /\ height' = height - 1
          /\ journals \in [Heights -> Journal \cup {None}]
          /\ versions \in [Heights -> TreeType \cup {None}]
      BY <2>2, NoneAssumption
         DEF FinishRevert, TablesInv, TablesTypeOK, RevertInv, ReorgType, TreesInv,
             TreesTypeOK, Heights
    <3>2. /\ \A v \in Heights : versions'[v] = IF v = height THEN None ELSE versions[v]
          /\ \A v \in Heights : journals'[v] = IF v = height THEN None ELSE journals[v]
          /\ versions' \in [Heights -> TreeType \cup {None}]
      BY <2>2, <3>1 DEF FinishRevert
    <3>3. versions'[height'] # None
      <4>1. versions[height - 1] # None /\ height - 1 \in Heights /\ height - 1 # height
        BY <3>1, BoundsAssumption DEF TreesInv, Versioned, Heights
      <4> QED BY <4>1, <3>1, <3>2
    <3>4. ASSUME NEW v \in Heights, versions'[v] # None
          PROVE  v <= height' /\ versions'[v] = Committed(hist[v].state)'
      <4>1. v # height /\ versions[v] # None /\ versions'[v] = versions[v]
        BY <3>2, <3>4
      <4>2. v <= height /\ versions[v] = Committed(hist[v].state)
        BY <4>1 DEF TreesInv, Versioned
      <4>3. hist'[v] = hist[v]
        BY <4>1, <1>1
      <4> QED BY <4>1, <4>2, <4>3, <3>1 DEF Committed, Heights
    <3>5. ASSUME NEW v \in Heights \ {0}, journals'[v] # None
          PROVE  versions'[v - 1] # None
      <4>1. v # height /\ journals[v] # None
        BY <3>2, <3>5
      <4>2. v <= height /\ versions[v - 1] # None /\ v - 1 \in Heights /\ v - 1 # height
        BY <4>1, <3>1, BoundsAssumption DEF TablesInv, Chain, TreesInv, Versioned, Heights
      <4> QED BY <4>2, <3>2
    <3>6. TreesTypeOK'
      BY <3>2, <1>1 DEF TreesInv, TreesTypeOK
    <3> QED BY <3>2, <3>3, <3>4, <3>5, <3>6 DEF Versioned, Committed
  <2> QED BY <2>1, <2>2
<1>3. ProverCurrent'
  <2>1. CASE CommitReorg
    BY <2>1 DEF CommitReorg, TreesInv, ProverCurrent, Quiet, Committed, TablesInv, RevertInv
  <2>2. CASE BeginRevert \/ UndoMutation \/ FinishRevert
    <3>1. reorg' = reorg /\ reorg.stage = "revert"
      BY <2>2, NoneAssumption
         DEF TablesInv, RevertInv, BeginRevert, UndoMutation, FinishRevert, Reverting
    <3> QED BY <3>1, <1>1 DEF ProverCurrent
  <2> QED BY <2>1, <2>2
<1>4. (reorg # None => /\ Versioned(outer.height, outer.journals, outer.versions, outer.hist)
                       /\ outer.prover = Committed(outer.state)
                       /\ reorg.stage = "revert" => prover = outer.prover)'
  BY <1>1 DEF TreesInv, Versioned, Committed
<1> QED BY <1>1, <1>2, <1>3, <1>4 DEF TreesInv

(* With a version row at h and none above, h's is the one found.               *)
LEMMA LatestVersion ==
  ASSUME NEW vs, NEW h \in Heights, NEW k \in Heights, h <= k, vs[h] # None,
         \A v \in Heights : vs[v] # None => v <= h
  PROVE  VersionAtOrBefore(k, vs) = vs[h]
<1> DEFINE rows == {v \in 0 .. k : vs[v] # None}
           Last(v) == \A w \in rows : w <= v
<1>1. h \in rows /\ Last(h)
  BY BoundsAssumption DEF Heights
<1>2. ASSUME NEW v \in rows, Last(v) PROVE v = h
  BY <1>1, <1>2, BoundsAssumption DEF Heights
<1>3. (CHOOSE v \in rows : Last(v)) = h
  BY <1>1, <1>2
<1> QED BY <1>1, <1>3 DEF VersionAtOrBefore

LEMMA RollBackProverTrees ==
  ASSUME TablesInv, TreesInv, RollBackProver
  PROVE  TreesInv'
<1>1. /\ phase = "idle" /\ undo = None /\ state = hist[height].state /\ reorg # None
      /\ UNCHANGED <<state, height, journals, versions, phase, outer, hist>>
      /\ height \in Heights /\ versions[height] # None
      /\ versions[height] = Committed(hist[height].state)
      /\ reorg' = [reorg EXCEPT !.stage = "apply"] /\ reorg \in ReorgType
  BY DEF RollBackProver, Reverting, TablesInv, TablesTypeOK, StateExact, Quiet, TreesInv,
         Versioned
<1>2. VersionAtOrBefore(height, versions) = versions[height]
  BY <1>1, LatestVersion DEF TreesInv, Versioned, Heights
<1>3. prover' = Committed(state) /\ prover' \in TreeType
  BY <1>1, <1>2, CommittedType DEF RollBackProver, TablesInv, TablesTypeOK
<1>4. TreesTypeOK' /\ Versioned(height, journals, versions, hist)' /\ ProverCurrent'
  BY <1>1, <1>3 DEF TreesInv, TreesTypeOK, Versioned, Committed, ProverCurrent
<1>5. reorg'.stage = "apply"
  BY <1>1 DEF ReorgType
<1>6. (reorg # None => /\ Versioned(outer.height, outer.journals, outer.versions, outer.hist)
                       /\ outer.prover = Committed(outer.state)
                       /\ reorg.stage = "revert" => prover = outer.prover)'
  BY <1>1, <1>5 DEF TreesInv, Versioned, Committed
<1> QED BY <1>1, <1>4, <1>6 DEF TreesInv

LEMMA RestartTrees ==
  ASSUME TablesInv, TablesInv', TreesInv, Restart
  PROVE  TreesInv'
<1>1. phase' = "idle" /\ reorg' = None /\ undo' = None
  BY DEF Restart
<1>2. Versioned(height, journals, versions, hist)'
      /\ versions' \in [Heights -> TreeType \cup {None}]
  <2>1. CASE reorg # None
    <3>1. height' = outer.height /\ journals' = outer.journals
          /\ versions' = outer.versions /\ hist' = outer.hist
      BY <2>1 DEF Restart
    <3> QED BY <2>1, <3>1 DEF TreesInv, Versioned, Committed
  <2>2. CASE reorg = None
    <3>1. UNCHANGED <<height, journals, versions, hist>>
      BY <2>2 DEF Restart
    <3> QED BY <3>1 DEF TreesInv, TreesTypeOK, Versioned, Committed
  <2> QED BY <2>1, <2>2
<1>3. height' \in Heights /\ MaxHeight \in Heights /\ height' <= MaxHeight
      /\ state' = hist'[height'].state /\ state' \in State
  BY <1>1, BoundsAssumption DEF TablesInv, TablesTypeOK, StateExact, Quiet, Heights
<1>4. /\ versions'[height'] # None
      /\ \A v \in Heights : versions'[v] # None => v <= height'
      /\ versions'[height'] = Committed(hist[height].state)'
  BY <1>2, <1>3 DEF Versioned
<1>5. VersionAtOrBefore(MaxHeight, versions') = versions'[height']
  BY <1>3, <1>4, LatestVersion
<1>6. prover' = Committed(state)' /\ prover' \in TreeType
  <2>1. prover' = versions'[height']
    BY <1>5 DEF Restart
  <2>2. Committed(state)' = Committed(hist[height].state)'
    BY <1>3 DEF Committed
  <2> QED BY <2>1, <2>2, <1>2, <1>3, <1>4
<1>7. TreesTypeOK' /\ ProverCurrent'
  BY <1>2, <1>6 DEF TreesTypeOK, ProverCurrent
<1> QED BY <1>1, <1>2, <1>7 DEF TreesInv

LEMMA InitTrees == Init => TreesInv
<1> SUFFICES ASSUME Init PROVE TreesInv
  OBVIOUS
<1>1. state \in State /\ 0 \in Heights
  BY InitTables, BoundsAssumption DEF TablesInv, TablesTypeOK, Heights
<1>2. prover = Committed(state) /\ prover \in TreeType /\ prover # None
  BY <1>1, CommittedType DEF Init
<1>3. /\ versions = [v \in Heights |-> IF v = 0 THEN prover ELSE None]
      /\ hist[0].state = state /\ height = 0
      /\ \A v \in Heights : journals[v] = None
      /\ phase = "idle" /\ reorg = None
  BY <1>1 DEF Init
<1>4. TreesTypeOK /\ Versioned(height, journals, versions, hist)
  BY <1>1, <1>2, <1>3 DEF TreesTypeOK, Versioned
<1> QED BY <1>2, <1>3, <1>4 DEF TreesInv, ProverCurrent

LEMMA TreesStep == TablesInv /\ TablesInv' /\ TreesInv /\ [Next]_vars => TreesInv'
<1> SUFFICES ASSUME TablesInv, TablesInv', TreesInv, [Next]_vars PROVE TreesInv'
  OBVIOUS
<1>1. CASE BeginBlock
  BY <1>1, BeginBlockTrees
<1>2. CASE \/ \E p \in Post : ConfirmSubBlock(p)
           \/ \E ps \in SUBSET Post \ {{}} : PruneSubtree(ps)
           \/ \E l \in Like : InsertLikeRecord(l)
           \/ \E p \in Pair : InsertVouchCooldown(p) \/ DeleteVouchCooldown(p)
  BY <1>2, SideTrees
<1>3. CASE \/ \E b \in Box : InsertBox(b) \/ ConsumeBox(b)
           \/ \E id \in Identity, r \in Rest : PutIdentityRecord(id, r)
  BY <1>3, RecordTrees
<1>4. CASE FeedProver
  BY <1>4, FeedProverTrees
<1>5. CASE CommitBlock
  BY <1>5, CommitBlockTrees
<1>6. CASE RejectBlock
  BY <1>6, RejectBlockTrees
<1>7. CASE \E f \in Heights \ {0}, n \in Heights : BeginReorg(f, n)
  BY <1>7, BeginReorgTrees
<1>8. CASE BeginRevert \/ UndoMutation \/ FinishRevert \/ CommitReorg
  BY <1>8, RevertTrees
<1>9. CASE RevertWithoutJournal
  BY <1>9, RollbackTrees DEF RevertWithoutJournal, Reverting
<1>10. CASE RollBackProver
  BY <1>10, RollBackProverTrees
<1>11. CASE Restart
  BY <1>11, RestartTrees
<1>12. CASE UNCHANGED vars
  BY <1>12 DEF vars, TreesInv, TreesTypeOK, Versioned, FedBoxes, FedRecords, ProverCurrent,
               Quiet, Committed
<1> QED BY <1>1, <1>2, <1>3, <1>4, <1>5, <1>6, <1>7, <1>8, <1>9, <1>10, <1>11, <1>12 DEF Next

LEMMA TreesAlways == Spec => []TreesInv
BY TablesAlways, InitTrees, TreesStep, PTL DEF Spec

(* For any parameters: every variable keeps its type.                          *)
THEOREM TypeCorrect == Spec => []TypeOK
<1>1. TablesInv /\ TreesInv => TypeOK
  BY DEF TablesInv, TreesInv, TypeOK
<1> QED BY <1>1, TablesAlways, TreesAlways, PTL

(* For any parameters with the tree versions kept longer than the journals:    *)
(* the in-memory tree is that of the tables whenever a block can be applied.   *)
THEOREM ProverFollows == Spec => []ProverCurrent
<1>1. TreesInv => ProverCurrent
  BY DEF TreesInv
<1> QED BY <1>1, TreesAlways, PTL

(* For any parameters: no stored tree version is ever of a state that the      *)
(* present chain does not have.                                                *)
THEOREM VersionsFollow == Spec => []VersionsTruthful
<1>1. TreesInv => VersionsTruthful
  BY DEF TreesInv, Versioned, VersionsTruthful
<1> QED BY <1>1, TreesAlways, PTL

-----------------------------------------------------------------------------
(* The side tables.  revertBlock takes them from what block h left, t, back to  *)
(* what it found, s.                                                          *)
SideLinked(h, j, s, t) ==
  /\ RestoreLikes(j, t.like) = s.like
  /\ [p \in Post |-> IF t.topo[p] = h THEN NoRow ELSE t.topo[p]] = s.topo
  /\ ~DoubleUnvouch => RestoreCooldowns(j, t.cool) = s.cool

(* Every journal kept for a chain of height h inverts its block, and no post was *)
(* first confirmed by a block above.                                          *)
SideChain(h, js, hs) ==
  /\ \A v \in Heights : js[v] # None =>
       SideLinked(v, js[v], hs[v - 1].side, hs[v].side)
  /\ \A v \in 0 .. h, p \in Post : hs[v].side.topo[p] <= v

SameSide(s, t) ==
  s.like = t.like /\ s.topo = t.topo /\ (~DoubleUnvouch => s.cool = t.cool)

(* Inside a block that found s, row by row: what it left of the row, or the entry *)
(* that gives the row back.  The order of the steps matters: a like is only      *)
(* added after the prunes, a cooldown row only matures after the last unvouch.    *)
LikesOpen(s) ==
  /\ phase \in {"confirm", "prune"} => open.likeIns = {}
  /\ \A l \in Like :
       IF open.likeDel[l] # NoRow
       THEN /\ open.likeDel[l] = s.like[l]
            /\ side.like[l] = NoRow \/ l \in open.likeIns
       ELSE IF l \in open.likeIns THEN s.like[l] = NoRow
       ELSE side.like[l] = s.like[l]

CoolsOpen(s) ==
  /\ phase \in {"confirm", "prune", "txs"} => \A p \in Pair : open.coolDel[p] = NoRow
  /\ \A p \in Pair :
       IF open.coolDel[p] # NoRow THEN open.coolDel[p] = s.cool[p] /\ side.cool[p] = NoRow
       ELSE IF open.coolIns[p] # None
       THEN open.coolIns[p] = s.cool[p] /\ side.cool[p] = open.height + CooldownBlocks
       ELSE side.cool[p] = s.cool[p]

TopoOpen(s) ==
  \A p \in Post : /\ s.topo[p] <= height
                  /\ \/ side.topo[p] = s.topo[p]
                     \/ s.topo[p] = NoRow /\ side.topo[p] = open.height

SideInv ==
  /\ SideChain(height, journals, hist)
  /\ phase = "idle" => SameSide(side, hist[height].side)
  /\ phase # "idle" => /\ SameSide(saved.side, hist[height].side)
                       /\ LikesOpen(saved.side) /\ TopoOpen(saved.side)
                       /\ ~DoubleUnvouch => CoolsOpen(saved.side)
  /\ reorg # None => /\ SideChain(outer.height, outer.journals, outer.hist)
                     /\ SameSide(outer.side, outer.hist[outer.height].side)

(* The journals of a chain of height h that a reorg from height t may need     *)
Reaches(t, h, js) ==
  \A v \in Heights : 0 < v /\ v <= h /\ v > t - JournalWindow => js[v] # None

(* A reorg that ends higher than it began asks for no journal that a purge on    *)
(* the way has taken.                                                        *)
ReachInv ==
  ~ShortReorgs =>
    /\ reorg = None => Reaches(height, height, journals)
    /\ reorg # None =>
         /\ Reaches(outer.height, outer.height, outer.journals)
         /\ reorg.stage = "revert" =>
              /\ Reaches(outer.height, height, journals)
              /\ reorg.fork + reorg.left > outer.height
         /\ reorg.stage = "apply" => Reaches(height + reorg.left, height, journals)

LEMMA PhaseSteps ==
  ASSUME NEW p \in {"confirm", "prune", "txs", "settle", "fed"}, phase \in DOMAIN PhaseNo,
         Enter(p)
  PROVE  /\ phase # "idle" /\ phase' = p
         /\ p \in {"confirm", "prune"} => phase \in {"confirm", "prune"}
         /\ p \in {"confirm", "prune", "txs"} => phase \in {"confirm", "prune", "txs"}
<1>1. phase # "idle" /\ phase' = p /\ PhaseNo[phase] <= PhaseNo[p]
  BY DEF Enter
<1>2. /\ PhaseNo["confirm"] = 1 /\ PhaseNo["prune"] = 2 /\ PhaseNo["txs"] = 3
      /\ PhaseNo["settle"] = 4 /\ PhaseNo["fed"] = 5
  BY DEF PhaseNo
<1>3. phase \in {"confirm", "prune", "txs", "settle", "fed"}
  BY <1>1, PhaseDomain
<1> QED BY <1>1, <1>2, <1>3

LEMMA SameLinked ==
  ASSUME NEW h, NEW j, NEW s, NEW s1, NEW t, NEW t1,
         SideLinked(h, j, s, t), SameSide(s, s1), SameSide(t, t1)
  PROVE  SideLinked(h, j, s1, t1)
BY DEF SideLinked, SameSide

(* A block may be reverted from where it stands.                               *)
LEMMA OpenRestores ==
  ASSUME TablesInv, SideInv, phase # "idle"
  PROVE  SideLinked(open.height, open, saved.side, side)
<1> DEFINE s == saved.side
<1>1. /\ open \in Journal /\ side \in Side /\ s \in Side /\ height \in Nat
      /\ open.height = height + 1
      /\ LikesOpen(s) /\ TopoOpen(s)
      /\ ~DoubleUnvouch => CoolsOpen(s)
  BY DEF TablesInv, TablesTypeOK, BlockInv, SideInv, Heights
<1> HIDE DEF s
<1>2. RestoreLikes(open, side.like) = s.like
  <2>1. s.like \in [Like -> Heights]
    BY <1>1 DEF Side
  <2>2. \A l \in Like : (IF open.likeDel[l] # NoRow THEN open.likeDel[l]
                         ELSE IF l \in open.likeIns THEN NoRow ELSE side.like[l]) = s.like[l]
    BY <1>1 DEF LikesOpen
  <2> QED BY <2>1, <2>2 DEF RestoreLikes
<1>3. [p \in Post |-> IF side.topo[p] = open.height THEN NoRow ELSE side.topo[p]] = s.topo
  <2>1. s.topo \in [Post -> Heights]
    BY <1>1 DEF Side
  <2>2. ASSUME NEW p \in Post
        PROVE  (IF side.topo[p] = open.height THEN NoRow ELSE side.topo[p]) = s.topo[p]
    <3>1. s.topo[p] \in Nat
      BY <2>1 DEF Heights
    <3> QED BY <3>1, <1>1 DEF TopoOpen
  <2> QED BY <2>1, <2>2
<1>4. ASSUME ~DoubleUnvouch PROVE RestoreCooldowns(open, side.cool) = s.cool
  <2>1. s.cool \in [Pair -> Releases]
    BY <1>1 DEF Side
  <2>2. \A p \in Pair : (IF open.coolDel[p] # NoRow THEN open.coolDel[p]
                         ELSE IF open.coolIns[p] # None THEN open.coolIns[p]
                         ELSE side.cool[p]) = s.cool[p]
    BY <1>1, <1>4 DEF CoolsOpen
  <2> QED BY <2>1, <2>2 DEF RestoreCooldowns
<1> QED BY <1>2, <1>3, <1>4 DEF SideLinked, s

(* What a step inside a block owes.                                            *)
LEMMA BlockSide ==
  ASSUME SideInv, phase # "idle", phase' # "idle",
         UNCHANGED <<height, journals, reorg, saved, outer, hist>>,
         LikesOpen(saved.side)', TopoOpen(saved.side)',
         ~DoubleUnvouch => CoolsOpen(saved.side)'
  PROVE  SideInv'
<1>1. SideChain(height, journals, hist)'
  BY DEF SideInv
<1>2. SameSide(saved.side, hist[height].side)'
  BY DEF SideInv, SameSide
<1>3. (reorg # None => /\ SideChain(outer.height, outer.journals, outer.hist)
                       /\ SameSide(outer.side, outer.hist[outer.height].side))'
  BY DEF SideInv
<1> QED BY <1>1, <1>2, <1>3 DEF SideInv

(* What the primitives leave of the side tables and their journal fields.      *)
SameFields == /\ open'.likeIns = open.likeIns /\ open'.likeDel = open.likeDel
              /\ open'.coolIns = open.coolIns /\ open'.coolDel = open.coolDel
              /\ open'.height = open.height

LEMMA RecordSide ==
  ASSUME TablesInv, SideInv,
         \/ \E b \in Box : InsertBox(b) \/ ConsumeBox(b)
         \/ \E id \in Identity, r \in Rest : PutIdentityRecord(id, r)
         \/ FeedProver
  PROVE  SideInv'
<1>1. UNCHANGED <<side, height, journals, reorg, saved, outer, hist>>
  BY DEF InsertBox, ConsumeBox, PutIdentityRecord, FeedProver, OutsideBlock
<1>2. /\ phase # "idle" /\ phase' # "idle"
      /\ phase' \in {"confirm", "prune"} => phase \in {"confirm", "prune"}
      /\ phase' \in {"confirm", "prune", "txs"} => phase \in {"confirm", "prune", "txs"}
  <2>1. phase \in DOMAIN PhaseNo
    BY DEF TablesInv, TablesTypeOK
  <2>2. CASE FeedProver
    BY <2>2 DEF FeedProver
  <2>3. CASE ~FeedProver
    <3>1. \E p \in {"confirm", "prune", "txs", "settle"} : Enter(p)
      BY <2>3 DEF InsertBox, ConsumeBox, PutIdentityRecord
    <3> QED BY <2>1, <3>1, PhaseSteps
  <2> QED BY <2>2, <2>3
<1>3. SameFields
  <2>1. open \in Journal
    BY <1>2 DEF TablesInv, TablesTypeOK
  <2>2. ASSUME NEW m, open' = Log(m, open) PROVE SameFields
    BY <2>1, <2>2 DEF Log, Journal, SameFields
  <2>3. ASSUME NEW m, NEW n, open' = Log(m, Log(n, open)) PROVE SameFields
    BY <2>1, <2>3 DEF Log, Journal, SameFields
  <2>4. \/ open' = open
        \/ \E m : open' = Log(m, open)
        \/ \E m, n : open' = Log(m, Log(n, open))
    BY DEF InsertBox, ConsumeBox, PutIdentityRecord, FeedProver, Record1
  <2> QED BY <2>2, <2>3, <2>4 DEF SameFields
<1>4. /\ LikesOpen(saved.side)' /\ TopoOpen(saved.side)'
      /\ ~DoubleUnvouch => CoolsOpen(saved.side)'
  BY <1>1, <1>2, <1>3 DEF SideInv, LikesOpen, TopoOpen, CoolsOpen, SameFields
<1> QED BY <1>1, <1>2, <1>4, BlockSide

(* A primitive that touches one of the side tables keeps the others.           *)
LEMMA OthersKept ==
  ASSUME SideInv, phase # "idle", UNCHANGED <<height, saved>>, open'.height = open.height,
         phase' \in {"confirm", "prune"} => phase \in {"confirm", "prune"},
         phase' \in {"confirm", "prune", "txs"} => phase \in {"confirm", "prune", "txs"}
  PROVE  /\ side'.like = side.like /\ open'.likeIns = open.likeIns
              /\ open'.likeDel = open.likeDel => LikesOpen(saved.side)'
         /\ side'.topo = side.topo => TopoOpen(saved.side)'
         /\ ~DoubleUnvouch /\ side'.cool = side.cool /\ open'.coolIns = open.coolIns
              /\ open'.coolDel = open.coolDel => CoolsOpen(saved.side)'
BY DEF SideInv, LikesOpen, TopoOpen, CoolsOpen

LEMMA ConfirmSide ==
  ASSUME TablesInv, SideInv, NEW p \in Post, ConfirmSubBlock(p)
  PROVE  SideInv'
<1>1. /\ Enter("confirm") /\ UNCHANGED <<height, journals, reorg, saved, outer, hist>>
      /\ side' = [side EXCEPT !.topo[p] = IF @ = NoRow THEN open.height ELSE @,
                              !.pruned = @ \ {p}]
      /\ open' = [open EXCEPT !.confirmed = @ \cup {p}]
  BY DEF ConfirmSubBlock, OutsideBlock
<1>2. /\ phase # "idle" /\ phase' # "idle" /\ side \in Side /\ open \in Journal
      /\ phase' \in {"confirm", "prune"} => phase \in {"confirm", "prune"}
      /\ phase' \in {"confirm", "prune", "txs"} => phase \in {"confirm", "prune", "txs"}
  BY <1>1, PhaseSteps DEF TablesInv, TablesTypeOK
<1>3. /\ side'.like = side.like /\ side'.cool = side.cool
      /\ side'.topo = [side.topo EXCEPT ![p] = IF @ = NoRow THEN open.height ELSE @]
  BY <1>1, <1>2 DEF Side
<1>4. SameFields
  BY <1>1, <1>2 DEF SameFields, Journal
<1>5. TopoOpen(saved.side)'
  <2>1. side.topo \in [Post -> Heights]
    BY <1>2 DEF Side
  <2>2. \A q \in Post : side'.topo[q] = IF q = p /\ side.topo[q] = NoRow THEN open.height
                                        ELSE side.topo[q]
    BY <2>1, <1>3
  <2>3. TopoOpen(saved.side)
    BY <1>2 DEF SideInv
  <2> QED BY <2>2, <2>3, <1>1, <1>4 DEF TopoOpen, SameFields
<1> QED BY <1>1, <1>2, <1>3, <1>4, <1>5, OthersKept, BlockSide DEF SameFields

LEMMA PruneSide ==
  ASSUME TablesInv, SideInv, NEW ps \in SUBSET Post, PruneSubtree(ps)
  PROVE  SideInv'
<1> DEFINE gone == {l \in Like : LikeTarget[l] \in ps /\ side.like[l] # NoRow}
<1>1. /\ Enter("prune") /\ UNCHANGED <<height, journals, reorg, saved, outer, hist>>
      /\ side' = [side EXCEPT
                    !.like = [l \in Like |-> IF l \in gone THEN NoRow ELSE side.like[l]],
                    !.pruned = @ \cup ps]
      /\ open' = [open EXCEPT !.likeDel =
                    [l \in Like |-> IF l \in gone THEN side.like[l] ELSE open.likeDel[l]]]
  BY DEF PruneSubtree, OutsideBlock, TablesInv, TablesTypeOK, Enter, Side, Journal
<1>2. /\ phase \in {"confirm", "prune"} /\ phase' # "idle"
      /\ side \in Side /\ open \in Journal
  BY <1>1, PhaseSteps DEF TablesInv, TablesTypeOK
<1>3. /\ side'.topo = side.topo /\ side'.cool = side.cool
      /\ side'.like = [l \in Like |-> IF l \in gone THEN NoRow ELSE side.like[l]]
      /\ open'.likeDel = [l \in Like |-> IF l \in gone THEN side.like[l] ELSE open.likeDel[l]]
      /\ open'.likeIns = open.likeIns /\ open'.coolIns = open.coolIns
      /\ open'.coolDel = open.coolDel /\ open'.height = open.height
  BY <1>1, <1>2 DEF Side, Journal
<1>4. LikesOpen(saved.side)'
  <2>1. LikesOpen(saved.side) /\ open.likeIns = {} /\ saved' = saved
    BY <1>1, <1>2 DEF SideInv, LikesOpen
  <2>2. ASSUME NEW l \in Like
        PROVE  IF open'.likeDel[l] # NoRow
               THEN open'.likeDel[l] = saved.side.like[l] /\ side'.like[l] = NoRow
               ELSE side'.like[l] = saved.side.like[l]
    <3>1. CASE l \in gone
      <4>1. side.like[l] # NoRow /\ open'.likeDel[l] = side.like[l] /\ side'.like[l] = NoRow
        BY <3>1, <1>3
      <4> QED BY <4>1, <2>1 DEF LikesOpen
    <3>2. CASE l \notin gone
      <4>1. open'.likeDel[l] = open.likeDel[l] /\ side'.like[l] = side.like[l]
        BY <3>2, <1>3
      <4> QED BY <4>1, <2>1 DEF LikesOpen
    <3> QED BY <3>1, <3>2
  <2> QED BY <2>1, <2>2, <1>3 DEF LikesOpen
<1>5. phase # "idle" /\ phase \in {"confirm", "prune", "txs"}
  BY <1>2
<1> QED BY <1>1, <1>2, <1>3, <1>4, <1>5, OthersKept, BlockSide

LEMMA LikeSide ==
  ASSUME TablesInv, SideInv, NEW l \in Like, InsertLikeRecord(l)
  PROVE  SideInv'
<1>1. /\ Enter("txs") /\ UNCHANGED <<height, journals, reorg, saved, outer, hist>>
      /\ side.like[l] = NoRow
      /\ side' = [side EXCEPT !.like[l] = open.height]
      /\ open' = [open EXCEPT !.likeIns = @ \cup {l}]
  BY DEF InsertLikeRecord, OutsideBlock
<1>2. /\ phase # "idle" /\ phase' = "txs" /\ phase \in {"confirm", "prune", "txs"}
      /\ side \in Side /\ open \in Journal
  BY <1>1, PhaseSteps DEF TablesInv, TablesTypeOK
<1>3. /\ side'.topo = side.topo /\ side'.cool = side.cool
      /\ side'.like = [side.like EXCEPT ![l] = open.height]
      /\ open'.likeDel = open.likeDel /\ open'.likeIns = open.likeIns \cup {l}
      /\ open'.coolIns = open.coolIns
      /\ open'.coolDel = open.coolDel /\ open'.height = open.height
  BY <1>1, <1>2 DEF Side, Journal
<1>4. LikesOpen(saved.side)'
  <2>1. LikesOpen(saved.side) /\ saved' = saved
    BY <1>1, <1>2 DEF SideInv
  <2>2. \A k \in Like \ {l} : side'.like[k] = side.like[k]
    BY <1>2, <1>3 DEF Side
  <2> QED BY <2>1, <2>2, <1>1, <1>2, <1>3 DEF LikesOpen
<1> QED BY <1>1, <1>2, <1>3, <1>4, OthersKept, BlockSide

LEMMA UnvouchSide ==
  ASSUME TablesInv, SideInv, NEW p \in Pair, InsertVouchCooldown(p)
  PROVE  SideInv'
<1>1. /\ Enter("txs") /\ UNCHANGED <<height, journals, reorg, saved, outer, hist>>
      /\ ~DoubleUnvouch => open.coolIns[p] = None
      /\ side' = [side EXCEPT !.cool[p] = open.height + CooldownBlocks]
      /\ open' = [open EXCEPT !.coolIns[p] = side.cool[p]]
  BY DEF InsertVouchCooldown, OutsideBlock
<1>2. /\ phase # "idle" /\ phase' = "txs" /\ phase \in {"confirm", "prune", "txs"}
      /\ side \in Side /\ open \in Journal
  BY <1>1, PhaseSteps DEF TablesInv, TablesTypeOK
<1>3. /\ side'.topo = side.topo /\ side'.like = side.like
      /\ side'.cool = [side.cool EXCEPT ![p] = open.height + CooldownBlocks]
      /\ open'.likeDel = open.likeDel /\ open'.likeIns = open.likeIns
      /\ open'.coolIns = [open.coolIns EXCEPT ![p] = side.cool[p]]
      /\ open'.coolDel = open.coolDel /\ open'.height = open.height
  BY <1>1, <1>2 DEF Side, Journal
<1>4. ASSUME ~DoubleUnvouch PROVE CoolsOpen(saved.side)'
  <2>1. CoolsOpen(saved.side) /\ saved' = saved /\ open.coolIns[p] = None
        /\ open.coolDel[p] = NoRow
    BY <1>1, <1>2, <1>4 DEF SideInv, CoolsOpen
  <2>2. /\ side.cool \in [Pair -> Releases] /\ open.coolIns \in [Pair -> Releases \cup {None}]
        /\ Releases \subseteq Nat
    BY <1>2 DEF Side, Journal, Releases
  <2>3. \A q \in Pair \ {p} : side'.cool[q] = side.cool[q] /\ open'.coolIns[q] = open.coolIns[q]
    BY <2>2, <1>3
  <2>4. /\ side'.cool[p] = open.height + CooldownBlocks
        /\ open'.coolIns[p] = side.cool[p] /\ side.cool[p] # None
    BY <2>2, <1>3, NoneAssumption
  <2>5. side.cool[p] = saved.side.cool[p]
    BY <2>1 DEF CoolsOpen
  <2> QED BY <2>1, <2>3, <2>4, <2>5, <1>2, <1>3 DEF CoolsOpen
<1> QED BY <1>1, <1>2, <1>3, <1>4, OthersKept, BlockSide

LEMMA MatureSide ==
  ASSUME TablesInv, SideInv, NEW p \in Pair, DeleteVouchCooldown(p)
  PROVE  SideInv'
<1>1. /\ Enter("settle") /\ UNCHANGED <<height, journals, reorg, saved, outer, hist>>
      /\ side.cool[p] # NoRow /\ side.cool[p] <= open.height
      /\ side' = [side EXCEPT !.cool[p] = NoRow]
      /\ open' = [open EXCEPT !.coolDel[p] = side.cool[p]]
  BY DEF DeleteVouchCooldown, OutsideBlock, Matured
<1>2. /\ phase # "idle" /\ phase' = "settle" /\ side \in Side /\ open \in Journal
  BY <1>1, PhaseSteps DEF TablesInv, TablesTypeOK
<1>3. /\ side'.topo = side.topo /\ side'.like = side.like
      /\ side'.cool = [side.cool EXCEPT ![p] = NoRow]
      /\ open'.likeDel = open.likeDel /\ open'.likeIns = open.likeIns
      /\ open'.coolDel = [open.coolDel EXCEPT ![p] = side.cool[p]]
      /\ open'.coolIns = open.coolIns /\ open'.height = open.height
  BY <1>1, <1>2 DEF Side, Journal
<1>4. ASSUME ~DoubleUnvouch PROVE CoolsOpen(saved.side)'
  <2>1. CoolsOpen(saved.side) /\ saved' = saved
    BY <1>1, <1>2, <1>4 DEF SideInv
  <2>2. /\ side.cool \in [Pair -> Releases] /\ open.coolDel \in [Pair -> Releases]
        /\ open.height \in Nat /\ CooldownBlocks \in Nat \ {0}
    BY <1>2, BoundsAssumption DEF Side, Journal, Heights
  <2>3. \A q \in Pair \ {p} : side'.cool[q] = side.cool[q] /\ open'.coolDel[q] = open.coolDel[q]
    BY <2>2, <1>3
  <2>4. side'.cool[p] = NoRow /\ open'.coolDel[p] = side.cool[p]
    BY <2>2, <1>3
  <2>5. side.cool[p] = saved.side.cool[p]
    <3>1. side.cool[p] # open.height + CooldownBlocks
      BY <2>2, <1>1
    <3> QED BY <3>1, <2>1, <1>1 DEF CoolsOpen
  <2> QED BY <2>1, <2>3, <2>4, <2>5, <1>1, <1>2, <1>3 DEF CoolsOpen
<1> QED BY <1>1, <1>2, <1>3, <1>4, OthersKept, BlockSide

LEMMA SideSame ==
  ASSUME SideInv, UNCHANGED <<side, height, journals, phase, hist, open, saved>>,
         reorg' # None => reorg # None /\ outer' = outer
  PROVE  SideInv'
<1>1. SideChain(height, journals, hist)'
  BY DEF SideInv
<1>2. (phase = "idle" => SameSide(side, hist[height].side))'
  BY DEF SideInv, SameSide
<1>3. (phase # "idle" => /\ SameSide(saved.side, hist[height].side)
                         /\ LikesOpen(saved.side) /\ TopoOpen(saved.side)
                         /\ ~DoubleUnvouch => CoolsOpen(saved.side))'
  BY DEF SideInv, SameSide, LikesOpen, TopoOpen, CoolsOpen
<1>4. (reorg # None => /\ SideChain(outer.height, outer.journals, outer.hist)
                       /\ SameSide(outer.side, outer.hist[outer.height].side))'
  BY DEF SideInv
<1> QED BY <1>1, <1>2, <1>3, <1>4 DEF SideInv

LEMMA BeginBlockSide == ASSUME TablesInv, SideInv, BeginBlock PROVE SideInv'
<1>1. /\ phase = "idle" /\ phase' = "confirm" /\ side \in Side
      /\ open' = NewJournal(height + 1) /\ saved'.side = side
      /\ UNCHANGED <<side, height, journals, reorg, outer, hist>>
      /\ SameSide(side, hist[height].side) /\ height \in Heights
  BY DEF BeginBlock, SideInv, TablesInv, TablesTypeOK
<1>2. SideChain(height, journals, hist)'
  BY <1>1 DEF SideInv
<1>3. SameSide(saved.side, hist[height].side)'
  BY <1>1 DEF SameSide
<1>4. LikesOpen(saved.side)' /\ CoolsOpen(saved.side)'
  BY <1>1 DEF LikesOpen, CoolsOpen, NewJournal
<1>5. TopoOpen(saved.side)'
  <2>1. height \in 0 .. height
    BY <1>1 DEF Heights
  <2>2. \A p \in Post : hist[height].side.topo[p] <= height
    BY <2>1 DEF SideInv, SideChain
  <2> QED BY <2>2, <1>1 DEF TopoOpen, SameSide
<1>6. (reorg # None => /\ SideChain(outer.height, outer.journals, outer.hist)
                       /\ SameSide(outer.side, outer.hist[outer.height].side))'
  BY <1>1 DEF SideInv
<1> QED BY <1>1, <1>2, <1>3, <1>4, <1>5, <1>6 DEF SideInv

LEMMA CommitBlockSide == ASSUME TablesInv, SideInv, CommitBlock PROVE SideInv'
<1> DEFINE h == open.height
<1>1. /\ phase # "idle" /\ phase' = "idle" /\ h = height + 1 /\ h \in Heights
      /\ height \in Heights /\ height' = h /\ side' = side /\ outer' = outer
      /\ reorg' # None => reorg # None
      /\ \A v \in Heights : \/ journals'[v] = None \/ journals'[v] = journals[v]
                           \/ (v = h /\ journals'[v] = open)
      /\ \A v \in Heights \ {h} : hist'[v] = hist[v]
      /\ hist'[h].side = side
      /\ saved.side \in Side /\ side \in Side /\ height \in Nat /\ h \in Nat
  <2>1. /\ phase # "idle" /\ phase' = "idle" /\ height' = h /\ side' = side /\ outer' = outer
        /\ reorg' # None => reorg # None
        /\ hist' = [hist EXCEPT ![h] = [state |-> state, side |-> side]]
        /\ journals' = [v \in Heights |-> IF v = h THEN open
                                          ELSE IF Purged(v, h) THEN None ELSE journals[v]]
    BY DEF CommitBlock
  <2>2. /\ open \in Journal /\ h = height + 1 /\ height \in Heights /\ side \in Side
        /\ saved.side \in Side /\ hist \in [Heights -> HistEntry \cup {None}]
    BY <2>1 DEF TablesInv, TablesTypeOK, BlockInv
  <2>3. h \in Heights
    BY <2>2 DEF Journal
  <2>4. height \in Nat /\ h \in Nat
    BY <2>2, <2>3, BoundsAssumption DEF Heights
  <2> HIDE DEF h
  <2>5. hist'[h].side = side /\ \A v \in Heights \ {h} : hist'[v] = hist[v]
    BY <2>1, <2>2, <2>3
  <2>6. \A v \in Heights : \/ journals'[v] = None \/ journals'[v] = journals[v]
                          \/ (v = h /\ journals'[v] = open)
    BY <2>1
  <2> QED BY <2>1, <2>2, <2>3, <2>4, <2>5, <2>6
<1>2. SideLinked(h, open, hist[height].side, side)
  <2>1. SameSide(saved.side, hist[height].side) /\ SameSide(side, side)
    BY <1>1 DEF SideInv, SameSide
  <2> QED BY <2>1, <1>1, OpenRestores, SameLinked
<1>3. ASSUME NEW v \in Heights, journals'[v] # None
      PROVE  SideLinked(v, journals'[v], hist'[v - 1].side, hist'[v].side)
  <2>1. CASE v = h /\ journals'[v] = open
    <3>1. v - 1 = height /\ hist'[height] = hist[height]
      BY <1>1, <2>1 DEF Heights
    <3> QED BY <3>1, <2>1, <1>1, <1>2
  <2>2. CASE ~(v = h /\ journals'[v] = open)
    <3>1. journals'[v] = journals[v] /\ journals[v] # None
      BY <2>2, <1>1, <1>3
    <3>2. 1 <= v /\ v <= height /\ SideLinked(v, journals[v], hist[v - 1].side, hist[v].side)
      BY <3>1 DEF SideInv, SideChain, TablesInv, Chain
    <3>3. v # h /\ v - 1 # h /\ v - 1 \in Heights
      <4>1. /\ height \in Nat /\ h = height + 1 /\ v \in Heights /\ 1 <= v /\ v <= height
            /\ MaxHeight \in Nat
        BY <3>2, <1>1, BoundsAssumption
      <4> HIDE DEF h
      <4> QED BY <4>1 DEF Heights
    <3> QED BY <3>1, <3>2, <3>3, <1>1
  <2> QED BY <2>1, <2>2
<1>4. ASSUME NEW v \in 0 .. h, NEW p \in Post PROVE hist'[v].side.topo[p] <= v
  <2>1. CASE v = h
    <3>1. side.topo[p] \in Nat /\ saved.side.topo[p] \in Nat
      BY <1>1 DEF Side, Heights
    <3>2. saved.side.topo[p] <= height
          /\ (side.topo[p] = saved.side.topo[p] \/ side.topo[p] = h)
      BY <1>1 DEF SideInv, TopoOpen
    <3>3. side.topo[p] <= h
      <4>1. height \in Nat /\ h = height + 1
        BY <1>1
      <4> HIDE DEF h
      <4> QED BY <3>1, <3>2, <4>1
    <3> QED BY <3>3, <2>1, <1>1
  <2>2. CASE v # h
    <3>1. v \in 0 .. height /\ v \in Heights \ {h}
      <4>1. /\ height \in Nat /\ h = height + 1 /\ h \in 0 .. MaxHeight
            /\ MaxHeight \in Nat
        BY <1>1, BoundsAssumption DEF Heights
      <4> HIDE DEF h
      <4> QED BY <2>2, <4>1 DEF Heights
    <3> QED BY <3>1, <1>1 DEF SideInv, SideChain
  <2> QED BY <2>1, <2>2
<1>5. SideChain(height, journals, hist)'
  BY <1>1, <1>3, <1>4 DEF SideChain, SideLinked, RestoreLikes, RestoreCooldowns
<1>6. SameSide(side, hist[height].side)'
  BY <1>1 DEF SameSide
<1>7. (reorg # None => /\ SideChain(outer.height, outer.journals, outer.hist)
                       /\ SameSide(outer.side, outer.hist[outer.height].side))'
  <2>1. outer' = outer /\ (reorg' # None => reorg # None)
    BY <1>1
  <2>2. reorg # None => /\ SideChain(outer.height, outer.journals, outer.hist)
                        /\ SameSide(outer.side, outer.hist[outer.height].side)
    BY DEF SideInv
  <2> QED BY <2>1, <2>2
<1> QED BY <1>1, <1>5, <1>6, <1>7 DEF SideInv

LEMMA RollbackSide ==
  ASSUME SideInv, reorg # None, side' = outer.side, height' = outer.height,
         journals' = outer.journals, hist' = outer.hist, phase' = "idle", reorg' = None
  PROVE  SideInv'
<1>1. SideChain(height, journals, hist)'
  BY DEF SideInv
<1>2. SameSide(side, hist[height].side)'
  BY DEF SideInv, SameSide
<1> QED BY <1>1, <1>2 DEF SideInv

(* A block given up outside a reorg, rejected or cut short by a crash.          *)
LEMMA DropBlockSide ==
  ASSUME SideInv, reorg = None, reorg' = None, phase' = "idle",
         UNCHANGED <<height, journals, hist>>,
         side' = IF phase = "idle" THEN side ELSE saved.side
  PROVE  SideInv'
<1>1. SideChain(height, journals, hist)'
  BY DEF SideInv
<1>2. SameSide(side, hist[height].side)'
  BY DEF SideInv, SameSide
<1> QED BY <1>1, <1>2 DEF SideInv

LEMMA BeginReorgSide ==
  ASSUME SideInv, NEW f, NEW n, BeginReorg(f, n)
  PROVE  SideInv'
<1>1. /\ phase = "idle" /\ UNCHANGED <<side, height, journals, phase, hist, open, saved>>
      /\ outer'.height = height /\ outer'.journals = journals /\ outer'.hist = hist
      /\ outer'.side = side
  BY DEF BeginReorg
<1>2. SideChain(height, journals, hist)' /\ SameSide(side, hist[height].side)'
  BY <1>1 DEF SideInv
<1>3. SideChain(outer.height, outer.journals, outer.hist)'
      /\ SameSide(outer.side, outer.hist[outer.height].side)'
  BY <1>1 DEF SideInv
<1> QED BY <1>1, <1>2, <1>3 DEF SideInv

LEMMA FinishRevertSide == ASSUME TablesInv, SideInv, FinishRevert PROVE SideInv'
<1> DEFINE j == journals[height]
<1>1. /\ undo = 0 /\ j # None /\ height \in Heights /\ 1 <= height
      /\ phase = "idle" /\ phase' = phase /\ reorg' = reorg /\ outer' = outer
      /\ height' = height - 1 /\ height' \in Heights
      /\ \A v \in Heights \ {height} : hist'[v] = hist[v] /\ journals'[v] = journals[v]
      /\ journals'[height] = None
  <2>1. /\ undo # None /\ undo = 0 /\ height \in Heights
    BY NoneAssumption DEF FinishRevert, TablesInv, TablesTypeOK
  <2>2. j # None /\ phase = "idle" /\ 1 <= height
    BY <2>1 DEF TablesInv, RevertInv, BlockInv, Chain
  <2>3. height - 1 \in Heights
    BY <2>1, <2>2, BoundsAssumption DEF Heights
  <2> QED BY <2>1, <2>2, <2>3 DEF FinishRevert, TablesInv, TablesTypeOK
<1>2. /\ side'.like = RestoreLikes(j, side.like)
      /\ side'.cool = RestoreCooldowns(j, side.cool)
      /\ side'.topo = [p \in Post |-> IF side.topo[p] = height THEN NoRow ELSE side.topo[p]]
  BY DEF FinishRevert
<1>3. SideLinked(height, j, hist[height - 1].side, hist[height].side)
      /\ SameSide(side, hist[height].side)
  BY <1>1 DEF SideInv, SideChain
<1>4. SameSide(side', hist[height - 1].side)
  BY <1>2, <1>3 DEF SideLinked, SameSide
<1>5. hist'[height'] = hist[height - 1]
  BY <1>1
<1>6. SameSide(side, hist[height].side)'
  BY <1>4, <1>5 DEF SameSide
<1>7. ASSUME NEW v \in Heights, journals'[v] # None
      PROVE  SideLinked(v, journals'[v], hist'[v - 1].side, hist'[v].side)
  <2>1. v # height /\ journals'[v] = journals[v]
    BY <1>1, <1>7
  <2>2. 1 <= v /\ v <= height /\ SideLinked(v, journals[v], hist[v - 1].side, hist[v].side)
    BY <2>1, <1>7 DEF SideInv, SideChain, TablesInv, Chain
  <2>3. v - 1 \in Heights \ {height}
    BY <2>1, <2>2, <1>1, BoundsAssumption DEF Heights
  <2> QED BY <2>1, <2>2, <2>3, <1>1
<1>8. ASSUME NEW v \in 0 .. height', NEW p \in Post PROVE hist'[v].side.topo[p] <= v
  <2>1. v \in 0 .. height /\ v \in Heights \ {height}
    BY <1>1, BoundsAssumption DEF Heights
  <2> QED BY <2>1, <1>1 DEF SideInv, SideChain
<1>9. SideChain(height, journals, hist)'
  BY <1>7, <1>8 DEF SideChain, SideLinked, RestoreLikes, RestoreCooldowns
<1>10. (reorg # None => /\ SideChain(outer.height, outer.journals, outer.hist)
                        /\ SameSide(outer.side, outer.hist[outer.height].side))'
  BY <1>1 DEF SideInv
<1> QED BY <1>1, <1>6, <1>9, <1>10 DEF SideInv

LEMMA InitSide == Init => SideInv
<1> SUFFICES ASSUME Init PROVE SideInv
  OBVIOUS
<1>1. /\ 0 \in Heights /\ height = 0 /\ hist[0].side = side /\ phase = "idle" /\ reorg = None
      /\ \A v \in Heights : journals[v] = None
      /\ \A p \in Post : side.topo[p] = 0
  <2>1. 0 \in Heights
    BY BoundsAssumption DEF Heights
  <2> QED BY <2>1 DEF Init, NoRow
<1>2. SideChain(height, journals, hist)
  BY <1>1 DEF SideChain
<1> QED BY <1>1, <1>2 DEF SideInv, SameSide

LEMMA SideStep == TablesInv /\ SideInv /\ [Next]_vars => SideInv'
<1> SUFFICES ASSUME TablesInv, SideInv, [Next]_vars PROVE SideInv'
  OBVIOUS
<1>1. CASE BeginBlock
  BY <1>1, BeginBlockSide
<1>2. CASE \E p \in Post : ConfirmSubBlock(p)
  BY <1>2, ConfirmSide
<1>3. CASE \E ps \in SUBSET Post \ {{}} : PruneSubtree(ps)
  BY <1>3, PruneSide
<1>4. CASE \/ \E b \in Box : InsertBox(b) \/ ConsumeBox(b)
           \/ \E id \in Identity, r \in Rest : PutIdentityRecord(id, r)
           \/ FeedProver
  BY <1>4, RecordSide
<1>5. CASE \E l \in Like : InsertLikeRecord(l)
  BY <1>5, LikeSide
<1>6. CASE \E p \in Pair : InsertVouchCooldown(p) \/ DeleteVouchCooldown(p)
  BY <1>6, UnvouchSide, MatureSide
<1>7. CASE CommitBlock
  BY <1>7, CommitBlockSide
<1>8. CASE RejectBlock \/ RevertWithoutJournal \/ Restart
  <2>1. CASE reorg = None
    <3>1. RejectBlock \/ Restart
      BY <1>8, <2>1 DEF RevertWithoutJournal, Reverting
    <3>2. /\ reorg' = None /\ phase' = "idle" /\ UNCHANGED <<height, journals, hist>>
          /\ side' = IF phase = "idle" THEN side ELSE saved.side
      BY <3>1, <2>1 DEF RejectBlock, Restart
    <3> QED BY <2>1, <3>2, DropBlockSide
  <2>2. CASE reorg # None
    BY <1>8, <2>2, RollbackSide DEF RejectBlock, RevertWithoutJournal, Restart, RollbackReorg
  <2> QED BY <2>1, <2>2
<1>9. CASE \E f \in Heights \ {0}, n \in Heights : BeginReorg(f, n)
  BY <1>9, BeginReorgSide
<1>10. CASE BeginRevert \/ UndoMutation \/ RollBackProver \/ CommitReorg
  <2>1. /\ UNCHANGED <<side, height, journals, phase, hist, open, saved>>
        /\ reorg' # None => reorg # None /\ outer' = outer
    BY <1>10 DEF BeginRevert, UndoMutation, RollBackProver, CommitReorg, Reverting
  <2> QED BY <2>1, SideSame
<1>11. CASE FinishRevert
  BY <1>11, FinishRevertSide
<1>12. CASE UNCHANGED vars
  BY <1>12, SideSame DEF vars
<1> QED BY <1>1, <1>2, <1>3, <1>4, <1>5, <1>6, <1>7, <1>8, <1>9, <1>10, <1>11, <1>12
        DEF Next

LEMMA SideAlways == Spec => [](TablesInv /\ SideInv)
BY TablesAlways, InitSide, SideStep, PTL DEF Spec

LEMMA SideWhenQuiet == TablesInv /\ SideInv /\ Quiet => SameSide(side, hist[height].side)
BY DEF SideInv, Quiet

(* For any parameters: whenever no block is half applied or half reverted, the   *)
(* like records and the topology are those the block at the current height left. *)
THEOREM SideRestored == Spec => []SideExact
<1>1. TablesInv /\ SideInv => SideExact
  BY SideWhenQuiet DEF SameSide, SideExact
<1> QED BY <1>1, SideAlways, PTL

(* So are the escrow rows, as long as no block unvouches one pair twice.         *)
THEOREM CooldownsRestored ==
  ASSUME ~DoubleUnvouch
  PROVE  Spec => []CooldownsExact
<1>1. TablesInv /\ SideInv => CooldownsExact
  BY SideWhenQuiet DEF SameSide, CooldownsExact
<1> QED BY <1>1, SideAlways, PTL

-----------------------------------------------------------------------------
(* No reorg is stranded by the purge                                           *)

LEMMA InitReach == Init => ReachInv
<1>1. \A v \in Heights : ~(0 < v /\ v <= 0)
  BY BoundsAssumption DEF Heights
<1> QED BY <1>1 DEF Init, ReachInv, Reaches

(* A block's commit purges nothing a chain of the final height t still needs.    *)
LEMMA CommitReaches ==
  ASSUME TablesInv, CommitBlock, NEW t \in Nat, height' <= t, Reaches(t, height, journals)
  PROVE  Reaches(t, height, journals)'
<1> DEFINE h == open.height
<1>1. /\ h = height + 1 /\ height \in Nat /\ h \in Nat /\ height' = h /\ open \in Journal
      /\ JournalWindow \in Nat
  BY BoundsAssumption DEF CommitBlock, TablesInv, TablesTypeOK, BlockInv, Heights
<1>2. ASSUME NEW v \in Heights, 0 < v, v <= h, v > t - JournalWindow
      PROVE  journals'[v] # None
  <2>1. v \in Nat /\ ~(v < h - JournalWindow) /\ (v # h => v <= height)
    BY <1>1, <1>2 DEF Heights
  <2>2. journals'[v] = IF v = h THEN open ELSE journals[v]
    BY <2>1 DEF CommitBlock, Purged
  <2>3. open # None
    BY <1>1, NoneAssumption
  <2> QED BY <2>1, <2>2, <2>3, <1>2 DEF Reaches
<1> QED BY <1>1, <1>2 DEF Reaches

LEMMA ReachStep == TablesInv /\ ReachInv /\ [Next]_vars => ReachInv'
<1> SUFFICES ASSUME TablesInv, ReachInv, [Next]_vars, ~ShortReorgs PROVE ReachInv'
  BY DEF ReachInv
<1>0. /\ height \in Nat /\ JournalWindow \in Nat /\ MaxHeight \in Nat
      /\ reorg # None => /\ reorg \in ReorgType /\ reorg.left \in Nat /\ reorg.fork \in Nat
                         /\ outer.height \in Nat
  BY BoundsAssumption DEF TablesInv, TablesTypeOK, ReorgInv, Chain, ReorgType, Heights
<1>1. ASSUME UNCHANGED <<height, journals, reorg, outer>> PROVE ReachInv'
  BY <1>1 DEF ReachInv, Reaches
<1>2. CASE RejectBlock \/ RevertWithoutJournal \/ Restart
  <2>1. CASE reorg = None
    <3>1. UNCHANGED <<height, journals, reorg>>
      BY <1>2, <2>1 DEF RejectBlock, RevertWithoutJournal, Restart, Reverting
    <3> QED BY <2>1, <3>1 DEF ReachInv, Reaches
  <2>2. CASE reorg # None
    <3>1. reorg' = None /\ height' = outer.height /\ journals' = outer.journals
      BY <1>2, <2>2 DEF RejectBlock, RevertWithoutJournal, Restart, RollbackReorg
    <3> QED BY <2>2, <3>1 DEF ReachInv, Reaches
  <2> QED BY <2>1, <2>2
<1>3. CASE CommitBlock
  <2>1. height' = height + 1 /\ phase # "idle" /\ outer' = outer
    BY <1>3 DEF CommitBlock, TablesInv, BlockInv
  <2>2. CASE reorg = None
    <3>1. reorg' = None
      BY <1>3, <2>2 DEF CommitBlock
    <3>2. Reaches(height + 1, height, journals)
      BY <2>2, <1>0 DEF ReachInv, Reaches, Heights
    <3>3. Reaches(height, height, journals)'
      <4> DEFINE t == height + 1
      <4>1. t \in Nat /\ height' <= t
        BY <1>0, <2>1
      <4>2. \A v \in Heights : 0 < v /\ v <= height' /\ v > t - JournalWindow
                                 => journals'[v] # None
        <5> HIDE DEF t
        <5>1. Reaches(t, height, journals)
          BY <3>2 DEF t
        <5> QED BY <4>1, <5>1, <1>3, CommitReaches DEF Reaches
      <4>3. t = height'
        BY <2>1
      <4> HIDE DEF t
      <4> QED BY <4>2, <4>3 DEF Reaches
    <3> QED BY <3>1, <3>3 DEF ReachInv
  <2>3. CASE reorg # None
    <3> DEFINE t == height + reorg.left
    <3>1. /\ reorg.stage = "apply" /\ reorg.left > 0
          /\ reorg' = [reorg EXCEPT !.left = reorg.left - 1]
      BY <1>3, <2>1, <2>3 DEF CommitBlock, TablesInv, BlockInv
    <3>2. t \in Nat /\ height' <= t /\ reorg'.stage = "apply"
          /\ height' + reorg'.left = t
      BY <1>0, <2>1, <2>3, <3>1 DEF ReorgType
    <3>3. Reaches(t, height, journals)
      BY <2>3, <3>1 DEF ReachInv
    <3> HIDE DEF t
    <3>4. \A v \in Heights : 0 < v /\ v <= height' /\ v > t - JournalWindow
                               => journals'[v] # None
      BY <3>2, <3>3, <1>3, CommitReaches DEF Reaches
    <3>5. Reaches(outer.height, outer.height, outer.journals)
      BY <2>3 DEF ReachInv
    <3>6. reorg' # None
      <4>1. reorg' \in ReorgType
        BY <1>0, <2>3, <3>1, BoundsAssumption DEF ReorgType, Heights
      <4> QED BY <4>1, NoneAssumption
    <3> QED BY <3>2, <3>4, <3>5, <3>6, <2>1 DEF ReachInv, Reaches
  <2> QED BY <2>2, <2>3
<1>4. ASSUME NEW f \in Heights \ {0}, NEW n \in Heights, BeginReorg(f, n) PROVE ReachInv'
  <2>1. /\ reorg = None /\ f + n > height /\ UNCHANGED <<height, journals>>
        /\ outer'.height = height /\ outer'.journals = journals
        /\ reorg' = [fork |-> f, left |-> n, stage |-> "revert"]
    BY <1>4 DEF BeginReorg
  <2> QED BY <2>1, NoneAssumption DEF ReachInv, Reaches, ReorgType
<1>5. CASE FinishRevert
  <2>1. /\ undo = 0 /\ undo # None /\ reorg' = reorg /\ outer' = outer
        /\ height' = height - 1 /\ journals' = [journals EXCEPT ![height] = None]
    BY <1>5, NoneAssumption DEF FinishRevert
  <2>2. reorg # None /\ reorg.stage = "revert"
    BY <2>1 DEF TablesInv, RevertInv
  <2>3. ASSUME NEW v \in Heights, 0 < v, v <= height - 1, v > outer.height - JournalWindow
        PROVE  journals'[v] # None
    <3>1. v # height /\ v <= height
      BY <2>3, <1>0 DEF Heights
    <3>2. journals'[v] = journals[v]
      BY <2>1, <3>1 DEF TablesInv, TablesTypeOK
    <3> QED BY <3>1, <3>2, <2>2, <2>3 DEF ReachInv, Reaches
  <2> QED BY <2>1, <2>2, <2>3 DEF ReachInv, Reaches
<1>6. CASE RollBackProver
  <2>1. /\ reorg # None /\ reorg.stage = "revert" /\ height = reorg.fork
        /\ reorg' = [reorg EXCEPT !.stage = "apply"]
        /\ UNCHANGED <<height, journals, outer>>
    BY <1>6 DEF RollBackProver, Reverting
  <2>2. /\ reorg'.stage = "apply" /\ reorg'.left = reorg.left /\ reorg' # None
        /\ reorg'.fork = reorg.fork
    BY <2>1, <1>0, NoneAssumption DEF ReorgType
  <2>3. Reaches(height + reorg.left, height, journals)
    BY <2>1, <1>0 DEF ReachInv, Reaches, Heights
  <2> QED BY <2>1, <2>2, <2>3 DEF ReachInv, Reaches
<1>7. CASE CommitReorg
  <2>1. /\ reorg # None /\ reorg.stage = "apply" /\ reorg.left = 0 /\ reorg' = None
        /\ UNCHANGED <<height, journals>> /\ height + 0 = height
    BY <1>7, <1>0 DEF CommitReorg
  <2> QED BY <2>1 DEF ReachInv, Reaches
<1> QED
  BY <1>1, <1>2, <1>3, <1>4, <1>5, <1>6, <1>7
  DEF Next, vars, OutsideBlock, BeginBlock, ConfirmSubBlock, PruneSubtree, InsertBox,
      ConsumeBox, PutIdentityRecord, InsertLikeRecord, InsertVouchCooldown,
      DeleteVouchCooldown, FeedProver, BeginRevert, UndoMutation

(* For any parameters, if a peer sends all the blocks its headers promised: a    *)
(* node outside a reorg has the journal of every block a reorg may revert.        *)
THEOREM ForksReachable ==
  ASSUME ~ShortReorgs
  PROVE  Spec => []JournalsReachFork
<1>1. ReachInv => JournalsReachFork
  BY DEF ReachInv, Reaches, JournalsReachFork
<1>2. Spec => []ReachInv
  BY TablesAlways, InitReach, ReachStep, PTL DEF Spec
<1> QED BY <1>1, <1>2, PTL

-----------------------------------------------------------------------------
(* The refinement: what a start would find on disk moves by whole blocks and   *)
(* whole reorgs                                                               *)

(* A reorg leaves the blocks up to its fork alone, which is above every height  *)
(* that is too deep; with honest peers it ends above the height it began at.    *)
ForkInv ==
  reorg # None =>
    /\ reorg.fork <= outer.height /\ outer.height - reorg.fork < JournalWindow
    /\ reorg.fork <= height
    /\ \A v \in 0 .. reorg.fork : hist[v] = outer.hist[v]
    /\ ~ShortReorgs =>
         outer.height < reorg.left + IF reorg.stage = "revert" THEN reorg.fork ELSE height

LEMMA ForkStep == TablesInv /\ ForkInv /\ [Next]_vars => ForkInv'
<1> SUFFICES ASSUME TablesInv, ForkInv, [Next]_vars PROVE ForkInv'
  OBVIOUS
<1>0. /\ height \in Nat /\ JournalWindow \in Nat /\ MaxHeight \in Nat
      /\ reorg # None => /\ reorg \in ReorgType /\ reorg.left \in Nat /\ reorg.fork \in Nat
                         /\ outer.height \in Nat
  BY BoundsAssumption DEF TablesInv, TablesTypeOK, ReorgInv, Chain, ReorgType, Heights
<1>1. ASSUME UNCHANGED <<height, hist, reorg, outer>> PROVE ForkInv'
  BY <1>1 DEF ForkInv
<1>2. CASE RejectBlock \/ RevertWithoutJournal \/ Restart
  <2>1. CASE reorg = None
    <3>1. reorg' = None
      BY <1>2, <2>1 DEF RejectBlock, RevertWithoutJournal, Restart, Reverting
    <3> QED BY <3>1 DEF ForkInv
  <2>2. CASE reorg # None
    <3>1. reorg' = None
      BY <1>2, <2>2 DEF RejectBlock, RevertWithoutJournal, Restart, RollbackReorg
    <3> QED BY <3>1 DEF ForkInv
  <2> QED BY <2>1, <2>2
<1>3. CASE CommitBlock
  <2>1. height' = height + 1 /\ phase # "idle" /\ outer' = outer /\ open.height = height + 1
        /\ hist' = [hist EXCEPT ![height + 1] = [state |-> state, side |-> side]]
    BY <1>3 DEF CommitBlock, TablesInv, BlockInv
  <2>2. CASE reorg = None
    <3>1. reorg' = None
      BY <1>3, <2>2 DEF CommitBlock
    <3> QED BY <3>1 DEF ForkInv
  <2>3. CASE reorg # None
    <3>1. /\ reorg.stage = "apply" /\ reorg.left > 0
          /\ reorg' = [reorg EXCEPT !.left = reorg.left - 1]
      BY <1>3, <2>1, <2>3 DEF CommitBlock, TablesInv, BlockInv
    <3>2. reorg'.stage = "apply" /\ reorg'.left = reorg.left - 1 /\ reorg'.fork = reorg.fork
      BY <1>0, <2>3, <3>1 DEF ReorgType
    <3>3. \A v \in 0 .. reorg.fork : hist'[v] = hist[v]
      <4> SUFFICES ASSUME NEW v \in 0 .. reorg.fork PROVE hist'[v] = hist[v]
        OBVIOUS
      <4>1. v # height + 1
        BY <1>0, <2>3 DEF ForkInv
      <4>2. reorg.fork <= height /\ height <= MaxHeight
        BY <2>3 DEF ForkInv, TablesInv, Chain, Heights
      <4>3. v \in Heights
        BY <1>0, <2>3, <4>2 DEF Heights
      <4> QED BY <2>1, <4>1, <4>3 DEF TablesInv, TablesTypeOK
    <3> QED BY <1>0, <2>1, <2>3, <3>1, <3>2, <3>3 DEF ForkInv
  <2> QED BY <2>2, <2>3
<1>4. ASSUME NEW f \in Heights \ {0}, NEW n \in Heights, BeginReorg(f, n) PROVE ForkInv'
  <2>1. /\ f <= height /\ f > height - JournalWindow /\ (~ShortReorgs => f + n > height)
        /\ UNCHANGED <<height, hist>>
        /\ outer'.height = height /\ outer'.hist = hist
        /\ reorg' = [fork |-> f, left |-> n, stage |-> "revert"]
    BY <1>4 DEF BeginReorg
  <2>2. f \in Nat /\ n \in Nat
    BY <1>0 DEF Heights
  <2> QED BY <1>0, <2>1, <2>2 DEF ForkInv
<1>5. CASE FinishRevert
  <2>1. /\ undo = 0 /\ undo # None /\ reorg' = reorg /\ outer' = outer
        /\ height' = height - 1 /\ hist' = [hist EXCEPT ![height] = None]
    BY <1>5, NoneAssumption DEF FinishRevert
  <2>2. reorg # None /\ reorg.stage = "revert" /\ height > reorg.fork
    BY <2>1 DEF TablesInv, RevertInv
  <2>3. \A v \in 0 .. reorg.fork : hist'[v] = hist[v]
    <3> SUFFICES ASSUME NEW v \in 0 .. reorg.fork PROVE hist'[v] = hist[v]
      OBVIOUS
    <3>1. v # height /\ height <= MaxHeight /\ v \in Heights
      BY <1>0, <2>2 DEF TablesInv, Chain, Heights
    <3> QED BY <2>1, <3>1 DEF TablesInv, TablesTypeOK
  <2> QED BY <1>0, <2>1, <2>2, <2>3 DEF ForkInv
<1>6. CASE RollBackProver
  <2>1. /\ reorg # None /\ reorg.stage = "revert" /\ height = reorg.fork
        /\ reorg' = [reorg EXCEPT !.stage = "apply"]
        /\ UNCHANGED <<height, hist, outer>>
    BY <1>6 DEF RollBackProver, Reverting
  <2>2. reorg'.stage = "apply" /\ reorg'.left = reorg.left /\ reorg'.fork = reorg.fork
    BY <2>1, <1>0 DEF ReorgType
  <2> QED BY <1>0, <2>1, <2>2 DEF ForkInv
<1>7. CASE CommitReorg
  BY <1>7 DEF CommitReorg, ForkInv
<1> QED
  BY <1>1, <1>2, <1>3, <1>4, <1>5, <1>6, <1>7
  DEF Next, vars, OutsideBlock, BeginBlock, ConfirmSubBlock, PruneSubtree, InsertBox,
      ConsumeBox, PutIdentityRecord, InsertLikeRecord, InsertVouchCooldown,
      DeleteVouchCooldown, FeedProver, BeginRevert, UndoMutation

(* The tables a start would find are those of the blocks of its chain.          *)
KeptAt(hs, v) == Kept(hs[v].state, hs[v].side)
ChainLedger(h, hs) == [i \in 1 .. h + 1 |-> KeptAt(hs, i - 1)]

LedgerIs == /\ DiskHeight \in Heights
            /\ \A v \in 0 .. DiskHeight : DiskHist[v] \in HistEntry
            /\ Ledger = ChainLedger(DiskHeight, DiskHist)

LEMMA LedgerOfChain == TablesInv /\ SideInv => LedgerIs
<1> SUFFICES ASSUME TablesInv, SideInv PROVE LedgerIs
  OBVIOUS
<1>1. /\ DiskHeight \in Heights
      /\ \A v \in 0 .. DiskHeight : DiskHist[v] \in HistEntry
  BY DEF TablesInv, ReorgInv, Chain, DiskHeight, DiskHist
<1>2. Kept(DiskState, DiskSide) = KeptAt(DiskHist, DiskHeight)
  <2>1. CASE reorg # None
    BY <2>1 DEF TablesInv, ReorgInv, SideInv, SameSide, DiskHeight, DiskHist, DiskState, DiskSide,
       Kept, KeptAt
  <2>2. CASE reorg = None /\ phase # "idle"
    BY <2>2 DEF TablesInv, BlockInv, SideInv, SameSide, DiskHeight, DiskHist, DiskState, DiskSide,
       Kept, KeptAt
  <2>3. CASE reorg = None /\ phase = "idle"
    <3>1. undo = None
      BY <2>3 DEF TablesInv, RevertInv
    <3> QED BY <2>3, <3>1 DEF TablesInv, StateExact, Quiet, SideInv, SameSide, DiskHeight, DiskHist,
              DiskState, DiskSide, Kept, KeptAt
  <2> QED BY <2>1, <2>2, <2>3
<1>3. \A i \in 1 .. DiskHeight + 1 :
        (IF i = DiskHeight + 1 THEN Kept(DiskState, DiskSide)
         ELSE Kept(DiskHist[i - 1].state, DiskHist[i - 1].side)) = KeptAt(DiskHist, i - 1)
  BY <1>1, <1>2 DEF KeptAt, Heights
<1> QED BY <1>1, <1>3 DEF LedgerIs, Ledger, ChainLedger

LEMMA ChainLedgerTyped ==
  ASSUME NEW h \in Heights, NEW hs, \A v \in 0 .. h : hs[v] \in HistEntry
  PROVE  ChainLedger(h, hs) \in Seq(KeptTables) /\ Len(ChainLedger(h, hs)) = h + 1
<1>1. h \in Nat /\ h + 1 \in Nat
  BY BoundsAssumption DEF Heights
<1>2. ASSUME NEW i \in 1 .. h + 1 PROVE KeptAt(hs, i - 1) \in KeptTables
  <2>1. i - 1 \in 0 .. h
    BY <1>1
  <2>2. hs[i - 1].state \in State /\ hs[i - 1].side \in Side
    BY <2>1 DEF HistEntry
  <2> QED BY <2>2 DEF KeptAt, Kept, KeptTables, State, Side
<1> QED BY <1>1, <1>2 DEF ChainLedger

LEMMA LedgerInit == Init => Atomic!Init
<1> SUFFICES ASSUME Init PROVE Ledger = <<EmptyTables>>
  BY DEF Atomic!Init
<1>1. DiskHeight = 0 /\ Kept(DiskState, DiskSide) = EmptyTables
  BY DEF Init, DiskHeight, DiskState, DiskSide, Kept, EmptyTables
<1> QED BY <1>1 DEF Ledger

(* Nothing on disk changes.                                                     *)
LEMMA DiskSame ==
  ASSUME LedgerIs, LedgerIs', DiskHeight' = DiskHeight, DiskHist' = DiskHist
  PROVE  Ledger' = Ledger
BY DEF LedgerIs, ChainLedger, KeptAt, Kept

LEMMA LedgerStep ==
  ASSUME TablesInv, ForkInv, LedgerIs, LedgerIs', [Next]_vars
  PROVE  [Atomic!Next]_Ledger
<1>0. /\ height \in Heights /\ height \in Nat /\ JournalWindow \in Nat /\ MaxHeight \in Nat
      /\ reorg # None => /\ reorg.fork \in Nat /\ outer.height \in Nat
  BY BoundsAssumption DEF TablesInv, TablesTypeOK, ReorgInv, Chain, ReorgType, Heights
<1>1. CASE DiskHeight' = DiskHeight /\ DiskHist' = DiskHist
  BY <1>1, DiskSame
<1>2. CASE CommitBlock /\ reorg = None
  <2>1. /\ DiskHeight = height /\ DiskHist = hist /\ DiskHeight' = height + 1
        /\ DiskHist' = [hist EXCEPT ![height + 1] = [state |-> state, side |-> side]]
    BY <1>2 DEF CommitBlock, TablesInv, BlockInv, DiskHeight, DiskHist
  <2> DEFINE now == DiskHist'
  <2>2. /\ Ledger' \in Seq(KeptTables) /\ Len(Ledger') = height + 2
        /\ Ledger \in Seq(KeptTables) /\ Len(Ledger) = height + 1
    <3>1. /\ height + 1 \in Heights /\ (\A v \in 0 .. height + 1 : now[v] \in HistEntry)
          /\ Ledger' = ChainLedger(height + 1, now)
      BY <2>1 DEF LedgerIs, ChainLedger, KeptAt, Kept
    <3>2. (\A v \in 0 .. height : hist[v] \in HistEntry) /\ Ledger = ChainLedger(height, hist)
      BY <2>1 DEF LedgerIs
    <3> HIDE DEF now
    <3>3. Ledger' \in Seq(KeptTables) /\ Len(Ledger') = (height + 1) + 1
      BY <3>1, ChainLedgerTyped
    <3>4. Ledger \in Seq(KeptTables) /\ Len(Ledger) = height + 1
      BY <1>0, <3>2, ChainLedgerTyped
    <3> QED BY <1>0, <3>3, <3>4
  <2>3. \A v \in 0 .. height : DiskHist'[v] = hist[v]
    BY <1>0, <2>1 DEF Heights, TablesInv, TablesTypeOK
  <2>4. \A i \in 1 .. height + 1 : Ledger'[i] = Ledger[i]
    BY <1>0, <2>1, <2>3 DEF LedgerIs, ChainLedger, KeptAt, Kept
  <2>5. Atomic!ApplyBlock
    BY <1>0, <2>2, <2>4 DEF Atomic!ApplyBlock, Atomic!Keeps
  <2> QED BY <2>5 DEF Atomic!Next
<1>3. CASE CommitReorg
  <2>1. /\ reorg # None /\ reorg' = None /\ reorg.stage = "apply" /\ reorg.left = 0
        /\ height' = height /\ hist' = hist
    BY <1>3 DEF CommitReorg
  <2>2. /\ DiskHeight = outer.height /\ DiskHist = outer.hist
        /\ DiskHeight' = height /\ DiskHist' = hist
    BY <2>1 DEF DiskHeight, DiskHist
  <2>3. /\ Ledger' \in Seq(KeptTables) /\ Len(Ledger') = height + 1
        /\ Ledger \in Seq(KeptTables) /\ Len(Ledger) = outer.height + 1
    BY <2>2, ChainLedgerTyped DEF LedgerIs
  <2> DEFINE n == reorg.fork + 1
  <2>4. /\ n \in 1 .. Len(Ledger) /\ Len(Ledger) - n < JournalWindow /\ n <= Len(Ledger')
        /\ ~ShortReorgs => Len(Ledger') > Len(Ledger)
    BY <1>0, <2>1, <2>3 DEF ForkInv
  <2>5. \A i \in 1 .. n : Ledger'[i] = Ledger[i]
    <3> SUFFICES ASSUME NEW i \in 1 .. n PROVE Ledger'[i] = Ledger[i]
      OBVIOUS
    <3>1. i - 1 \in 0 .. reorg.fork /\ i \in 1 .. height + 1 /\ i \in 1 .. outer.height + 1
      BY <1>0, <2>1 DEF ForkInv
    <3>2. Ledger' = ChainLedger(height, hist)
      BY <2>1, <2>2 DEF LedgerIs, ChainLedger, KeptAt, Kept
    <3>3. Ledger = ChainLedger(outer.height, outer.hist)
      BY <2>2 DEF LedgerIs
    <3>4. Ledger'[i] = KeptAt(hist, i - 1) /\ Ledger[i] = KeptAt(outer.hist, i - 1)
      BY <3>1, <3>2, <3>3 DEF ChainLedger
    <3>5. hist[i - 1] = outer.hist[i - 1]
      BY <2>1, <3>1 DEF ForkInv
    <3> QED BY <3>4, <3>5 DEF KeptAt
  <2> HIDE DEF n
  <2>6. Atomic!Reorg(n)
    BY <2>3, <2>4, <2>5 DEF Atomic!Reorg, Atomic!Keeps
  <2> QED BY <2>4, <2>6 DEF Atomic!Next
<1>4. CASE RejectBlock \/ RevertWithoutJournal \/ Restart
  <2>1. CASE reorg = None
    <3>1. UNCHANGED <<height, hist, reorg>>
      BY <1>4, <2>1 DEF RejectBlock, RevertWithoutJournal, Restart, Reverting
    <3> QED BY <1>1, <2>1, <3>1 DEF DiskHeight, DiskHist
  <2>2. CASE reorg # None
    <3>1. reorg' = None /\ height' = outer.height /\ hist' = outer.hist
      BY <1>4, <2>2 DEF RejectBlock, RevertWithoutJournal, Restart, RollbackReorg
    <3> QED BY <1>1, <2>2, <3>1 DEF DiskHeight, DiskHist
  <2> QED BY <2>1, <2>2
<1>5. ASSUME NEW f \in Heights \ {0}, NEW n \in Heights, BeginReorg(f, n)
      PROVE  [Atomic!Next]_Ledger
  BY <1>1, <1>5 DEF BeginReorg, DiskHeight, DiskHist
<1>6. ASSUME reorg # None, reorg' # None, outer' = outer PROVE [Atomic!Next]_Ledger
  BY <1>1, <1>6 DEF DiskHeight, DiskHist
<1>7. CASE \/ CommitBlock /\ reorg # None
           \/ BeginRevert \/ UndoMutation \/ FinishRevert \/ RollBackProver
  <2>1. reorg # None
    BY <1>7, NoneAssumption DEF TablesInv, RevertInv, BeginRevert, UndoMutation, FinishRevert,
       RollBackProver, Reverting
  <2>2. reorg' # None
    <3>0. reorg \in ReorgType
      BY <2>1 DEF TablesInv, TablesTypeOK
    <3>1. CASE UNCHANGED reorg
      BY <2>1, <3>1
    <3>2. CASE RollBackProver
      <4>1. reorg' \in ReorgType
        BY <3>0, <3>2 DEF RollBackProver, ReorgType
      <4> QED BY <4>1, NoneAssumption
    <3>3. CASE CommitBlock
      <4>1. reorg.left > 0 /\ reorg' = [reorg EXCEPT !.left = reorg.left - 1]
        BY <2>1, <3>3 DEF CommitBlock, TablesInv, BlockInv
      <4>2. reorg' \in ReorgType
        BY <1>0, <3>0, <4>1 DEF ReorgType, Heights
      <4> QED BY <4>2, NoneAssumption
    <3> QED BY <1>7, <3>1, <3>2, <3>3 DEF BeginRevert, UndoMutation, FinishRevert
  <2>3. outer' = outer
    BY <1>7 DEF CommitBlock, BeginRevert, UndoMutation, FinishRevert, RollBackProver
  <2> QED BY <1>6, <2>1, <2>2, <2>3
<1>8. ASSUME UNCHANGED <<height, hist, reorg, outer>> PROVE [Atomic!Next]_Ledger
  BY <1>1, <1>8 DEF DiskHeight, DiskHist
<1> QED
  BY <1>2, <1>3, <1>4, <1>5, <1>7, <1>8
  DEF Next, vars, OutsideBlock, BeginBlock, ConfirmSubBlock, PruneSubtree, InsertBox,
      ConsumeBox, PutIdentityRecord, InsertLikeRecord, InsertVouchCooldown,
      DeleteVouchCooldown, FeedProver

(* For any parameters: at every moment the tables a restart would find are those *)
(* of a chain, and they move only when a whole block or a whole reorg commits;    *)
(* rejected blocks, reverts, failed reorgs and crashes at any store primitive     *)
(* leave them alone (applyOrderingBlock, revertBlock and reorg implement           *)
(* AtomicLedger).                                                               *)
THEOREM LedgerAtomic == Spec => LedgerSpec
<1>1. Init => ForkInv
  BY DEF Init, ForkInv
<1>2. Spec => [](TablesInv /\ ForkInv /\ LedgerIs)
  BY <1>1, ForkStep, SideAlways, LedgerOfChain, PTL DEF Spec
<1>3. /\ TablesInv /\ ForkInv /\ LedgerIs
      /\ (TablesInv /\ ForkInv /\ LedgerIs)'
      /\ [Next]_vars
      => [Atomic!Next]_Ledger
  BY LedgerStep
<1> QED BY LedgerInit, <1>2, <1>3, PTL DEF Spec, LedgerSpec, Atomic!Spec

=============================================================================
