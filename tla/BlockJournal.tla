---------------------------- MODULE BlockJournal ----------------------------
(***************************************************************************)
(* How a node applies an ordering block, rejects it, and takes it back.    *)
(*                                                                         *)
(* applyOrderingBlock (block-apply.ts) runs one block inside a SQLite       *)
(* transaction while a record-once journal is open: every store primitive  *)
(* that changes a row appends its inverse to the journal (journal.ts).     *)
(* revertBlock (fork-resolution.ts) replays that journal, and reorg wraps  *)
(* a run of reverts and applies in one outer transaction.  SQLite cannot   *)
(* reach the in-memory AVL prover, so both callers restore it by hand.     *)
(*                                                                         *)
(* The store primitives are the actions.  Which of them a block calls is    *)
(* the Ledger's business; here any order the mutation phase's own sequence *)
(* allows (confirm, prune, transactions, settlement) may happen.           *)
(***************************************************************************)
EXTENDS Integers, Sequences

CONSTANTS
  Box,              \* box ids (content derived, so an id names one box)
  Identity,         \* user ids
  Like,             \* (post, liker) keys of like_records
  Pair,             \* (voucher, target) keys of vouch_cooldowns
  Post,             \* sub-block ids
  Rest,             \* the fields of an identity record besides its activity
  Rest0,            \* their value in a fresh record (lastDecayBlock, likeCarry = 0)
  Owner,            \* Owner[b]: identity whose clock box b bumps, or None
  LikeTarget,       \* LikeTarget[l]: the post of the like key l
  CooldownBlocks,   \* VOUCH_COOLDOWN_BLOCKS
  JournalWindow,    \* MAX_REORG_DEPTH, also the literal 20 of purgeOldJournals
  ProofHistory,     \* config.maxProofHistory
  ShortReorgs,      \* may the peer answer with fewer blocks than it promised?
  DoubleUnvouch,    \* may a block unvouch one pair twice?
  MaxHeight,        \* bound on the chain's height
  MaxMutations,     \* bound on the mutations of one block
  None              \* no row, no journal, no reorg, ...

ASSUME SetsAssumption ==
  /\ Rest0 \in Rest
  /\ Owner \in [Box -> Identity \cup {None}]
  /\ LikeTarget \in [Like -> Post]

ASSUME BoundsAssumption ==
  /\ CooldownBlocks \in Nat \ {0}
  /\ JournalWindow \in Nat \ {0}
  /\ ProofHistory \in Nat
  /\ MaxHeight \in Nat
  /\ MaxMutations \in Nat
  /\ {ShortReorgs, DoubleUnvouch} \subseteq BOOLEAN

(* index.ts refuses to start when MAX_REORG_DEPTH >= VOUCH_COOLDOWN_BLOCKS.  *)
(* That the tree versions outlast the journals is checked nowhere: 1440       *)
(* against 20 is only the default of maxProofHistory.                         *)
ASSUME WindowAssumption ==
  /\ JournalWindow < CooldownBlocks
  /\ JournalWindow < ProofHistory

VARIABLES
  \* The SQLite file
  state,      \* committed tables: box rows and identity records
  side,       \* like_records, vouch_cooldowns, block_topology, dag_posts.status
  height,     \* getCurrentHeight(): the last ordering_blocks row
  journals,   \* block_journal rows
  versions,   \* avl_tree_versions rows, with the tree each stands for
  \* Process memory
  prover,     \* contents of the in-memory AVL tree
  phase,      \* where applyMutationPhase is, "idle" when no journal is open
  open,       \* openJournal
  undo,       \* mutations revertBlock has left to undo, None when not reverting
  reorg,      \* the reorg in progress, None outside one
  \* Snapshots that better-sqlite3 and the two restoreProver closures keep
  saved,      \* at the savepoint of the open block
  outer,      \* at the start of the reorg's transaction
  \* Ghost
  hist        \* hist[h]: the tables as they were when block h was committed

vars == <<state, side, height, journals, versions, prover, phase, open, undo,
          reorg, saved, outer, hist>>

-----------------------------------------------------------------------------
(* Data *)

Heights == 0 .. MaxHeight
NoRow   == 0                       \* a height column of a missing row

BoxStatus == {"absent", "unspent", "spent"}
Record    == [activity : Heights, rest : Rest]
State     == [box : [Box -> BoxStatus], rec : [Identity -> Record \cup {None}]]
Releases  == 0 .. MaxHeight + CooldownBlocks
Side      == [like : [Like -> Heights], cool : [Pair -> Releases],
              topo : [Post -> Heights], pruned : SUBSET Post]

BoxMutation    == [kind : {"insert", "remove"}, box : Box]
RecordMutation == [kind : {"record"}, id : Identity, record : Record,
                   replaced : Record \cup {None}]
Mutation       == BoxMutation \cup RecordMutation

(* A block journal.  Cooldown insertions are replayed first to last, so of    *)
(* one pair's entries only the last matters: coolIns[p] is the row it          *)
(* replaced, None without an entry.  trail is a ghost: trail[i] is the         *)
(* committed state before mutation i, its last element the state after all.    *)
Journal == [height    : Heights,
            mutations : Seq(Mutation),
            trail     : Seq(State),
            confirmed : SUBSET Post,
            likeIns   : SUBSET Like,
            likeDel   : [Like -> Heights],
            coolIns   : [Pair -> Releases \cup {None}],
            coolDel   : [Pair -> Releases]]

NewJournal(h) == [height |-> h, mutations |-> << >>, trail |-> <<state>>,
                  confirmed |-> {}, likeIns |-> {}, likeDel |-> [l \in Like |-> NoRow],
                  coolIns |-> [p \in Pair |-> None], coolDel |-> [p \in Pair |-> NoRow]]

(* What one journalled primitive does to the committed tables, and the       *)
(* inverse revertBlock applies.                                              *)
Do(m, s) ==
  CASE m.kind = "insert" -> [s EXCEPT !.box[m.box] = "unspent"]
    [] m.kind = "remove" -> [s EXCEPT !.box[m.box] = "spent"]
    [] m.kind = "record" -> [s EXCEPT !.rec[m.id] = m.record]

Undo(m, s) ==
  CASE m.kind = "insert" -> [s EXCEPT !.box[m.box] = "absent"]
    [] m.kind = "remove" -> [s EXCEPT !.box[m.box] = "unspent"]
    [] m.kind = "record" -> [s EXCEPT !.rec[m.id] = m.replaced]

(* The committed entries of the state root: unspent boxes and records.       *)
Committed(s) == [boxes   |-> {b \in Box : s.box[b] = "unspent"},
                 records |-> s.rec]

(* proverFeedFromJournal: insert and remove of one box cancel out, and the   *)
(* last write of a record key wins.                                          *)
BoxesOf(ms, k) == {ms[i].box : i \in {j \in DOMAIN ms : ms[j].kind = k}}
WritesOf(ms, id) == {i \in DOMAIN ms : ms[i].kind = "record" /\ ms[i].id = id}

ApplyFeed(ms, tree) ==
  [boxes   |-> (tree.boxes \ (BoxesOf(ms, "remove") \ BoxesOf(ms, "insert")))
                 \cup (BoxesOf(ms, "insert") \ BoxesOf(ms, "remove")),
   records |-> [id \in Identity |->
                  IF WritesOf(ms, id) = {} THEN tree.records[id]
                  ELSE ms[CHOOSE i \in WritesOf(ms, id) :
                            \A j \in WritesOf(ms, id) : j <= i].record]]

TreeType  == [boxes : SUBSET Box, records : [Identity -> Record \cup {None}]]
HistEntry == [state : State, side : Side]
ReorgType == [fork : Heights, left : Heights, stage : {"revert", "apply"}]

(* None is none of the values it stands in for. *)
ASSUME NoneAssumption ==
  /\ None \notin Identity
  /\ None \notin Record
  /\ None \notin Nat
  /\ None \notin Journal
  /\ None \notin TreeType
  /\ None \notin ReorgType

-----------------------------------------------------------------------------
(* Journal recording hooks *)

PhaseNo == [idle |-> 0, confirm |-> 1, prune |-> 2, txs |-> 3, settle |-> 4, fed |-> 5]

(* The mutation phase runs its steps in one fixed order. *)
Enter(p) ==
  /\ phase # "idle"
  /\ PhaseNo[phase] <= PhaseNo[p]
  /\ phase' = p

Room(n) == Len(open.mutations) + n <= MaxMutations

(* recordBoxInsert, recordBoxRemove, recordIdentityRecordPut: one mutation   *)
(* appended where the row changes.                                           *)
Log(m, j) == [j EXCEPT !.mutations = Append(@, m),
                       !.trail     = Append(@, Do(m, j.trail[Len(j.trail)]))]

Record1(m) ==
  /\ Room(1)
  /\ state' = Do(m, state)
  /\ open'  = Log(m, open)

Put(id, r, s) == [kind |-> "record", id |-> id, record |-> r, replaced |-> s.rec[id]]

OutsideBlock == <<height, journals, versions, prover, undo, reorg, saved, outer, hist>>

-----------------------------------------------------------------------------
(* Applying one block *)

(* applyOrderingBlock up to the mutation phase: the transaction opens, the    *)
(* prover digest is remembered, the journal starts recording.  In a reorg     *)
(* the transaction nests as a savepoint.                                      *)
BeginBlock ==
  /\ phase = "idle" /\ undo = None
  /\ height < MaxHeight
  /\ reorg # None => reorg.stage = "apply" /\ reorg.left > 0
  /\ open'  = NewJournal(height + 1)
  /\ saved' = [state |-> state, side |-> side, prover |-> prover]
  /\ phase' = "confirm"
  /\ UNCHANGED <<state, side, height, journals, versions, prover, undo, reorg, outer, hist>>

(* Sections 7 and 8b for one entry.  confirmPost sets the status of the post  *)
(* whatever it was, so a pruned post listed again is live again; INSERT OR     *)
(* IGNORE keeps the height of the first confirmation.                          *)
ConfirmSubBlock(p) ==
  /\ Enter("confirm")
  /\ p \notin open.confirmed
  /\ side' = [side EXCEPT !.topo[p] = IF @ = NoRow THEN open.height ELSE @,
                          !.pruned = @ \ {p}]
  /\ open' = [open EXCEPT !.confirmed = @ \cup {p}]
  /\ UNCHANGED <<state, OutsideBlock>>

(* Section 8c for the entry whose subtree is ps: deleteLikeRecordsForPosts     *)
(* captures the rows whole before they go, pruneSubtree marks the posts.       *)
PruneSubtree(ps) ==
  LET gone == {l \in Like : LikeTarget[l] \in ps /\ side.like[l] # NoRow}
  IN  /\ Enter("prune")
      /\ \A p \in ps : side.topo[p] # NoRow
      /\ side' = [side EXCEPT
                    !.like = [l \in Like |-> IF l \in gone THEN NoRow ELSE @[l]],
                    !.pruned = @ \cup ps]
      /\ open' = [open EXCEPT !.likeDel =
                    [l \in Like |-> IF l \in gone THEN side.like[l] ELSE @[l]]]
      /\ UNCHANGED <<state, OutsideBlock>>

(* Mutant: the activity bump of a new karma box is not journalled. *)
InsertBoxBumpUnlogged(b) ==
  LET ins  == [kind |-> "insert", box |-> b]
      mid  == Do(ins, state)
      old  == state.rec[Owner[b]]
      bump == Put(Owner[b], [activity |-> open.height,
                             rest |-> IF old = None THEN Rest0 ELSE old.rest], mid)
  IN  /\ \E p \in {"confirm", "prune", "txs", "settle"} : Enter(p)
      /\ state.box[b] = "absent"
      /\ Room(1)
      /\ state' = IF Owner[b] = None THEN mid ELSE Do(bump, mid)
      /\ open'  = Log(ins, open)
      /\ UNCHANGED <<side, OutsideBlock>>

(* insertBox: a plain INSERT, so a box whose id has a row (spent or not)      *)
(* cannot be inserted again.  A karma box that is not a decay burn also bumps *)
(* its owner's activity clock.                                                *)
InsertBox(b) ==
  LET ins  == [kind |-> "insert", box |-> b]
      mid  == Do(ins, state)
      old  == state.rec[Owner[b]]
      bump == Put(Owner[b], [activity |-> open.height,
                             rest |-> IF old = None THEN Rest0 ELSE old.rest], mid)
  IN  /\ \E p \in {"confirm", "prune", "txs", "settle"} : Enter(p)
      /\ state.box[b] = "absent"
      /\ IF Owner[b] = None
           THEN Record1(ins)
           ELSE /\ Room(2)
                /\ state' = Do(bump, mid)
                /\ open'  = Log(bump, Log(ins, open))
      /\ UNCHANGED <<side, OutsideBlock>>

(* consumeBox: every caller reads the box through an unspent-only query.      *)
ConsumeBox(b) ==
  /\ \E p \in {"confirm", "prune", "txs", "settle"} : Enter(p)
  /\ state.box[b] = "unspent"
  /\ Record1([kind |-> "remove", box |-> b])
  /\ UNCHANGED <<side, OutsideBlock>>

(* putIdentityRecord by like settlement or decay: the activity clock is       *)
(* carried through.                                                           *)
PutIdentityRecord(id, r) ==
  LET old == state.rec[id]
  IN  /\ Enter("settle")
      /\ Record1(Put(id, [activity |-> IF old = None THEN 0 ELSE old.activity,
                          rest |-> r], state))
      /\ UNCHANGED <<side, OutsideBlock>>

(* insertLikeRecord: the target must be confirmed and live, and the key free. *)
InsertLikeRecord(l) ==
  /\ Enter("txs")
  /\ side.topo[LikeTarget[l]] # NoRow
  /\ side.like[l] = NoRow
  /\ LikeTarget[l] \notin side.pruned
  /\ side' = [side EXCEPT !.like[l] = open.height]
  /\ open' = [open EXCEPT !.likeIns = @ \cup {l}]
  /\ UNCHANGED <<state, OutsideBlock>>

(* insertVouchCooldown: INSERT OR REPLACE; the row it overwrites, if any, is  *)
(* captured.  Nothing at consensus keeps a voucher from holding two boxes of  *)
(* one pair, so a block may unvouch the pair twice.                           *)
InsertVouchCooldown(p) ==
  /\ Enter("txs")
  /\ ~DoubleUnvouch => open.coolIns[p] = None
  /\ side' = [side EXCEPT !.cool[p] = open.height + CooldownBlocks]
  /\ open' = [open EXCEPT !.coolIns[p] = side.cool[p]]
  /\ UNCHANGED <<state, OutsideBlock>>

Matured == {p \in Pair : side.cool[p] # NoRow /\ side.cool[p] <= open.height}

(* One iteration of processVouchCooldowns (its mint is an InsertBox).         *)
DeleteVouchCooldown(p) ==
  /\ Enter("settle")
  /\ p \in Matured
  /\ side' = [side EXCEPT !.cool[p] = NoRow]
  /\ open' = [open EXCEPT !.coolDel[p] = side.cool[p]]
  /\ UNCHANGED <<state, OutsideBlock>>

(* Section 13: the mutation log is complete and its feed goes to the prover.   *)
FeedProver ==
  /\ phase # "idle" /\ phase # "fed"
  /\ Matured = {}
  /\ phase'  = "fed"
  /\ prover' = ApplyFeed(open.mutations, prover)
  /\ UNCHANGED <<state, side, height, journals, versions, open, undo, reorg,
                 saved, outer, hist>>

(* Mutant: only the journal of the tip is kept. *)
PurgedEarly(v, h) == v < h

(* The literal 20 of purgeOldJournals *)
Purged(v, h) == v < h - JournalWindow

(* The state root matched: the version row and the journal row are written,    *)
(* rows out of their windows are purged, and the (inner) transaction commits.  *)
CommitBlock ==
  LET h == open.height
  IN  /\ phase = "fed"
      /\ height'   = h
      /\ versions' = [v \in Heights |-> IF v = h THEN prover
                                        ELSE IF v < h - ProofHistory THEN None
                                        ELSE versions[v]]
      /\ journals' = [v \in Heights |-> IF v = h THEN open
                                        ELSE IF Purged(v, h) THEN None
                                        ELSE journals[v]]
      /\ hist'     = [hist EXCEPT ![h] = [state |-> state, side |-> side]]
      /\ phase' = "idle" /\ open' = None /\ saved' = None
      /\ reorg' = IF reorg = None THEN None ELSE [reorg EXCEPT !.left = @ - 1]
      /\ UNCHANGED <<state, side, prover, undo, outer>>

(* The transaction a reorg runs in rolls back, and restoreProver of reorg     *)
(* puts the in-memory tree back on the digest it had before the reorg.        *)
RollbackReorg ==
  /\ state' = outer.state /\ side' = outer.side
  /\ height' = outer.height /\ journals' = outer.journals
  /\ versions' = outer.versions /\ hist' = outer.hist
  /\ prover' = outer.prover
  /\ phase' = "idle" /\ open' = None /\ undo' = None
  /\ saved' = None /\ outer' = None /\ reorg' = None

(* Mutant: the funnel forgets restoreProver. *)
RejectBlockKeepsProver ==
  /\ phase # "idle"
  /\ IF reorg = None
       THEN /\ state' = saved.state /\ side' = saved.side
            /\ phase' = "idle" /\ open' = None /\ saved' = None
            /\ UNCHANGED <<height, journals, versions, prover, undo, reorg, outer, hist>>
       ELSE RollbackReorg

(* Any rejection, explicit or thrown, at any point of the block, a state root *)
(* that does not match included: the journal is dropped and the prover        *)
(* restored.  In a reorg the `false` becomes a throw that aborts the reorg.   *)
(* The miner's speculative run of a block always ends this way.               *)
RejectBlock ==
  /\ phase # "idle"
  /\ IF reorg = None
       THEN /\ state' = saved.state /\ side' = saved.side /\ prover' = saved.prover
            /\ phase' = "idle" /\ open' = None /\ saved' = None
            /\ UNCHANGED <<height, journals, versions, undo, reorg, outer, hist>>
       ELSE RollbackReorg

-----------------------------------------------------------------------------
(* Reorganising the chain *)

(* reorg(f, newBlocks): findForkPoint only ever finds a fork among the last   *)
(* JournalWindow blocks.  The caller asks for a strictly heavier chain, and   *)
(* every block has the same work, so an honest answer is longer than ours.    *)
BeginReorg(f, n) ==
  /\ phase = "idle" /\ undo = None /\ reorg = None
  /\ f <= height /\ f > height - JournalWindow
  /\ ~ShortReorgs => f + n > height
  /\ f + n <= MaxHeight
  /\ outer' = [state |-> state, side |-> side, height |-> height, hist |-> hist,
               journals |-> journals, versions |-> versions, prover |-> prover]
  /\ reorg' = [fork |-> f, left |-> n, stage |-> "revert"]
  /\ UNCHANGED <<state, side, height, journals, versions, prover, phase, open,
                 undo, saved, hist>>

Reverting == phase = "idle" /\ reorg # None /\ reorg.stage = "revert"

(* revertBlock(h) with a journal: its mutation loop starts at the last entry. *)
BeginRevert ==
  /\ Reverting /\ undo = None
  /\ height > reorg.fork
  /\ journals[height] # None
  /\ undo' = Len(journals[height].mutations)
  /\ UNCHANGED <<state, side, height, journals, versions, prover, phase, open,
                 reorg, saved, outer, hist>>

(* revertBlock(h) throws when the journal of h has been purged.               *)
RevertWithoutJournal ==
  /\ Reverting /\ undo = None
  /\ height > reorg.fork
  /\ journals[height] = None
  /\ RollbackReorg

(* Mutant: the mutation loop takes the first entry first. *)
UndoMutationForward ==
  LET ms == journals[height].mutations
  IN  /\ undo # None /\ undo > 0
      /\ state' = Undo(ms[Len(ms) - undo + 1], state)
      /\ undo' = undo - 1
      /\ UNCHANGED <<side, height, journals, versions, prover, phase, open, reorg,
                     saved, outer, hist>>

(* One iteration of the mutation loop, last entry first.                      *)
UndoMutation ==
  /\ undo # None /\ undo > 0
  /\ state' = Undo(journals[height].mutations[undo], state)
  /\ undo' = undo - 1
  /\ UNCHANGED <<side, height, journals, versions, prover, phase, open, reorg,
                 saved, outer, hist>>

(* The two loops over cooldown rows: every insertion is deleted and what it   *)
(* replaced put back, then the deleted rows are inserted again.               *)
RestoreCooldowns(j, cool) ==
  [p \in Pair |-> IF j.coolDel[p] # NoRow THEN j.coolDel[p]
                  ELSE IF j.coolIns[p] # None THEN j.coolIns[p]
                  ELSE cool[p]]

(* Mutant: the rows a prune deleted stay deleted. *)
RestoreLikesInsertedOnly(j, like) ==
  [l \in Like |-> IF l \in j.likeIns THEN NoRow ELSE like[l]]

RestoreLikes(j, like) ==
  [l \in Like |-> IF j.likeDel[l] # NoRow THEN j.likeDel[l]
                  ELSE IF l \in j.likeIns THEN NoRow ELSE like[l]]

(* Mutant: the version rows of the reverted height stay. *)
FinishRevertKeepsVersions ==
  LET j == journals[height]
  IN  /\ undo = 0
      /\ side' = [like |-> RestoreLikes(j, side.like),
                  cool |-> RestoreCooldowns(j, side.cool),
                  topo |-> [p \in Post |-> IF side.topo[p] = height THEN NoRow
                                           ELSE side.topo[p]],
                  pruned |-> side.pruned \ j.confirmed]
      /\ height' = height - 1
      /\ journals' = [journals EXCEPT ![height] = None]
      /\ hist' = [hist EXCEPT ![height] = None]
      /\ undo' = None
      /\ UNCHANGED <<state, versions, prover, phase, open, reorg, saved, outer>>

(* The rest of revertBlock: side records, topology, and the rows of the block *)
(* itself, its journal and its tree versions.  unconfirmPost makes the posts   *)
(* the block confirmed pending; nothing takes a prune mark back.               *)
FinishRevert ==
  LET j == journals[height]
  IN  /\ undo = 0
      /\ side' = [like |-> RestoreLikes(j, side.like),
                  cool |-> RestoreCooldowns(j, side.cool),
                  topo |-> [p \in Post |-> IF side.topo[p] = height THEN NoRow
                                           ELSE side.topo[p]],
                  pruned |-> side.pruned \ j.confirmed]
      /\ height' = height - 1
      /\ journals' = [journals EXCEPT ![height] = None]
      /\ versions' = [versions EXCEPT ![height] = None]
      /\ hist' = [hist EXCEPT ![height] = None]
      /\ undo' = None
      /\ UNCHANGED <<state, prover, phase, open, reorg, saved, outer>>

(* versionAtOrBeforeHeight(h) over the version rows vs *)
VersionAtOrBefore(h, vs) ==
  LET rows == {v \in 0 .. h : vs[v] # None}
  IN  IF rows = {} THEN None
      ELSE vs[CHOOSE v \in rows : \A w \in rows : w <= v]

(* Phase 1b of reorg: a missing version would leave the prover where it is. *)
RollBackProver ==
  /\ Reverting /\ undo = None
  /\ height = reorg.fork
  /\ prover' = IF VersionAtOrBefore(height, versions) = None THEN prover
               ELSE VersionAtOrBefore(height, versions)
  /\ reorg' = [reorg EXCEPT !.stage = "apply"]
  /\ UNCHANGED <<state, side, height, journals, versions, phase, open, undo,
                 saved, outer, hist>>

(* Every new block was applied: the outer transaction commits.                *)
CommitReorg ==
  /\ phase = "idle" /\ reorg # None
  /\ reorg.stage = "apply" /\ reorg.left = 0
  /\ reorg' = None /\ outer' = None
  /\ UNCHANGED <<state, side, height, journals, versions, prover, phase, open,
                 undo, saved, hist>>

-----------------------------------------------------------------------------
(* The process dies and starts again *)

(* SQLite discards the transaction that was open; createAvlProver loads the    *)
(* highest version row of the storage.                                         *)
Restart ==
  /\ IF reorg # None
       THEN /\ state' = outer.state /\ side' = outer.side
            /\ height' = outer.height /\ journals' = outer.journals
            /\ versions' = outer.versions /\ hist' = outer.hist
       ELSE /\ state' = IF phase = "idle" THEN state ELSE saved.state
            /\ side'  = IF phase = "idle" THEN side ELSE saved.side
            /\ UNCHANGED <<height, journals, versions, hist>>
  /\ prover' = VersionAtOrBefore(MaxHeight, versions')
  /\ phase' = "idle" /\ open' = None /\ undo' = None
  /\ saved' = None /\ outer' = None /\ reorg' = None

-----------------------------------------------------------------------------
(* The specification *)

(* An empty database after createAvlProver: the tree of the empty state is    *)
(* stored as the version at height 0.                                         *)
Init ==
  /\ state = [box |-> [b \in Box |-> "absent"], rec |-> [id \in Identity |-> None]]
  /\ side = [like |-> [l \in Like |-> NoRow], cool |-> [p \in Pair |-> NoRow],
             topo |-> [p \in Post |-> NoRow], pruned |-> {}]
  /\ height = 0
  /\ journals = [v \in Heights |-> None]
  /\ prover = Committed(state)
  /\ versions = [v \in Heights |-> IF v = 0 THEN prover ELSE None]
  /\ phase = "idle" /\ open = None /\ undo = None /\ reorg = None
  /\ saved = None /\ outer = None
  /\ hist = [v \in Heights |-> IF v = 0 THEN [state |-> state, side |-> side] ELSE None]

Next ==
  \/ BeginBlock
  \/ \E p \in Post : ConfirmSubBlock(p)
  \/ \E ps \in SUBSET Post \ {{}} : PruneSubtree(ps)
  \/ \E b \in Box : InsertBox(b) \/ ConsumeBox(b)
  \/ \E id \in Identity, r \in Rest : PutIdentityRecord(id, r)
  \/ \E l \in Like : InsertLikeRecord(l)
  \/ \E p \in Pair : InsertVouchCooldown(p) \/ DeleteVouchCooldown(p)
  \/ FeedProver
  \/ CommitBlock
  \/ RejectBlock
  \/ \E f \in Heights \ {0}, n \in Heights : BeginReorg(f, n)
  \/ BeginRevert
  \/ RevertWithoutJournal
  \/ UndoMutation
  \/ FinishRevert
  \/ RollBackProver
  \/ CommitReorg
  \/ Restart

Spec == Init /\ [][Next]_vars

-----------------------------------------------------------------------------
(* Properties *)

TablesTypeOK ==
  /\ state \in State /\ side \in Side
  /\ height \in Heights
  /\ journals \in [Heights -> Journal \cup {None}]
  /\ phase \in DOMAIN PhaseNo
  /\ IF phase = "idle" THEN open = None /\ saved = None
     ELSE open \in Journal /\ saved.state \in State /\ saved.side \in Side
  /\ undo = None \/ undo \in Nat
  /\ IF reorg = None THEN outer = None
     ELSE reorg \in ReorgType /\ outer.state \in State /\ outer.side \in Side
  /\ hist \in [Heights -> HistEntry \cup {None}]

TreesTypeOK ==
  /\ prover \in TreeType
  /\ versions \in [Heights -> TreeType \cup {None}]

(* Every variable holds a value of its type. *)
TypeOK == TablesTypeOK /\ TreesTypeOK

Quiet == phase = "idle" /\ undo = None

(* Whenever no block is half applied or half reverted, the boxes and identity *)
(* records are exactly what they were when the block at the current height    *)
(* was committed: rejecting, reverting, aborting and crashing leave no trace   *)
(* (NODE_INTERFACE, "Apply-then-revert MUST restore the exact pre-block UTXO   *)
(* set").                                                                      *)
StateExact == Quiet => state = hist[height].state

(* The same of the like records, which decide whether a like is a duplicate,   *)
(* and of block_topology, which decides who may prune what.                    *)
SideExact ==
  Quiet => /\ side.like = hist[height].side.like
           /\ side.topo = hist[height].side.topo

(* The same of the escrow rows of vouch_cooldowns, whose journal entries        *)
(* store/journal.ts calls side-records "each with an exact inverse".  It fails   *)
(* where a block unvouches one pair twice: undone first to last, the row that     *)
(* the first insertion wrote is put back last.                                  *)
CooldownsExact == Quiet => side.cool = hist[height].side.cool

(* The in-memory AVL tree holds the unspent boxes and the records of the      *)
(* SQLite tables whenever a block could be applied or a template built: the   *)
(* restores by hand reach what the transaction's rollback cannot.             *)
ProverCurrent ==
  Quiet /\ (reorg # None => reorg.stage = "apply") => prover = Committed(state)

(* A stored tree version belongs to a block of the present chain and is that  *)
(* block's committed state: what the proof endpoint serves and what a reorg   *)
(* rolls back to is never a state that has been reverted.                     *)
VersionsTruthful ==
  \A v \in Heights :
    versions[v] # None => v <= height /\ versions[v] = Committed(hist[v].state)

(* Every block a reorg may have to revert still has its journal, so the purge *)
(* of old journals never strands the node on a lighter chain.                 *)
JournalsReachFork ==
  reorg = None =>
    \A v \in Heights : 0 < v /\ v <= height /\ v > height - JournalWindow
                         => journals[v] # None


(* What a start would find in the SQLite file: the snapshot of the transaction  *)
(* that is open, if one is.                                                   *)
DiskHeight == IF reorg # None THEN outer.height ELSE height
DiskHist   == IF reorg # None THEN outer.hist ELSE hist
DiskState  == IF reorg # None THEN outer.state
              ELSE IF phase # "idle" THEN saved.state ELSE state
DiskSide   == IF reorg # None THEN outer.side
              ELSE IF phase # "idle" THEN saved.side ELSE side

(* The tables that a revert takes back.  Prune marks stay, and escrow rows do   *)
(* where one block unvouches a pair twice.                                     *)
Kept(st, sd) == [box |-> st.box, rec |-> st.rec, like |-> sd.like, topo |-> sd.topo,
                 cool |-> IF DoubleUnvouch THEN << >> ELSE sd.cool]
KeptTables == [box  : [Box -> BoxStatus], rec : [Identity -> Record \cup {None}],
               like : [Like -> Heights], topo : [Post -> Heights],
               cool : [Pair -> Releases] \cup {<< >>}]
EmptyTables == [box  |-> [b \in Box |-> "absent"], rec |-> [id \in Identity |-> None],
                like |-> [l \in Like |-> NoRow], topo |-> [p \in Post |-> NoRow],
                cool |-> IF DoubleUnvouch THEN << >> ELSE [p \in Pair |-> NoRow]]

Ledger == [i \in 1 .. DiskHeight + 1 |->
             IF i = DiskHeight + 1 THEN Kept(DiskState, DiskSide)
             ELSE Kept(DiskHist[i - 1].state, DiskHist[i - 1].side)]

Atomic == INSTANCE AtomicLedger WITH
            ledger <- Ledger, Tables <- KeptTables, Genesis <- EmptyTables,
            Depth <- JournalWindow, KeepsWord <- ~ShortReorgs

(* Every step of the node is a step of AtomicLedger: the database moves by whole *)
(* blocks and whole reorgs, whatever is rejected, reverted, aborted or cut short  *)
(* by a crash at any store primitive in between.                                *)
LedgerSpec == Atomic!Spec

=============================================================================
