# Verification of dagsocial

TLA+ models of the dagsocial node (TypeScript, `packages/*/src`), the TLC runs
that check them on small instances, and TLAPS proofs of what holds for every
instance.  `PROJECT.json` maps every definition to the lines it translates.

    tlc -workers 2 -config JournalRestore.cfg MCBlockJournal.tla
    tlapm BlockJournalProofs.tla       (KarmaLedgerProofs, ForkChoiceProofs, PostLifecycleProofs,
                                        SyncMachineProofs, BlockCreatorProofs, TransactionProofs,
                                        PeerBansProofs)

## The system

dagsocial is a proof-of-work chain of *ordering blocks* beside a DAG of posts.
A block confirms posts (sub-blocks), embeds UTXO transactions, settles prunes,
and ends with settlement steps that are derived from its content.  Value lives in
*karma* boxes (earned and burned by likes, locked by posts, staked by vouches and
bonds, eaten by decay) and *credit* boxes (coinbase).

| component | state | operations | what makes it correct |
|---|---|---|---|
| block application (`services/block-apply.ts`) | SQLite tables, the open journal, the in-memory AVL prover | `applyOrderingBlock`: checks, mutation phase, prover feed, commit | a block is all or nothing, in SQLite and in memory; the state root is the one of the tables |
| journal, revert, reorg (`store/journal.ts`, `services/fork-resolution.ts`) | `block_journal`, version rows | `revertBlock`, `reorg` | the inverse is exact, for every table; a failed reorg leaves no trace |
| karma settlement (`block-apply.ts`, `decay.ts`, `karma.ts`, `settle-prune-utxo.ts`) | karma boxes, identity records, post locks, vouch escrow, like records | likes, payouts, vesting, prune refunds, decay, unvouch, maturity | karma is conserved up to the named mints and burns; no like, interval or stake counts twice |
| UTXO engine (`services/utxo-engine.ts`) | none | `validateTx`: ownership, conservation, transition table | no transaction creates value or moves karma between owners |
| fork choice (`index.ts`, `fork-resolution.ts`, `net/sync.ts`) | the chain; handlers waiting for a peer | `onOrderingBlock` | only a heavier chain is adopted, whatever happens during the awaits |
| mempool, block creator | `mempool`, template | insert, drain, template, speculation, eviction | what is pooled is not lost without a reason; a rejected body is not rebuilt for ever |
| post lifecycle (`posts.ts`, `stumps.ts`, `post-service.ts`, `content-sweep.ts`) | `dag_posts`, stumps, placeholders | submit, relay, confirm, fill, prune | nodes agree on which posts are live; an honest block is accepted by honest peers |
| invites and bonds (`services/invites.ts`, `routes/invites.ts`) | invite and bond boxes, pending transactions | create, commit, claim, cancel, settle | deposits return to who made them; a bond is locked for the window that was signed; the limit of open invites |
| transaction schema (`routes/json-to-tx.ts`, `checkTxEnvelope`, `checkOutputShape`, `store/utxo.ts`) | `utxo_boxes` rows | decode, gate, materialise, store, read back | nothing throws, no byte is free, a row reads back as the box that was hashed |
| credits, emission, faucet | credit boxes, system box, grant ledger | coinbase, transfer, grant | the emission schedule; one grant per identity |
| DAG service | scores, canonical flags | score, plan, switch | the canonical branch is the heaviest known one |
| sync machine (`net/sync-machine.ts`) | phase, peer, outstanding ids, queues | SyncInfo / Inv / request / response, timer | a node that is behind an honest peer catches up |
| peer manager, peer table, outbound manager (`peer-mgr.ts`, `peerdb.ts`, `outbound-mgr.ts`) | penalties, bans, metadata; addresses and their rows; cooldowns | penalise, ban, expire, record, dial | the two ban surfaces agree; a ban is earned |
| gossip, handshake, codecs, API, UI, database | | | reads, formatting, plumbing |

**Interaction.**  The node is one Node.js process: a callback runs to its next
`await` undisturbed, and `applyOrderingBlock`, `revertBlock` and `reorg` have no
`await`.  Gossip, the sync machine, the miner and the HTTP handlers all end in
`applyOrderingBlock` or in a mempool insert.  SQLite is the only durable state;
the AVL prover, the template, the sync machine and the peer tables live in memory.

**What is hard.**  Rollbacks that SQLite cannot reach (prover); inverses that
have to be exact for tables SQLite will not roll back (a committed block); state
read before an `await` and used after it; effects of a block that depend on
tables another node may not have (post content); arithmetic that is spread over
many blocks (carry, vesting, decay clocks).  `PROJECT.json` lists these hazards at
their lines with the property that would catch each.

## Modules

### AtomicLedger, BlockJournal (`MCBlockJournal`, `BlockJournalProofs`)

`AtomicLedger` is the promise: the database moves by whole blocks and by whole reorgs of
fewer than `Depth` blocks, to longer chains if peers keep their word, and by nothing else.
`BlockJournal` is the code.
One node's tables and memory, and every step of applying, rejecting, reverting and
reorganising, at the granularity of one store primitive (`InsertBox`, `ConsumeBox`,
`PutIdentityRecord`, ...).  `state` holds the tables the state root commits to (box
rows, identity records), `side` those it does not; `journals`, `versions`, `height`
are the other SQLite tables, `prover` the AVL tree in memory.  `open` is the journal
being recorded, `undo` the position of `revertBlock` in a journal, `reorg` the reorg
in progress.  `saved` and `outer` are what SQLite and the two `restoreProver`
closures remember.  Rejection (`RejectBlock`) may happen at any point of a block:
it stands for every `return false` and every throw, and for the miner's
speculative run, which always rolls back.  `Restart` may happen anywhere.  `hist` is
a ghost: the tables as they were when each block was committed.  `LedgerSpec` is the refinement
(`INSTANCE AtomicLedger`): its `Ledger` is what a restart would find on disk at that very
moment, `saved` while a block is open and `outer` while a reorg is, under the blocks of
`hist`.  So every primitive, revert, rejection, failed reorg and crash must be a stutter, and
`CommitBlock` outside a reorg and `CommitReorg` the only steps.  Prune marks are left out of
it, since reverts do not undo them, and escrow rows where `DoubleUnvouch` is set.

Which primitives a block calls is left open except for the order of the phases; a
real block is one of these sequences.  Two switches: `ShortReorgs` (may a peer
answer with fewer blocks than its headers promised?) and `DoubleUnvouch` (may one
block unvouch one pair twice, as only hand-made transactions can arrange?).  Where
`DoubleUnvouch` is true `CooldownsExact` fails, which run `cooldowns_inexact` shows: `revertBlock`
undoes the insertions first to last, so the row the first one wrote is restored last.  The other
side tables are checked with such blocks (`journal_side`).

### KarmaLedger (`MCKarmaLedger`, `KarmaLedgerProofs`)

The karma rules: transactions one at a time at height + 1, then `SettleBlock`, the
derived end of every block (author payout and carry, post-lock vesting, decay,
matured escrows, in this order).  A user's karma boxes are one number, since any
owner may split and merge them and every mint merges them.  `ClientRules` says
whether transactions also keep what the web client asks for (owner and value of a lock, one lock
per post, nobody vouches for himself) or only what a block must satisfy; only `LocksVest` needs it.
How often a user vouches for another is limited by `MaxVouches` alone: the vouch route refuses a
second vouch (`vouch.ts:50`), but of the transactions that come through that route of that node only, and
no rule of a block looks at unspent vouch boxes of the pair.  Ghosts count what should exist (`supply`, which falls
where an unvouch replaces the live escrow row of an earlier one), what authors earned and
were paid, what decay charged, and the likes each account ever gave.

### HeaviestChain, ForkChoice (`MCForkChoice`, `ForkChoiceProofs`)

`HeaviestChain` is the promise: a node extends its chain with a block it mined, or
adopts a strictly heavier chain of mined blocks.  `ForkChoice` is the code:
`onOrderingBlock` split at its two awaits, several runs of it per node (`Slot`),
peers whose chains move in the meantime, restarts.  A block is the sequence of the
miners up to it, so it names its ancestors as `prevBlockHash` does; difficulty is a
constant of the height, so work is length.  `HeaviestSpec` is the refinement
(`INSTANCE HeaviestChain`).  `LostBodies` lets `requestBlocks` return `[]`, as it
does for an empty stream.

### PostLifecycle (`MCPostLifecycle`, `PostLifecycleProofs`)

Posts on their way through several nodes.  A node's tables are one record `db[n]`
(`dag_posts`, `block_topology`, stumps, the mempool, the chain), because every handler ends
without an `await` between two writes and a block or a reorg is one transaction.  `CreatePost`
(HTTP), `RelaySubBlock` and `RelayTx` (gossip), `SweepPost` (content sweep), `RequestPrune`,
`Produce` (creator and `finalizeBlock`), `ReceiveBlock` and `Reorg` are the handlers;
`InsertPost`, `Confirm`, `Marked`, `GetPost` and `Recorded` the store functions they share.

A block has both of its lists, which only an honest producer keeps in step (the structure check
compares their lengths): `entries`, by which posts are confirmed and get their topology row, with
the author each claims, so a block built on a placeholder can be told from an honest one; and
`refs`, by which rows leave the mempool, a revert makes posts pending again, and a reorg puts them
back.  The nodes in `Misnaming` mine blocks whose refs name any posts; `misnamed` is the history
variable of the posts some block had on one side only.  The mempool is one table with one cap
for posts, transactions and prune entries, in rowid order and with duplicates.  `Refilled` is
phase 2 of a reorg: the transactions and posts of each reverted block from the tip down, then the
prune entries, each dropped when the pool is full.  Of a transaction only its row and whether
the chain has it matter.  Karma and likes stay with `KarmaLedger`; entries do not expire here (they do in
`BlockCreator`).

### BlockCreator (`MCBlockCreator`, `BlockCreatorProofs`)

One node's `mempool` table in rowid order and the creator that lives on it.  `Interval`
is the whole of `createOrderingBlock`: purge, fetch the first `Limit` rows, drain the
prune entries, run the body speculatively, then evict the body, offer a template
(external mode) or mine (internal mode).  `mining` says whether a miner searches a
nonce for the very template on offer: rebuilding the template changes its timestamp,
so a nonce for an earlier one is refused.  Nothing but its cap guards the
pool: `Insert` may put in any entry at any time, also one that is there already.  Which bodies the
mutation phase rejects is a matter of chain state and is left open: `refused` is a set of bodies,
one of `Verdicts`, and each block may bring another.  So an entry may be bad on its own, or
only together with others.

### SyncMachine (`MCSyncMachine`, `SyncMachineProofs`)

Both ends of the pull path on several nodes: handshakes, SyncInfo, Inv,
ModifierRequest and ModifierResponse, the outstanding ids by peer, the 30 s interval
with its stall rotation and what `planTick` says of the connections: below `MinPeers[n]` outbound
connections every bootstrap peer is dialled and a handshake run with it, the connected ones too
(`Dialled`); at the floor a peer of the table may be dialled, which runs no handshake (`FillDial`)
and counts as an outbound connection until it closes (`FillLost`).  A block is its height, since the pull
path hands blocks to `applyOrderingBlock` and knows no forks.  Each event has a stream
of its own, so `net` is a set and delivery is in any order.  Time is counted in ticks:
`turn` lets the nodes' intervals fire in a fixed order, as equal intervals do, and a
tick waits for the messages of the last one except for the `MaxMishaps` of them that
are lost or late (`Lose`, `LateStall`).  `stalledPeers` is written and never read in
the code, and is left out.

### TxSchema (`MCTransactions`, `TransactionProofs`)

One transaction from the client to the store and back: `JsonToTx` (the HTTP edge),
`Funnel` (the gate of the block's transaction loop), `CheckTxEnvelope`, `ReadInputs`,
`CheckOutputShape`, `CheckRules` (steps 0 to 7 of `validateTx`), `InsertBox`, and `RowToBox`
as an operator.  A decoded value is one of twenty-two kinds, as many as the predicates, the
conversions and the columns tell apart; a transaction is what each envelope key and each
key of one output holds.  It starts as one the types allow, and `EditEnvelope` and
`EditOutput` replace fields on the wire by anything the decoder of that door can yield.
What the rules say of readable values is a free choice here.  A read that throws ends in the
stage `threw`, in the funnel as well.

### InviteBonds (`MCInviteBonds`, `MCTransactions`, `TransactionProofs`)

An invite and its bond share a slot, as outputs of one transaction; commit and claim
replace the bond in its slot, and claim and cancel may join an invite and a bond of
different slots, which the rules allow.  `Valid*` are the arms of `checkTransitions`
with the guards' signatures, `Admitted` the gates of the routes, `Submit`/`Evict` the pool,
`ApplyTx` a transaction in a block.  `gateway` is chosen once: either every transaction
comes through the routes of this node, or blocks bring whatever `validateTx` accepts.  A creation
has two routes: `invites`, which counts and compares amounts, and `posts`, since `createPost` takes
whatever `validateTx` passes for the transaction that rides with a post.  Reverts are not modelled
here.
`Earn` and `Burn` stand for karma won and spent elsewhere, which the settlement threshold
looks at.  `own` and `staked` are ghosts.

### PeerBans (`MCPeerBans`, `PeerBansProofs`)

`PeerManager` (`peers`, `metadata`, `bans`, by peer id), `PeerDb` (`entries`, `bannedAddrs`, by
address, with `stored` the rows on disk) and the dial phases of the outbound manager, driven by
the events of `NetNode`: connects, both handshakes, peer exchange, violations, penalties,
disconnects, restarts.  The outbound handshake is split at its await (`greeting`), so bans,
disconnects and returns fall in between.  Time is a clock of half decay intervals.  `log`
and `given` are ghosts: the penalties of a stay with their times, and the address a peer
gave last before it was banned.

## Runs

| run | checks | bounds |
|---|---|---|
| `journal_restore` | `LedgerSpec`, `ProverCurrent`, `StateExact`, `VersionsTruthful` | five heights with a journal window of two and a proof history of three, so rows are purged, a reorg takes back several blocks, and one that ends on a shorter chain can reach a purged journal; one box, which bumps an activity clock; two mutations per block, enough for a create-and-spend and for two writes of one record |
| `journal_side` | `SideExact`, `JournalsReachFork` | four heights with a journal window of two, so purges happen; one like, one post, one vouch pair, unvouched twice in a block if need be; cooldown of three, so rows mature |
| `karma_rules` | `TypeOK`, `DecayCharged`, `KarmaConserved`, `PaidExactly`, `LocksVest` | five blocks, a thread and a reply, the system account and one user, who can post, like and vouch for each other, twice before either vouch is withdrawn; payout group of two, one unlock per like, stale threshold, interval and cooldown two: carries, partial vesting, prunes of locked subtrees, several firings with and without activity between them, escrows that mature and escrows that are replaced all occur |
| `fork_choice` | `TypeOK`, `HeaviestSpec`, `ReorgBounded` | two nodes with two waiting handlers each, chains up to four blocks, reorg depth two: a tip moves and moves back in height while a handler waits |
| `post_content` | `TypeOK`, `TopologyOfChain`, `ConfirmedIsListed`, `ContentKept`, `ReorgKeepsPosts` | two nodes, one of them misnaming, a thread and a reply, one transaction; chains up to three blocks above genesis, a pool of two: blocks overtake sub-blocks, transactions take the room of posts, forks of two blocks are reverted |
| `creator_keeps` | `TemplateSound`, `EntriesKept`, `RejectionsEnd`, `TemplateComes` | a post, a transaction that likes it and a prune entry that removes it; verdicts that refuse nothing, every body with the like, the like without the post, or the like beside the prune; a pool of three, two rows per block, one prune per block, expiry after one block, three blocks: pools are full, hold an entry twice, rows are cut off and expire, and entries become bad under a template |
| `sync_catchup` | `TypeOK`, `IdleIsClean`, `CatchesUp` | three nodes in a line, so the middle one serves and asks; the first two have one bootstrap peer each, which is the floor of the first node and below that of the middle one; two blocks, announcements and budget of two ids, responses of one block, so every second id is left outstanding; one mishap |
| `transactions` | of `TxSchema`: `OnlyNullOutputsThrow`, `NoKeyIsFree`, `RowsKeepTheBox`, `ClientsGetThrough` | every box type, every kind of value of every field, three doors; one field replaced.  The theorems hold for any number of replacements |
| | of `InviteBonds`: `TypeOK`, `ProbationPinned`, `InviteLimit`, `DepositsReturn` | two users, one of them new to the chain; two slots, so invites and bonds can be joined crosswise; amounts up to one, a window of one and three blocks (two through the gateway), so probation ends, a pool of two, through the gateway one unit won or spent elsewhere, so a second invite can be paid for |
| `peer_bans` | `TypeOK`, `BannedForTheWorstStretch`, `BanSurfacesAgree`, `TableFollowsBans` | two peers, one address only one of them gives and one both give; a table of one, so every second record evicts; a threshold of three points against penalties of one and two, three penalties in a stay, clock up to two, bans of one tick |
| `fork_lost`, `bond_value`, `cooldowns_inexact` | one property each, violated | see Findings |

`CHECK_DEADLOCK FALSE` stands where a chain bounded by `MaxHeight` ends and nothing
is left to do (`KarmaLedger`, `PostLifecycle`, `BlockCreator`, `InviteBonds`), where a
transaction has reached its end (`TxSchema`), and where the clock stops (`PeerBans`).
`MCTransactions` runs the two modules
about transactions side by side: they share no state, and in a behaviour one moves and the other rests.
Bounds are `MaxHeight`, `MaxMutations`, `MaxTxs`, `MaxVouches`, `MaxMishaps`, `Slot`; in `TxSchema` `MaxEdits`;
in `InviteBonds` `MaxValue`, `MaxPool` and `MaxMoves`; in `PeerBans` `MaxClock`, `MaxPenalties` and
`Rude`, the peers whose penalties are followed: the ledger of one peer says nothing about
another's, so one is enough, while any peer may break the protocol outright.

**Fairness.**  Only the two liveness properties use any.  `TemplateComes` assumes that
the creator's `setInterval` fires (`WF_vars(Interval)`); miners owe nothing.  `CatchesUp`
assumes that events which arrived are handled (`WF_vars(Deliver)`: the event loop
empties its queues, each event in bounded time) and that intervals go on firing.
Losses are finitely many (`MaxMishaps`): with a link that always loses nothing can be
promised.  `CatchesUp`
is promised to a node whose bootstrap list is shorter than `minPeers` (three by default,
`index.ts:143`) and to those bootstrap peers: such a node never reaches its floor, so `planTick`
has every tick dial the list, and each dial shakes hands again.  That is no assumption about scheduling but
what the floor phase does.  A node whose list reaches the floor is promised nothing: once it has
stalled it may stay idle beside a peer that is ahead, and TLC finds that behaviour when `Short(n)` is left
out of the property.  Gossip is not fair: `CatchesUp` is what the pull path achieves alone.
`TemplateComes` has a hypothesis of its own: from some point on nothing more comes into the pool.  While bad entries
keep coming, the code may reject a body at every interval.

## Proofs

Every property of the passing runs is also a theorem, for every value of the constants, except
the two liveness properties.  Each proof has the same layout: a strengthened invariant (the newer ones were
checked by TLC on the run first), one lemma per action or per function the actions
share, and the temporal step last.

| module | theorem | states | beyond the named assumptions |
|---|---|---|---|
| `BlockJournalProofs` | `TypeCorrect`, `StateRestored`, `ProverFollows`, `VersionsFollow` | `TypeOK`, `StateExact`, `ProverCurrent`, `VersionsTruthful` | |
| | `SideRestored` | `SideExact` | |
| | `CooldownsRestored` | `CooldownsExact`, which `cooldowns_inexact` refutes otherwise | `~DoubleUnvouch` |
| | `ForksReachable` | `JournalsReachFork` | `~ShortReorgs` |
| | `LedgerAtomic` | `LedgerSpec`, the refinement | |
| `KarmaLedgerProofs` | `KarmaTypeCorrect`, `DecayBounded`, `AuthorsPaid`, `KarmaIsConserved` | `TypeOK`, `DecayCharged`, `PaidExactly`, `KarmaConserved` | |
| | `VestingBounded` | `LocksVest` | `ClientRules` |
| `ForkChoiceProofs` | `ForkTypeCorrect`, `ReorgsBounded` | `TypeOK`, `ReorgBounded` | |
| | `FollowsHeaviest` | `HeaviestSpec`, the refinement | `LostBodies = FALSE` |
| | `WorkIsKept` | `WorkNeverLost`, which `fork_lost` refutes otherwise | `LostBodies = FALSE` |
| | `OnlyForMore`, `NetworkHoldsWork` | `GivenUpForMore`, `WorkHeld` | |
| `PostLifecycleProofs` | `PostsTypeCorrect`, `TopologyFollows`, `ConfirmedFollows`, `ContentStays`, `ReorgsKeepPosts` | `TypeOK`, `TopologyOfChain`, `ConfirmedIsListed`, `ContentKept`, `ReorgKeepsPosts` | |
| `BlockCreatorProofs` | `CreatorTypeCorrect`, `OffersSound`, `PooledEntriesKept`, `RejectedBodiesEnd` | `TypeOK`, `TemplateSound`, `EntriesKept`, `RejectionsEnd` | |
| `TransactionProofs` | `InvitesTypeCorrect`, `WindowsPinned`, `InvitesLimited`, `DepositsGoBack` | `TypeOK`, `ProbationPinned`, `InviteLimit`, `DepositsReturn` | |
| | `DepositsConserve` | `TotalKept` | finitely many users |
| | `ValidationTotal`, `NoFreeKey`, `RowsKeepBoxes`, `ClientsPass` | `OnlyNullOutputsThrow`, `NoKeyIsFree`, `RowsKeepTheBox`, `ClientsGetThrough` | |
| | `HashBindsEnvelope` | two gated envelopes of one hash are one | |
| `SyncMachineProofs` | `SyncTypeCorrect`, `IdleNodesClean`, `BudgetsKept` | `TypeOK`, `IdleIsClean`, `BudgetKept` | |
| `PeerBansProofs` | `PeersTypeCorrect`, `SurfacesAgree`, `TableFollows`, `StretchesBanned` | `TypeOK`, `BanSurfacesAgree`, `TableFollowsBans`, `BannedForTheWorstStretch` | |

The switches in the last column are where the code does not promise the property:
`DoubleUnvouch`, `ShortReorgs`, `LostBodies` and `ClientRules = FALSE` stand for hand-made
transactions and for peers that send less than they announced, and Findings says what
happens then.  The passing runs check these properties with the same hypotheses (`CooldownsExact`, which
only has the run that refutes it without, apart).

**Induction.**  What a sum, a count or a fold over a sequence does for every input needs
an induction, and the library's induction theorems are stated over an operator.  The
proofs go round them with sets: a claim about all finite sets is the set of the subsets for
which it holds, and the well-foundedness of strict inclusion fills it (`SmallerFirst`); a
claim about all lengths has no least counterexample (`LeastIn`).  This needs the recursion
to be a function: `Charged` of `PeerBans` and `Without` of `BlockCreator` and `PostLifecycle` are written as
recursive functions for this reason, where `SelectSeq` would be a recursive operator.

**BlockJournal.**  The invariant has four parts.  `TablesInv` speaks of the tables.  `StateExact` alone is
not inductive: a revert passes through states that are nobody's committed state.
The journal therefore carries a ghost `trail`, the state before each mutation, and
the invariant says that undoing mutation *i* leads from `trail[i + 1]` to
`trail[i]` (`LogLinks`), that the trail of block *h* begins at `hist[h - 1]` and
ends at `hist[h]`, that during a revert `state` is the trail element `undo` points
at, and that `saved` and `outer` are copies of a good state.  The lemma `UndoDo` is
the heart: every logged mutation is undone by its inverse on the state it was made
on; an insert needs the row to be absent, a remove needs it unspent.
`TreesInv` adds the prover: applying the feed of a journal to the tree of the state
before it gives the tree of the state after it (`FeedExact`, through
`FedBoxesAppend` and `FedRecordsAppend`, one mutation at a time), versions are the
trees of `hist`, and a version exists at every height a reorg can fork at.
`SideInv` is about the tables with inverses of their own.  They have no trail: `LikesOpen`,
`CoolsOpen` and `TopoOpen` say row by row what an open block left of the row or which entry
of its journal gives the row back.  They hold because of the order of the phases: a
like is inserted after every prune of its block, so an id in both lists was first deleted;
an escrow row matures after the last unvouch; and a topology row of a post listed again
keeps its first height, which is why deleting the rows of one height undoes a block.
`ReachInv` follows a reorg: purges use the height of the block being applied, so a
reorg that ends above where it began only needs journals inside the window of its end.
The refinement rests on all of it: outside a half-done block the tables are `hist[height]`
(`StateExact`, `SideExact`), so the ledger on disk is that of one chain at every moment
(`LedgerOfChain`).  A reorg is one step of `AtomicLedger` but many of the node, so `ForkInv`
keeps, until its commit, what the step claims: the fork is fewer than `JournalWindow` blocks below
the height `outer` remembers, up to it `hist` is untouched, and the blocks left to apply
reach beyond that height unless a peer sends fewer.
Assumptions: `SetsAssumption`, `BoundsAssumption`, `NoneAssumption`, and
`WindowAssumption`: the reorg depth is below the cooldown (checked at start by
`validateProtocolConstants`) and below the proof history (checked nowhere; 1440
against 20 by default).

**KarmaLedger.**  `TypeInv` adds to `TypeOK` that no activity is above the block being
applied and no decay clock above the last one (`ClocksOK`); without it decay could burn a negative
amount.  `DecayCharged` is not inductive: between two firings an identity may have been charged
less than its bound and be charged the rest at once.  `ChargedToFiring` says the exact thing:
what was charged is bounded by the whole intervals up to the *last firing*, and the next
one charges the intervals since.  `LocksVest` needs that a post has at most one lock
(`OneVestedLock`), which is what client rules give.  `PaidExactly` is inductive, with the settlement
of all authors in one step.  The conservation theorems compare sums over balances, locks
and stakes before and after each step (`SumWithout`, `SumSame` and the lemmas on one
or two changed entries); the end of a block changes every
balance, lock and stake at once, so each of the three totals is compared on its own
(`SettleKarma`, `SettleLocks`, `SettleStakes`) and what vests and matures cancels between them.  An escrow row that is replaced
while live takes its stake with it; `supply` falls by exactly that stake, so the theorem says that
nothing else goes, whatever boxes clients ask for.  Assumptions: `SetsAssumption` (finitely many
identities and posts, as any database has), `AmountsAssumption`.

**ForkChoice.**  Neither property is inductive, because a
run that awaits acts later on what it read earlier.  The invariant adds that every
chain in play is a chain of mined blocks (`Good`), that a run which asked for blocks
compared a tip higher than its own height with a fork point fewer than `MaxReorgDepth`
blocks below it (`Sound`; the re-check after the await makes that the present height),
and that the chain a peer serves is never shorter than the tip it announced (`Kept`).
The refinement has one step per action: mining maps to `Mine`, extending and
reorganising to `Adopt`, every await to a stutter.
`FollowsHeaviest`, and with it `WorkIsKept`, assumes `LostBodies = FALSE`, and run `fork_lost` shows
that it must.  The others hold with lost bodies as well.  Two of them say what is left of the promise then:
a node takes a block back only where a longer chain than its own has been mined
(`GivenUpForMore`), and of every height that was ever mined some node has a chain now
(`WorkHeld`), so what one node gave up for an empty answer the network still has.  For them the
invariant adds that a tip a run compares with is one of the mined blocks (`Announced`).
Neither has a run: TLC finds no violation when they replace the property of `ForkLost.cfg`.
Assumption: `BoundsAssumption`.

**PostLifecycle.**  The invariant `PostInv` is `Sound` of each node's tables: a row
for whatever the pool or the chain lists, content only of signed posts, confirmed posts
on the chain unless misnamed, and topology rows with the author and height of the first block of the chain
that lists the post (`Records`).  `Sound` is a predicate of a record, not of the state, because
a reorg is many `Revert`s and then many blocks in one action, and each middle record has it too.
Refs and entries are followed apart: what a block confirms is in its entries, what its revert finds is in
its refs, and the difference is in `misnamed`, which only grows.  `ContentKept` and
`ReorgKeepsPosts` are proved of every step: with room for the thrown rows phase 2 puts in all of them, removing
prune entries takes out no post, and a block applied after takes out only what its refs name.
Assumption: `PostAssumption`.

**SyncMachine.**
The invariant says that every machine is typed and clean (idle exactly without a sync
peer, and then with nothing outstanding), and that every message fits the heights: an
id under way is a block some node has, which heights that only grow preserve.  One
lemma per transformation of a machine (`RotatedClean`, `LeftClean`, `AskedClean`, ...)
is shared by the handlers.  `BudgetsKept` counts the ids a node waits for over all peers it asked:
a sync that ends early leaves some outstanding at the old peer, and the next sync peer gets what
is left of the budget.  It needs that `Take` takes no more than it may (`TakeBounded`: below
the last id taken there are fewer).  `BudgetKept` has no run: within the two blocks of
`SyncCatchUp.cfg` the budget of two is out of reach; TLC finds no violation with three blocks,
and one if the budget is counted peer by peer.  Assumption: `SyncAssumption`.

**BlockCreator.**  `Inv` adds that a nonce is searched only for a template and that the rows
a template was built from are in its body or are prunes it drained.  Rows leave the `mempool`
table by `Without`, which keeps the others, once each and in order; that is what `EntriesKept`
and the cap need of every purge, drain and eviction.  `EntriesKept` is about the last row of an entry, since a
table without uniqueness may hold several.  `RejectionsEnd` is the safe half of `TemplateComes`, and
why it holds: an empty body is never refused, so a rejected one has rows, and eviction takes them all; between
two insertions at most `Cap` bodies are rejected.  Assumption: `CreatorAssumption`.

**InviteBonds.**
The conjunction of `TypeOK` and `ProbationPinned` is inductive: a claim copies a window that is a pair of numbers,
a creation lands in a slot `TypeOK` says is empty, and a commit is judged at most one
block before the one it lands in.  `InviteLimit` counts what came by `POST /invites`, so `LimitInv` adds that the slots
in use and the pool are finite (`Counted`), which holds in every reachable state whatever
the sets; the route's comparison leaves room for the creation it admits, and a
creation that is applied moves from one count to the other, since its slot was not in
use.  `DepositsReturn` compares sums over all slots of an inviter: a freed box leaves exactly one
sum by its value (`FreedHeld`), and the rules give that value to the same inviter.
`DepositsConserve` is about everybody at once: boxes, invites and bonds of all users add up to
the same (`Total`) through creation, commit, claim, cancel and settlement, and change only
where karma is won and spent elsewhere.  Its sums run over all slots in use, so a creation adds a slot to
two of them and a join empties two slots at once.  `TotalKept` is stated in the proof module, whose
sums it uses; TLC finds no violation of it with the rest of `Transactions.cfg`.
Assumptions: `NobodyAssumption`, `AmountsAssumption`.

**TxSchema.**  The theorems hold for any number of edits, so for every transaction a peer can put on the
wire.  `GateInv` says what the gate and the output schemas have established by the stage a
transaction has reached, `RowInv` that the row holds the columns of the very output that was
validated.  That nothing but a null output is read before its check is then a case for each stage.
`RowsKeepBoxes` goes through the field types: what the schema accepts of each survives the
column and the way back.  `NoFreeKey` compares two gated envelopes that differ in one part,
`HashBindsEnvelope` any two.  `ClientsPass` needs the other direction, that no gate is too strict:
`ClientInv` says that a transaction nobody has edited is a well-formed one of its type, or its JSON
while it is on the way through the HTTP door.

**PeerBans.**
`BanSurfacesAgree` is not inductive: a ban takes its address from the metadata, which
disconnects and permanent bans delete.  The invariant adds that until a ban is imposed the
address a peer gave is the one its metadata holds, and that every address in the metadata,
in a ban or awaited in a handshake is one its peer may give, so that lifting another
peer's ban cannot reach an address only one peer gives.  `BannedForTheWorstStretch` bounds the
score from below; the invariant `StretchInv` says what it is: exactly the largest excess of a
stretch of the log, taken at the last penalty.  So one number, decayed when it is next
read, is enough to decide every ban.  Assumptions: `BoundsAssumption`,
`AddressesAssumption`, `NoneAssumption`.

## Findings

* **fork_lost** — the blocks applied are never compared with the headers that won; `[]` reverts to the fork and stops.  Only that node loses the work (`NetworkHoldsWork`).
* **bond_value** — `contracts/NODE_INTERFACE.md:948` has a bond's value return to the inviter only; the claim shape pins keys, window and owners but no value, and conservation compares sums, so the claimant may take the bond along and leave a bond of zero.
* **cooldowns_inexact** — `store/journal.ts:57` gives every side-record an exact inverse; the inverses of one block's escrow insertions run first to last (`fork-resolution.ts:139`), so after the revert of a block with two unvouches of a pair the row written by the first of them stays, and its stake may be minted again when it matures.

Seen while modelling, without a run of its own.  Karma, posts and blocks:

* The cooldown gate looks at casts, the row it protects is written at unvouch: two vouches of one pair, both cast before either is withdrawn, cost the first stake.  `utxo-engine.ts:373` says the gate blocks exactly this.  `KarmaConserved` follows the loss in `supply`; it fails when `Unvouch` leaves `supply` alone.
* A post is confirmed by a block's `subBlockEntries` and unconfirmed by its `subBlockRefs`, and `verify.ts:352` compares their lengths only: after a reorg a post stays confirmed that no block lists, or a confirmed one is pending again, and refs that name other posts take those out of every pool.  Hence `misnamed` in `ConfirmedIsListed` and `ReorgKeepsPosts`.
* `reorg` with an empty list (see `fork_lost`) applies no block and so never reaches `clearTemplate`: a template built above the reverted blocks survives.  `BlockCreator` has no reorgs.
* A transaction that a block skips because its inputs are not there stays listed in it, and its row leaves the producer's pool with the block.
* A reorg puts the ids of reverted placeholders into the pool, `getPost` returns a placeholder as a post, and the producer lists it with the all-zero author, which peers that hold the content reject (`block-creator.ts:375` says an honest producer's entries always match).  `ProducerHonest` of `PostLifecycle` fails when added to `PostContent.cfg`.
* Content that arrives for a pruned placeholder makes the row pending again on that node, so nodes of one chain disagree whether the post may be liked (`SUBBLOCK_INTERFACE.md:208` says backfill can never be a consensus dependency).  `LikeVerdictAgrees` fails likewise.
* `revertBlock` undoes everything but the prune: posts stay `pruned` in `dag_posts` on the node that reorganised (fork-resolution.ts:74 says "Reverse all mutations").
* Nothing keeps a block from listing a post again, and `confirmPost` sets the status whatever it was: a pruned post is live again without its like records, and one account can like it twice.
* The owner of a `post_lock` output is never compared with the payer, so a hand-made transaction moves karma between owners through a refund.
* Of two locks of one post a prune entry consumes one.
* In external mode `drainMempoolPrunes` deletes prune entries at every template build, and the next build drops them with the template: they are in no block and no longer in the pool (`MEMPOOL_INTERFACE.md` has them removed after finalisation).
* After a stall the sync machine idles, where `NET_INTERFACE.md:403` has it pick the next outbound peer; a node whose bootstrap peers fill its floor of `minPeers` runs no further handshake and may stay behind.
* `createPost` stores the post before the lock transaction validates, so a retry meets the primary key.
* A reply that is confirmed between a prune intent and its block makes the entry's subtree incomplete, and the body with it is rejected and evicted as a whole.
* `submitMinedBlock` answers with the hash even when the apply inside `finalizeBlock` rejected the block.

Transactions and invites:

* A `null` entry among the outputs passes the envelope gate and makes `computeTxId` throw in the block's transaction loop, so the whole block is rejected; the comment at `block-apply.ts:852` says that the envelope gate ended that and malformed transactions are skipped.  `OnlyNullOutputsThrow` says it is the only such read.
* Merging a mint into existing credit boxes locks all of them until the latest lock.
* The transaction that rides with a post may create an invite (`post-service.ts:190-252` asks for nothing but `validateTx` and the owner of the first input), so `MAX_PENDING_INVITES` binds `POST /invites` only.
* Creating an invite never compares the inviter the two boxes name with the owner of the karma (`NODE_INTERFACE.md`, "Invite create: same owner"): one may make invites in another's name, so `InviteLimit` counts those of one's own making.
* A bond settled at the threshold before its invite is claimed leaves the invite without a bond to claim it with, and cancelling needs one too: it can only leave with another bond of the same parties.
* No route and no client builds a settlement.  The invite forms of `node/public/index.html` do not fit the engine: create sends an `inviteePublicKey` of 32 zero bytes where none is due, claim's bond lacks `inviterId`, cancel sends no preimage.

Peers:

* Two ids with one address: the end of one ban lifts the address although the other's ban lives, hence the `Sole` of `BanSurfacesAgree` (`NET_INTERFACE.md:512` says the surfaces cannot drift apart).
* `isBanned` is only called from `addPeer`, so the address of an expired ban stays banned until that very peer connects again.
* A ban does not close the connection, and a temporarily banned peer that greets on it is Active again; a peer that reconnects starts with a score of zero.
* Bans and banned addresses are not persisted.  `stop()` and `start()` keep the bans of ids but make a new table without banned addresses.
* `PeerDb` calls its storage without a `try`, where `NET_INTERFACE.md` has failures logged and swallowed.
* The fill phase runs no handshake, so a peer it dialled stays Connecting unless it greets itself; seeds are dialled although banned; the address an inbound handshake declares is not filtered by `isBogusAddress`.

## Only model-checked, and not modelled

Liveness (`TemplateComes`, `CatchesUp`) is checked by TLC only: it is out of the prover's
reach, and so is whatever `ENABLED` is in.  Their safe halves are proved (`RejectedBodiesEnd`,
`IdleNodesClean`, `BudgetsKept`).  The proofs start at the modules: that these are
the code is what `PROJECT.json` maps line by line.

Hashes, signatures and proof of work are perfect; header, Merkle and coinbase checks
are a free choice to reject.  Left out: batches and the like and vouch gate columns of
the mempool; the sync machine's handling of malformed messages; the credit arm, emission
and faucet credits; stall marks and eviction of `PeerManager`, which nothing reads or
calls; the DAG service, whose scores and flags no rule of a block or a transaction
reads; challenges, one row per user; codecs and Merkle trees, which are pure and
which unit tests reach; HTTP, feed and UI, reads and formatting but for `jsonToTx`.

What the models do not tell apart: the literal 20 of the journal purge and `MAX_REORG_DEPTH` are one constant
(`JournalWindow`), so the two drifting apart is not seen; invites and bonds meet no reverts, and `InviteLimit`
is not claimed across a reorg; `BanSurfacesAgree` is about addresses that one peer alone gives.
`ProducerHonest` and `LikeVerdictAgrees` are stated in `PostLifecycle` and checked by no run, since the code
violates them.

## Plan

Done, in this order: `BlockJournal`, `KarmaLedger`, `ForkChoice` over `HeaviestChain`,
`PostLifecycle`, `SyncMachine`, `BlockCreator`, `TxSchema`, `InviteBonds`, `PeerBans`, and the
proofs above.  What could follow:

1. `Credits`: emission, the coinbase, locks of merged boxes.
2. `ForkChoice` composed with the pull path of `SyncMachine`: the heavier chain is adopted in the end.
