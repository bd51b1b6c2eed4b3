---------------------------- MODULE KarmaLedger ----------------------------
(***************************************************************************)
(* The karma rules a block applies: what a transaction may do with karma    *)
(* (validateTx and the like and unvouch arms of applyMutationPhase), and    *)
(* what every block settles on its own (prune refunds, like payouts,        *)
(* post-lock vesting, decay, matured vouch escrows).                        *)
(*                                                                         *)
(* A user's karma boxes are one number: a transaction may split and merge   *)
(* them at will, and every mint merges them.  The transactions of a block   *)
(* are applied one by one at height + 1; SettleBlock is the derived end of   *)
(* the block.  That a block is all or nothing is BlockJournal's business.    *)
(* Invite and bond boxes, which hold karma too, and credits are left out.    *)
(***************************************************************************)
EXTENDS Integers, Sequences, FiniteSets, Functions

CONSTANTS
  Identity,           \* user ids, the system key among them
  System,             \* the owner of the genesis karma box
  Post,               \* post ids
  Author,             \* Author[p]: the author block_topology records for p
  Thread,             \* Thread[p]: the thread p is in (p itself for its root)
  LikeCost,           \* LIKE_KARMA_COST
  LikesPerPayout,     \* LIKES_PER_KARMA_PAYOUT
  UnlockPerLikes,     \* POST_LOCK_UNLOCK_PER_LIKES
  LockCost,           \* POST_LOCK_THREAD_COST, POST_LOCK_REPLY_COST
  VouchAmount,        \* VOUCH_KARMA_AMOUNT
  CooldownBlocks,     \* VOUCH_COOLDOWN_BLOCKS
  StaleThreshold,     \* config.karmaStaleThresholdBlocks
  DecayInterval,      \* config.karmaDecayIntervalBlocks
  DecayAmount,        \* config.karmaDecayAmount
  KarmaMinimum,       \* config.karmaMinimum
  SystemKarma,        \* SYSTEM_KARMA_INITIAL
  GrantAmount,        \* the karma of one faucet grant
  ClientRules,        \* does every lock and vouch have the form the web client
                      \* gives it, or only what a block must satisfy?
  MaxHeight,          \* bound on the chain's height
  MaxTxs,             \* bound on the transactions of one block
  MaxVouches          \* bound on the unspent vouch boxes of one pair

ASSUME SetsAssumption ==
  /\ IsFiniteSet(Identity) /\ IsFiniteSet(Post)
  /\ System \in Identity
  /\ Author \in [Post -> Identity]
  /\ Thread \in [Post -> Post]

ASSUME AmountsAssumption ==
  /\ {LikeCost, LikesPerPayout, UnlockPerLikes, LockCost, VouchAmount, CooldownBlocks,
      StaleThreshold, DecayInterval, DecayAmount, GrantAmount} \subseteq Nat \ {0}
  /\ {KarmaMinimum, SystemKarma, MaxHeight, MaxTxs, MaxVouches} \subseteq Nat
  /\ ClientRules \in BOOLEAN

VARIABLES
  height,          \* the last block applied
  phase,           \* where the mutation phase of block height + 1 is
  txs,             \* transactions that block has applied
  \* Committed value layer
  karma,           \* karma[u]: sum of u's unspent karma boxes
  record,          \* identity records; a missing one reads as all zero
  locks,           \* locks[p]: the unspent post-lock boxes of p, oldest first
  vouches,         \* vouches[v]: the unspent vouch boxes of the pair v
  \* Tables beside it
  posts,           \* posts[p]: confirmed (has a topology row) and live, or pruned
  likes,           \* likes[p]: who has a like record of p
  escrow,          \* escrow[v]: release height of the vouch_cooldowns row, 0 if none
  \* Accruals of the block being applied
  likesPerAuthor, likesPerPost,
  \* Ghosts
  supply,          \* karma that should exist: genesis + payouts - what is burnt or lost
  earned,          \* earned[u]: likes u's posts were ever given
  paid,            \* paid[u]: karma those likes ever paid u
  charged          \* charged[u]: karma decay took since u's last activity

value   == <<karma, record, locks, vouches>>
tables  == <<posts, likes, escrow>>
accrual == <<likesPerAuthor, likesPerPost>>
ghosts  == <<supply, earned, paid, charged>>
vars    == <<height, phase, txs, value, tables, accrual, ghosts>>

-----------------------------------------------------------------------------
(* Data *)

Block    == height + 1
Pair     == Identity \X Identity                        \* <<voucher, target>>
LockBox  == [owner : Identity, value : Nat, original : Nat]
Record   == [activity : Nat, decay : Nat, carry : Nat]
Status   == {"unconfirmed", "live", "pruned"}

Least(a, b) == IF a < b THEN a ELSE b
Most(a, b)  == IF a < b THEN b ELSE a

(* bumpActivityClock: every karma box inserted at h that is not a decay burn. *)
Bump(recs, us) == [u \in Identity |-> IF u \in us THEN [recs[u] EXCEPT !.activity = Block]
                                      ELSE recs[u]]
Cleared(us) == [u \in Identity |-> IF u \in us THEN 0 ELSE charged[u]]

Subtree(p) == {q \in Post : (q = p \/ Thread[q] = p) /\ posts[q] # "unconfirmed"}

-----------------------------------------------------------------------------
(* Confirming and pruning *)

(* confirmPost sets the status of a listed post whatever it was; a block may  *)
(* list a post an earlier block listed.                                       *)
ConfirmSubBlock(p) ==
  /\ phase = "confirm"
  /\ posts' = [posts EXCEPT ![p] = "live"]
  /\ UNCHANGED <<height, phase, txs, value, likes, escrow, accrual, ghosts>>

(* getPostLockBox(p) is the first row the query meets.                        *)
Locked(p)     == locks[p] # << >>
LockOf(p)     == Head(locks[p])
Refunded(ps)  == {p \in ps : Locked(p) /\ LockOf(p).value > 0}
RefundTo(u, ps) == {p \in Refunded(ps) : LockOf(p).owner = u}

(* Mutant: the refund is minted but the lock stays. *)
PrunePostKeepsLock(p) ==
  LET ps == Subtree(p)
  IN  /\ phase \in {"confirm", "prune"}
      /\ posts[p] # "unconfirmed"
      /\ phase' = "prune"
      /\ karma' = [u \in Identity |->
                     karma[u] + SumFunction([q \in RefundTo(u, ps) |-> LockOf(q).value])]
      /\ record'  = Bump(record, {LockOf(q).owner : q \in Refunded(ps)})
      /\ charged' = Cleared({LockOf(q).owner : q \in Refunded(ps)})
      /\ likes'   = [q \in Post |-> IF q \in ps THEN {} ELSE likes[q]]
      /\ posts'   = [q \in Post |-> IF q \in ps THEN "pruned" ELSE posts[q]]
      /\ UNCHANGED <<height, txs, locks, vouches, escrow, accrual, supply, earned, paid>>

(* settlePruneUtxo and pruneSubtree for one verified prune entry: one lock of *)
(* each post is consumed and minted back to its owner, the like records of    *)
(* the subtree go.                                                            *)
PrunePost(p) ==
  LET ps == Subtree(p)
  IN  /\ phase \in {"confirm", "prune"}
      /\ posts[p] # "unconfirmed"
      /\ phase' = "prune"
      /\ karma' = [u \in Identity |->
                     karma[u] + SumFunction([q \in RefundTo(u, ps) |-> LockOf(q).value])]
      /\ record'  = Bump(record, {LockOf(q).owner : q \in Refunded(ps)})
      /\ charged' = Cleared({LockOf(q).owner : q \in Refunded(ps)})
      /\ locks'   = [q \in Post |-> IF q \in Refunded(ps) THEN Tail(locks[q]) ELSE locks[q]]
      /\ likes'   = [q \in Post |-> IF q \in ps THEN {} ELSE likes[q]]
      /\ posts'   = [q \in Post |-> IF q \in ps THEN "pruned" ELSE posts[q]]
      /\ UNCHANGED <<height, txs, vouches, escrow, accrual, supply, earned, paid>>

-----------------------------------------------------------------------------
(* Transactions *)

(* Mutant: nobody asks whether the inputs cover the outputs. *)
SpendUnchecked(u, n) ==
  /\ txs < MaxTxs
  /\ phase'   = "txs"
  /\ txs'     = txs + 1
  /\ karma'   = [karma EXCEPT ![u] = @ - n]
  /\ record'  = Bump(record, {u})
  /\ charged' = Cleared({u})
  /\ UNCHANGED height

(* validateTx at height Block for a transaction that spends n karma of u and  *)
(* returns the rest to u: the change is a new karma box, so u was active.     *)
Spend(u, n) ==
  /\ txs < MaxTxs
  /\ karma[u] >= n
  /\ phase'   = "txs"
  /\ txs'     = txs + 1
  /\ karma'   = [karma EXCEPT ![u] = @ - n]
  /\ record'  = Bump(record, {u})
  /\ charged' = Cleared({u})
  /\ UNCHANGED height

(* KarmaBox -> KarmaBox of the same owner *)
Consolidate(u) ==
  /\ karma[u] > 0
  /\ Spend(u, 0)
  /\ UNCHANGED <<locks, vouches, tables, accrual, supply, earned, paid>>

(* A faucet grant, the one transaction that moves karma between owners.       *)
GrantKarma(u) ==
  /\ u # System
  /\ txs < MaxTxs
  /\ karma[System] >= GrantAmount
  /\ phase'   = "txs"
  /\ txs'     = txs + 1
  /\ karma'   = [karma EXCEPT ![System] = @ - GrantAmount, ![u] = @ + GrantAmount]
  /\ record'  = Bump(record, {u, System})
  /\ charged' = Cleared({u, System})
  /\ UNCHANGED <<height, locks, vouches, tables, accrual, supply, earned, paid>>

(* A like burns LikeCost.  At apply the target must be confirmed and live and *)
(* the like record absent, otherwise the whole block is rejected.             *)
ApplyLike(u, p) ==
  /\ posts[p] = "live"
  /\ u \notin likes[p]
  /\ Spend(u, LikeCost)
  /\ supply' = supply - LikeCost
  /\ likes'  = [likes EXCEPT ![p] = @ \cup {u}]
  /\ likesPerAuthor' = [likesPerAuthor EXCEPT ![Author[p]] = @ + 1]
  /\ likesPerPost'   = [likesPerPost EXCEPT ![p] = @ + 1]
  /\ earned' = [earned EXCEPT ![Author[p]] = @ + 1]
  /\ UNCHANGED <<locks, vouches, posts, escrow, paid>>

(* KarmaBox -> KarmaBox + PostLockBox.  A block pins neither the lock's owner  *)
(* nor its originalValue nor how many locks a post has; the client locks       *)
(* LockCost of the author's once.  The post need not be confirmed.             *)
LockKarma(u, p, box) ==
  /\ ClientRules => /\ u = Author[p] /\ ~Locked(p)
                    /\ box = [owner |-> u, value |-> LockCost, original |-> LockCost]
  /\ Spend(u, box.value)
  /\ locks' = [locks EXCEPT ![p] = Append(@, box)]
  /\ UNCHANGED <<vouches, tables, accrual, supply, earned, paid>>

(* KarmaBox -> KarmaBox + VouchBox: no escrow row of the pair may be left.    *)
(* Whether the pair has an unspent vouch box already is asked by the vouch     *)
(* route of the voucher's node, and by no rule of a block.                    *)
CastVouch(u, t) ==
  /\ escrow[<<u, t>>] = 0
  /\ vouches[<<u, t>>] < MaxVouches
  /\ ClientRules => u # t
  /\ Spend(u, VouchAmount)
  /\ vouches' = [vouches EXCEPT ![<<u, t>>] = @ + 1]
  /\ UNCHANGED <<locks, tables, accrual, supply, earned, paid>>

(* VouchBox -> nothing: INSERT OR REPLACE of the pair's escrow row.  When the *)
(* pair's other vouch box was unvouched before, the row that goes was all      *)
(* there was of its stake: that karma is gone.                                *)
Unvouch(u, t) ==
  /\ txs < MaxTxs
  /\ vouches[<<u, t>>] > 0
  /\ phase' = "txs"
  /\ txs' = txs + 1
  /\ vouches' = [vouches EXCEPT ![<<u, t>>] = @ - 1]
  /\ escrow'  = [escrow EXCEPT ![<<u, t>>] = Block + CooldownBlocks]
  /\ supply'  = IF escrow[<<u, t>>] = 0 THEN supply ELSE supply - VouchAmount
  /\ UNCHANGED <<height, karma, record, locks, posts, likes, accrual, earned, paid, charged>>

-----------------------------------------------------------------------------
(* The derived end of a block *)

(* Section 11b, author settlement *)
Total(u)  == record[u].carry + likesPerAuthor[u]
Payout(u) == IF likesPerAuthor[u] = 0 THEN 0
             ELSE (Total(u) \div LikesPerPayout) * (LikesPerPayout - 1)

(* Mutant: an author's carry is what this block's likes leave. *)
CarryForgotten(u) == IF likesPerAuthor[u] = 0 THEN record[u].carry
                     ELSE likesPerAuthor[u] % LikesPerPayout

Carry(u)  == IF likesPerAuthor[u] = 0 THEN record[u].carry
             ELSE Total(u) % LikesPerPayout

(* Mutant: what was unlocked before is unlocked again. *)
ToUnlockAgain(p) ==
  IF likesPerPost[p] = 0 \/ ~Locked(p) THEN 0
  ELSE Most(0, Least(LockOf(p).value, Cardinality(likes[p]) \div UnlockPerLikes))

(* Section 11b, post-lock vesting: what the lock of p releases *)
ToUnlock(p) ==
  IF likesPerPost[p] = 0 \/ ~Locked(p) THEN 0
  ELSE LET unlocked == LockOf(p).original - LockOf(p).value
       IN  Most(0, Least(LockOf(p).value,
                         Cardinality(likes[p]) \div UnlockPerLikes - unlocked))

(* The lock is consumed; a remainder is a new box, so the youngest.           *)
AfterVesting(p) ==
  LET left == LockOf(p).value - ToUnlock(p)
  IN  IF ToUnlock(p) = 0 THEN locks[p]
      ELSE Tail(locks[p]) \o (IF left = 0 THEN << >>
                              ELSE <<[LockOf(p) EXCEPT !.value = left]>>)

Vesting(u) == {p \in Post : ToUnlock(p) > 0 /\ LockOf(p).owner = u}

(* Section 12, applyKarmaDecay, over the balances and clocks vesting left.    *)
Settled(u)   == karma[u] + Payout(u) + SumFunction([p \in Vesting(u) |-> ToUnlock(p)])
Active(u)    == Payout(u) > 0 \/ Vesting(u) # {}
Activity(u)  == IF Active(u) THEN Block ELSE record[u].activity

(* isIdentityStale *)
Stale(u)     == Block > StaleThreshold /\ Block - Activity(u) >= StaleThreshold

(* Mutant: the clock of owedPeriods ignores earlier firings. *)
OwedPeriodsFromActivity(u) == (Block - Activity(u)) \div DecayInterval

OwedPeriods(u) == (Block - Most(Activity(u), record[u].decay)) \div DecayInterval

DecayBurn(u) ==
  IF Stale(u) THEN Least(OwedPeriods(u) * DecayAmount, Most(Settled(u) - KarmaMinimum, 0))
  ELSE 0

(* Section 12b, processVouchCooldowns *)
Matured(u) == {t \in Identity : escrow[<<u, t>>] # 0 /\ escrow[<<u, t>>] <= Block}

SettleBlock ==
  /\ height < MaxHeight
  /\ karma'  = [u \in Identity |-> Settled(u) - DecayBurn(u)
                                     + Cardinality(Matured(u)) * VouchAmount]
  /\ record' = [u \in Identity |->
                  [activity |-> IF Matured(u) # {} THEN Block ELSE Activity(u),
                   decay    |-> IF DecayBurn(u) > 0 THEN Block ELSE record[u].decay,
                   carry    |-> Carry(u)]]
  /\ locks'  = [p \in Post |-> AfterVesting(p)]
  /\ escrow' = [v \in Pair |-> IF v[2] \in Matured(v[1]) THEN 0 ELSE escrow[v]]
  /\ height' = Block /\ phase' = "confirm" /\ txs' = 0
  /\ likesPerAuthor' = [u \in Identity |-> 0]
  /\ likesPerPost'   = [p \in Post |-> 0]
  /\ supply'  = supply + SumFunction([u \in Identity |-> Payout(u)])
                      - SumFunction([u \in Identity |-> DecayBurn(u)])
  /\ paid'    = [u \in Identity |-> paid[u] + Payout(u)]
  /\ charged' = [u \in Identity |-> IF Matured(u) # {} THEN 0
                                    ELSE (IF Active(u) THEN 0 ELSE charged[u]) + DecayBurn(u)]
  /\ UNCHANGED <<vouches, posts, likes, earned>>

-----------------------------------------------------------------------------
(* The specification *)

Init ==
  /\ height = 0 /\ phase = "confirm" /\ txs = 0
  /\ karma   = [u \in Identity |-> IF u = System THEN SystemKarma ELSE 0]
  /\ record  = [u \in Identity |-> [activity |-> IF u = System THEN 1 ELSE 0,
                                    decay |-> 0, carry |-> 0]]
  /\ locks   = [p \in Post |-> << >>]
  /\ vouches = [v \in Pair |-> 0]
  /\ posts   = [p \in Post |-> "unconfirmed"]
  /\ likes   = [p \in Post |-> {}]
  /\ escrow  = [v \in Pair |-> 0]
  /\ likesPerAuthor = [u \in Identity |-> 0]
  /\ likesPerPost   = [p \in Post |-> 0]
  /\ supply  = SystemKarma
  /\ earned  = [u \in Identity |-> 0]
  /\ paid    = [u \in Identity |-> 0]
  /\ charged = [u \in Identity |-> 0]

(* Boxes a client other than the web client may ask for *)
AnyLock == [owner : Identity, value : {LockCost}, original : {LockCost}]

Next ==
  \/ \E p \in Post : ConfirmSubBlock(p) \/ PrunePost(p)
  \/ \E u \in Identity : Consolidate(u) \/ GrantKarma(u)
  \/ \E u \in Identity, p \in Post : ApplyLike(u, p)
  \/ \E u \in Identity, p \in Post, box \in AnyLock : LockKarma(u, p, box)
  \/ \E u, t \in Identity : CastVouch(u, t) \/ Unvouch(u, t)
  \/ SettleBlock

Spec == Init /\ [][Next]_vars

-----------------------------------------------------------------------------
(* Properties *)

(* Every variable holds a value of its type. *)
TypeOK ==
  /\ height \in 0 .. MaxHeight /\ phase \in {"confirm", "prune", "txs"} /\ txs \in 0 .. MaxTxs
  /\ karma \in [Identity -> Nat] /\ record \in [Identity -> Record]
  /\ locks \in [Post -> Seq(LockBox)]
  /\ vouches \in [Pair -> Nat] /\ escrow \in [Pair -> Nat]
  /\ posts \in [Post -> Status] /\ likes \in [Post -> SUBSET Identity]
  /\ likesPerAuthor \in [Identity -> Nat] /\ likesPerPost \in [Post -> Nat]
  /\ supply \in Int
  /\ earned \in [Identity -> Nat] /\ paid \in [Identity -> Nat]
  /\ charged \in [Identity -> Nat]

(* Karma locked under a post, and at stake or in escrow for a vouch            *)
LockedOn(p) == SumFunction([i \in DOMAIN locks[p] |-> locks[p][i].value])
StakedOn(v) == VouchAmount * (vouches[v] + IF escrow[v] = 0 THEN 0 ELSE 1)

(* All the karma there is: boxes, post locks, stakes and escrow                *)
AllKarma == SumFunction(karma) + SumFunction([p \in Post |-> LockedOn(p)])
                               + SumFunction([v \in Pair |-> StakedOn(v)])

(* Karma only appears as a like payout.  It only disappears as a like, as      *)
(* decay, or with the escrow row that unvouching a second vouch of the pair    *)
(* replaces: locks, vesting, prune refunds, vouches and the escrow that lives  *)
(* outside the UTXO set give back exactly what they took, whatever boxes       *)
(* clients other than ours ask for.                                            *)
KarmaConserved == AllKarma = supply

(* However its likes are spread over blocks, prunes and decay firings, an      *)
(* author has been paid LikesPerPayout - 1 for every LikesPerPayout of them,   *)
(* and the carry in its record is the rest.                                    *)
PaidExactly ==
  \A u \in Identity :
    LET settled == earned[u] - likesPerAuthor[u]
    IN  /\ record[u].carry < LikesPerPayout
        /\ paid[u] * LikesPerPayout = (settled - record[u].carry) * (LikesPerPayout - 1)

(* A lock has released no more than the likes its post has now entitle it to: *)
(* vesting is by lifetime likes, however often and in whatever blocks they     *)
(* came, and a late lock starts from zero.                                     *)
LocksVest ==
  \A p \in Post : \A i \in DOMAIN locks[p] :
    LET box == locks[p][i]
    IN  /\ 0 < box.value /\ box.value <= box.original
        /\ box.original - box.value <= Cardinality(likes[p]) \div UnlockPerLikes

(* Decay never takes more than one DecayAmount per whole interval since the    *)
(* identity was last active, however the firings fall: the two halves of the   *)
(* clock charge no interval twice.                                             *)
DecayCharged ==
  \A u \in Identity :
    charged[u] <= Most(0, (height - record[u].activity) \div DecayInterval) * DecayAmount

=============================================================================
