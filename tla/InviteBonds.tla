---------------------------- MODULE InviteBonds ----------------------------
(***************************************************************************)
(* Invites: a karma deposit for the invitee (InviteBox) and one of the       *)
(* inviter's own (BondBox), created together, committed to a key, claimed,    *)
(* cancelled and settled.                                                   *)
(*                                                                         *)
(* An invite and its bond are outputs of one transaction, so a slot of Invite *)
(* holds both; commit and claim replace a bond in its slot.  A user's karma   *)
(* boxes are one number, as in KarmaLedger.  A secret is a bearer instrument, *)
(* so anybody may have the preimage; a transaction has the one signature by.  *)
(* With gateway, a transaction enters through the routes of this node         *)
(* (invites.ts; posts.ts for the transaction that rides with a post), waits in *)
(* the pool and is validated again by the block that embeds it; without,       *)
(* blocks of others bring whatever validateTx accepts.  No block is reverted.  *)
(***************************************************************************)
EXTENDS Integers, FiniteSets, FiniteSetsExt

CONSTANTS
  User,               \* identities
  Invite,             \* slots for the invites of the chain
  Nobody,             \* an inviteePublicKey of length 0
  InviteAmount,       \* INVITE_KARMA_AMOUNT
  BondAmount,         \* INVITE_BOND_KARMA
  ProbationBlocks,    \* INVITE_PROBATION_BLOCKS
  Threshold,          \* INVITE_KARMA_THRESHOLD
  MaxPendingInvites,  \* MAX_PENDING_INVITES
  Genesis,            \* Genesis[u]: the karma u starts with; 0 for no account
  MaxValue,           \* bound on the values put into invites, bonds and karma boxes
  MaxHeight,          \* MaxHeight[gateway]: bound on the chain's height
  MaxPool,            \* bound on the pending transactions
  MaxMoves            \* MaxMoves[gateway]: bound on the karma won and spent elsewhere

ASSUME NobodyAssumption == Nobody \notin User
ASSUME AmountsAssumption ==
  /\ {InviteAmount, BondAmount, ProbationBlocks, Threshold, MaxPendingInvites} \subseteq Nat \ {0}
  /\ {MaxValue, MaxPool} \subseteq Nat /\ {MaxHeight, MaxMoves} \subseteq [BOOLEAN -> Nat]
  /\ Genesis \in [User -> Nat]

VARIABLES
  gateway,      \* does every transaction come through this node's routes?
  height,       \* the last block
  \* Unspent boxes
  accounts,     \* who has a karma box
  karma,        \* karma[u]: the sum of u's karma boxes
  invite,       \* invite[i]: the InviteBox of the slot, or NoBox
  bond,         \* bond[i]: the BondBox of the slot, or NoBox
  used,         \* slots whose creation is in the chain
  \* Mempool
  pool,         \* pending transactions
  moves,        \* karma won and spent elsewhere so far
  \* Ghosts
  own,          \* slots created through POST /invites by the inviter of the invite
  staked        \* staked[i]: the value of the bond of the slot when it was created

boxes == <<accounts, karma, invite, bond, used, own, staked>>
vars  == <<gateway, height, boxes, pool, moves>>

-----------------------------------------------------------------------------
(* Data *)

NoBox     == [value |-> 0, inviter |-> Nobody]
InviteBox == [value : Nat, inviter : User]
BondBox   == [value : Nat, inviter : User, invitee : User \cup {Nobody},
              start : Nat, end : Nat]

Live(b)      == b # NoBox
Committed(b) == Live(b) /\ b.invitee # Nobody
Block        == height + 1

Create == [type : {"create"}, i : Invite, by : User, inviter : User, backer : User,
           value : Nat, stake : Nat, route : {"invites", "posts"}]
Commit == [type : {"commit"}, i : Invite, by : User, key : User, start : Nat]
Claim  == [type : {"claim"}, i : Invite, j : Invite, by : User, value : Nat]
Cancel == [type : {"cancel"}, i : Invite, j : Invite, by : User]
Settle == [type : {"settle"}, j : Invite, by : User]
Tx     == Create \cup Commit \cup Claim \cup Cancel \cup Settle

-----------------------------------------------------------------------------
(* What validateTx demands *)

(* Mutant: the inputs need not cover the deposits. *)
ValidCreateUnfunded(t) ==
  /\ t.i \notin used
  /\ t.by \in accounts

(* KarmaBox -> KarmaBox + InviteBox + BondBox; the bond is born uncommitted.    *)
(* Nothing compares the inviter the two boxes name with the owner of the karma. *)
ValidCreate(t) ==
  /\ t.i \notin used
  /\ t.by \in accounts /\ karma[t.by] >= t.value + t.stake

(* BondBox -> BondBox.  bond_dual: the inviter's signature, or the preimage of  *)
(* the paired invite, still unspent, and the signature of the key named.        *)
ValidCommit(t, h) ==
  /\ Live(bond[t.i]) /\ ~Committed(bond[t.i])
  /\ \/ t.by = bond[t.i].inviter
     \/ t.by = t.key /\ Live(invite[t.i])
  /\ 0 < t.start /\ t.start <= h

(* InviteBox + BondBox -> KarmaBox + BondBox: any committed bond, the karma to  *)
(* its invitee, the values free as long as they add up.                         *)
ValidClaim(t) ==
  /\ Live(invite[t.i]) /\ Committed(bond[t.j])
  /\ t.by \in {bond[t.j].invitee, bond[t.j].inviter}
  /\ t.value <= invite[t.i].value + bond[t.j].value

(* Mutant: a cancel is anybody's whose signature satisfies the guards. *)
ValidCancelAbsorbs(t) ==
  /\ t.by \in accounts
  /\ Live(invite[t.i]) /\ Live(bond[t.j])
  /\ t.by \in {bond[t.j].inviter, bond[t.j].invitee}

(* KarmaBox + InviteBox + BondBox -> KarmaBox of the inviter of both.           *)
ValidCancel(t) ==
  /\ t.by \in accounts
  /\ Live(invite[t.i]) /\ invite[t.i].inviter = t.by
  /\ Live(bond[t.j])   /\ bond[t.j].inviter = t.by

(* BondBox -> KarmaBox of the inviter, after probation or at the threshold.     *)
ValidSettle(t, h) ==
  /\ Committed(bond[t.j])
  /\ t.by \in {bond[t.j].invitee, bond[t.j].inviter}
  /\ h > bond[t.j].end \/ karma[bond[t.j].invitee] >= Threshold

Valid(t, h) == CASE t.type = "create" -> ValidCreate(t)
                 [] t.type = "commit" -> ValidCommit(t, h)
                 [] t.type = "claim"  -> ValidClaim(t)
                 [] t.type = "cancel" -> ValidCancel(t)
                 [] t.type = "settle" -> ValidSettle(t, h)

-----------------------------------------------------------------------------
(* The gateway *)

LiveInvites(u)    == Cardinality({i \in Invite : invite[i].inviter = u})
PendingInvites(u) == Cardinality({t \in pool : t.type = "create" /\ t.inviter = u})

(* Mutant: pending creations are not counted. *)
BelowLimitOnChain(u) == LiveInvites(u) < MaxPendingInvites

(* getPendingInviteCount + countPendingInvites                                 *)
BelowLimit(u) == LiveInvites(u) + PendingInvites(u) < MaxPendingInvites

(* createInvite, commitInvite, claimInvite and cancelInvite, at the current     *)
(* tip; a settlement has no route.  createPost asks only that validateTx passes  *)
(* and that the author owns the first input: its lock transaction may as well    *)
(* create an invite.                                                            *)
Admitted(t) ==
  CASE t.type = "create" -> t.route = "invites" => /\ BelowLimit(t.by)
                                                   /\ t.value = InviteAmount
                                                   /\ t.stake = BondAmount
    [] t.type = "claim"  -> bond[t.j].invitee \notin accounts
    [] t.type = "settle" -> FALSE
    [] OTHER             -> TRUE

(* A slot stands for what one creation makes, so no two that wait share it.     *)
Submit(t) ==
  /\ gateway
  /\ Cardinality(pool) < MaxPool
  /\ \A p \in pool : p # t /\ (t.type = "create" /\ p.type = "create" => p.i # t.i)
  /\ Valid(t, height) /\ Admitted(t)
  /\ pool' = pool \cup {t}
  /\ UNCHANGED <<gateway, height, boxes, moves>>

(* purgeExpired, or the creator's eviction of a body it rejected               *)
Evict(t) ==
  /\ t \in pool
  /\ pool' = pool \ {t}
  /\ UNCHANGED <<gateway, height, boxes, moves>>

-----------------------------------------------------------------------------
(* Block application *)

(* The slots whose boxes a transaction consumes; its karma boxes are a number   *)
Consumes(t) == CASE t.type = "create" -> {}
                 [] t.type = "commit" -> {t.i}
                 [] t.type = "settle" -> {t.j}
                 [] OTHER             -> {t.i, t.j}

(* A pending transaction whose input is gone never applies; it counts for no    *)
(* gate, and leaves the model here rather than when it expires.                 *)
Spent(t) == pool' = {p \in pool : p # t /\ Consumes(p) \cap Consumes(t) = {}}

ApplyCreate(t) ==
  /\ karma'  = [karma EXCEPT ![t.by] = @ - t.value - t.stake]
  /\ invite' = [invite EXCEPT ![t.i] = [value |-> t.value, inviter |-> t.inviter]]
  /\ bond'   = [bond EXCEPT ![t.i] = [value |-> t.stake, inviter |-> t.backer,
                                      invitee |-> Nobody, start |-> 0, end |-> 0]]
  /\ used'   = used \cup {t.i}
  /\ own'    = IF t.by = t.inviter /\ t.route = "invites" THEN own \cup {t.i} ELSE own
  /\ staked' = [staked EXCEPT ![t.i] = t.stake]
  /\ UNCHANGED accounts

ApplyCommit(t) ==
  /\ bond' = [bond EXCEPT ![t.i] = [value |-> @.value, inviter |-> @.inviter,
                                    invitee |-> t.key, start |-> t.start,
                                    end |-> t.start + ProbationBlocks]]
  /\ UNCHANGED <<accounts, karma, invite, used, own, staked>>

(* Mutant: the claim opens a window of its own. *)
ApplyClaimRestarts(t) ==
  LET key == bond[t.j].invitee
      sum == invite[t.i].value + bond[t.j].value
  IN  /\ karma'    = [karma EXCEPT ![key] = @ + t.value]
      /\ accounts' = accounts \cup {key}
      /\ invite'   = [invite EXCEPT ![t.i] = NoBox]
      /\ bond'     = [bond EXCEPT ![t.j] =
                       [value |-> sum - t.value, inviter |-> @.inviter, invitee |-> key,
                        start |-> Block, end |-> @.end]]
      /\ UNCHANGED <<used, own, staked>>

ApplyClaim(t) ==
  LET key == bond[t.j].invitee
      sum == invite[t.i].value + bond[t.j].value
  IN  /\ karma'    = [karma EXCEPT ![key] = @ + t.value]
      /\ accounts' = accounts \cup {key}
      /\ invite'   = [invite EXCEPT ![t.i] = NoBox]
      /\ bond'     = [bond EXCEPT ![t.j] =
                       [value |-> sum - t.value, inviter |-> @.inviter, invitee |-> key,
                        start |-> @.start, end |-> @.end]]
      /\ UNCHANGED <<used, own, staked>>

ApplyCancel(t) ==
  /\ karma'  = [karma EXCEPT ![t.by] = @ + invite[t.i].value + bond[t.j].value]
  /\ invite' = [invite EXCEPT ![t.i] = NoBox]
  /\ bond'   = [bond EXCEPT ![t.j] = NoBox]
  /\ UNCHANGED <<accounts, used, own, staked>>

ApplySettle(t) ==
  LET u == bond[t.j].inviter
  IN  /\ karma'    = [karma EXCEPT ![u] = @ + bond[t.j].value]
      /\ accounts' = accounts \cup {u}
      /\ bond'     = [bond EXCEPT ![t.j] = NoBox]
      /\ UNCHANGED <<invite, used, own, staked>>

(* One transaction of block height + 1, from the pool or from somebody else     *)
ApplyTx(t) ==
  /\ height < MaxHeight[gateway]
  /\ gateway => t \in pool
  /\ Valid(t, Block)
  /\ \/ t.type = "create" /\ ApplyCreate(t)
     \/ t.type = "commit" /\ ApplyCommit(t)
     \/ t.type = "claim"  /\ ApplyClaim(t)
     \/ t.type = "cancel" /\ ApplyCancel(t)
     \/ t.type = "settle" /\ ApplySettle(t)
  /\ Spent(t)
  /\ UNCHANGED <<gateway, height, moves>>

EndBlock ==
  /\ height < MaxHeight[gateway]
  /\ height' = Block
  /\ UNCHANGED <<gateway, boxes, pool, moves>>

(* Likes, vesting, decay, grants: karma u wins or spends outside this module    *)
Earn(u) ==
  /\ moves < MaxMoves[gateway] /\ moves' = moves + 1
  /\ karma'    = [karma EXCEPT ![u] = @ + 1]
  /\ accounts' = accounts \cup {u}
  /\ UNCHANGED <<gateway, height, invite, bond, used, own, staked, pool>>

Burn(u) ==
  /\ moves < MaxMoves[gateway] /\ moves' = moves + 1
  /\ karma[u] > 0
  /\ karma' = [karma EXCEPT ![u] = @ - 1]
  /\ UNCHANGED <<gateway, height, accounts, invite, bond, used, own, staked, pool>>

-----------------------------------------------------------------------------
(* The specification *)

Init ==
  /\ gateway \in BOOLEAN
  /\ height = 0
  /\ accounts = {u \in User : Genesis[u] > 0}
  /\ karma  = Genesis
  /\ invite = [i \in Invite |-> NoBox]
  /\ bond   = [i \in Invite |-> NoBox]
  /\ used = {} /\ pool = {} /\ moves = 0
  /\ own = {} /\ staked = [i \in Invite |-> 0]

Sendable ==
  [type : {"create"}, i : Invite, by : User, inviter : User, backer : User,
   value : 0 .. MaxValue, stake : 0 .. MaxValue, route : {"invites", "posts"}]
    \cup [type : {"commit"}, i : Invite, by : User, key : User, start : 0 .. MaxHeight[gateway]]
    \cup [type : {"claim"}, i : Invite, j : Invite, by : User, value : 0 .. MaxValue]
    \cup Cancel \cup Settle

Next ==
  \/ \E t \in Sendable : Submit(t) \/ ApplyTx(t)
  \/ \E t \in pool : Evict(t)
  \/ EndBlock
  \/ \E u \in User : Earn(u) \/ Burn(u)

Spec == Init /\ [][Next]_vars

-----------------------------------------------------------------------------
(* Properties *)

(* The state has its type: in particular no karma total is ever negative, a     *)
(* bond lives only in a slot that was created, and no box of a slot that was    *)
(* not is there to be spent.                                                    *)
TypeOK ==
  /\ gateway \in BOOLEAN
  /\ {height, moves} \subseteq Nat
  /\ accounts \subseteq User
  /\ karma \in [User -> Nat]
  /\ invite \in [Invite -> InviteBox \cup {NoBox}]
  /\ bond \in [Invite -> BondBox \cup {NoBox}]
  /\ own \subseteq used /\ used \subseteq Invite
  /\ staked \in [Invite -> Nat]
  /\ pool \subseteq Tx
  /\ \A i \in Invite \ used : invite[i] = NoBox /\ bond[i] = NoBox

(* Whatever the blocks bring, a committed bond has the window the commit        *)
(* pinned: it opened at a block that exists, and it is exactly                  *)
(* INVITE_PROBATION_BLOCKS long, through any number of claims that rewrite the   *)
(* box.  So a bond is never locked for longer than the inviter signed up for.   *)
ProbationPinned ==
  \A i \in Invite : Committed(bond[i]) =>
     /\ bond[i].start > 0 /\ bond[i].start <= Block
     /\ bond[i].end - bond[i].start = ProbationBlocks

Of(boxOf, u)   == {i \in Invite : boxOf[i].inviter = u}
Held(boxOf, u) == MapThenSumSet(LAMBDA i : boxOf[i].value, Of(boxOf, u))
Wealth(u)      == karma[u] + Held(invite, u) + Held(bond, u)

(* A transaction that ends a bond, a cancel or a settlement, leaves nobody       *)
(* poorer: not the inviter of the invite it takes along, whoever signs and       *)
(* whichever invite and bond it joins.                                           *)
DepositsReturn ==
  [][(\E j \in Invite : Live(bond[j]) /\ bond'[j] = NoBox)
        => \A u \in User : Wealth(u)' >= Wealth(u)]_vars

(* POST /invites brings nobody more than MAX_PENDING_INVITES invites of his own   *)
(* making that are open or wait in the pool, through creations pooled together,  *)
(* claims, cancels and evictions, whatever other transactions name him.  It is no *)
(* limit on invites: those that come with a post, or in blocks of others, are     *)
(* counted against this route and not limited themselves.                        *)
InviteLimit ==
  gateway => \A u \in User :
    Cardinality({i \in own : invite[i].inviter = u})
      + Cardinality({t \in pool : /\ t.type = "create" /\ t.route = "invites"
                                  /\ t.inviter = u /\ t.by = u})
        <= MaxPendingInvites

(* NODE_INTERFACE.md:948: "The bond's value only ever returns to bond.inviterId. *)
(* Every shape that releases bond value (cancel, settlement) pins the receiving  *)
(* karma box's owner to the inviter."  So a bond of one user that another        *)
(* committed to holds what was staked for as long as it lives.                   *)
BondKeepsValue ==
  \A i \in Invite : Live(bond[i]) /\ bond[i].invitee # bond[i].inviter
                       => bond[i].value >= staked[i]
=============================================================================
