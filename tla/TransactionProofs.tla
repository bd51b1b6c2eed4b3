-------------------------- MODULE TransactionProofs --------------------------
(***************************************************************************)
(* Proofs about the rules of transactions: first the life of invites and     *)
(* bonds (InviteBonds), then the shape of any transaction (TxSchema).          *)
(*                                                                             *)
(* TypeOK, ProbationPinned and InviteLimit hold in every reachable state of    *)
(* InviteBonds and DepositsReturn and TotalKept of every step, for every set   *)
(* of users and slots, every amount and every bound.  TypeOK and               *)
(* ProbationPinned are inductive together: a claim rewrites a bond whose       *)
(* window the type invariant says is a pair of numbers, and a creation lands   *)
(* in a slot that TypeOK says is empty.  InviteLimit counts that slot once, in *)
(* the pool or in the chain, since it is not in use before.                    *)
(*                                                                             *)
(* The four invariants of TxSchema follow from GateInv and RowInv, which say   *)
(* what each stage of validateTx has established: they are proved for any      *)
(* number of edits, where a run affords one.                                   *)
(***************************************************************************)
EXTENDS InviteBonds, TxSchema, FiniteSetTheorems, TLAPS

(* A slot of bonds holds a bond if it is not empty, and likewise for invites. *)
LEMMA LiveBond ==
  ASSUME TypeOK, NEW i \in Invite, Live(bond[i])
  PROVE  bond[i] \in BondBox
BY DEF TypeOK, Live

LEMMA LiveInvite ==
  ASSUME TypeOK, NEW i \in Invite, Live(invite[i])
  PROVE  invite[i] \in InviteBox
BY DEF TypeOK, Live

(* What others send is well typed. *)
LEMMA SendableTyped == Sendable \subseteq Tx
<1>1. 0 .. MaxValue \subseteq Nat /\ 0 .. MaxHeight[gateway] \subseteq Nat
  BY AmountsAssumption
<1> QED BY <1>1 DEF Sendable, Tx, Create, Commit, Claim, Cancel, Settle

(* The five kinds of transactions have five types. *)
LEMMA TxKinds ==
  ASSUME NEW t \in Tx
  PROVE  /\ t.type = "create" => t \in Create
         /\ t.type = "commit" => t \in Commit
         /\ t.type = "claim"  => t \in Claim
         /\ t.type = "cancel" => t \in Cancel
         /\ t.type = "settle" => t \in Settle
BY DEF Tx, Create, Commit, Claim, Cancel, Settle

LEMMA InitOK == Init => TypeOK /\ ProbationPinned
BY AmountsAssumption DEF Init, TypeOK, ProbationPinned, Committed, Live, NoBox, Tx

-----------------------------------------------------------------------------
(* One lemma per kind of transaction: what it does to the boxes              *)

BoxesOK == /\ accounts \subseteq User
           /\ karma \in [User -> Nat]
           /\ invite \in [Invite -> InviteBox \cup {NoBox}]
           /\ bond \in [Invite -> BondBox \cup {NoBox}]
           /\ own \subseteq used /\ used \subseteq Invite
           /\ staked \in [Invite -> Nat]
           /\ \A i \in Invite \ used : invite[i] = NoBox /\ bond[i] = NoBox
           /\ ProbationPinned

LEMMA CreateOK ==
  ASSUME TypeOK, ProbationPinned, NEW t \in Create, ValidCreate(t), ApplyCreate(t),
         height' = height
  PROVE  BoxesOK'
<1>1. /\ t.i \in Invite /\ t.by \in User /\ t.inviter \in User /\ t.backer \in User
      /\ t.value \in Nat /\ t.stake \in Nat
  BY DEF Create
<1>2. karma' \in [User -> Nat]
  BY <1>1 DEF ValidCreate, ApplyCreate, TypeOK
<1>3. invite' \in [Invite -> InviteBox \cup {NoBox}]
  BY <1>1 DEF ApplyCreate, TypeOK, InviteBox
<1> DEFINE new == [value |-> t.stake, inviter |-> t.backer, invitee |-> Nobody,
                   start |-> 0, end |-> 0]
<1>4. new \in BondBox /\ ~(new # NoBox /\ new.invitee # Nobody)
  BY <1>1 DEF BondBox
<1>5. bond' = [bond EXCEPT ![t.i] = new]
  BY DEF ApplyCreate
<1> HIDE DEF new
<1>6. bond' \in [Invite -> BondBox \cup {NoBox}]
  BY <1>4, <1>5 DEF TypeOK
<1>7. ProbationPinned'
  <2> SUFFICES ASSUME NEW i \in Invite, Committed(bond[i])'
               PROVE  /\ bond'[i].start > 0 /\ bond'[i].start <= Block'
                      /\ bond'[i].end - bond'[i].start = ProbationBlocks
    BY DEF ProbationPinned
  <2>1. i # t.i
    BY <1>1, <1>4, <1>5 DEF Committed, Live, TypeOK
  <2>2. bond'[i] = bond[i]
    BY <2>1, <1>5 DEF TypeOK
  <2> QED BY <2>2 DEF ProbationPinned, Committed, Live, Block
<1>8. own' \subseteq used' /\ used' \subseteq Invite /\ staked' \in [Invite -> Nat]
  BY <1>1 DEF ApplyCreate, TypeOK
<1>9. \A i \in Invite \ used' : invite'[i] = NoBox /\ bond'[i] = NoBox
  BY <1>1, <1>5 DEF ApplyCreate, TypeOK
<1> QED BY <1>2, <1>3, <1>6, <1>7, <1>8, <1>9 DEF BoxesOK, ApplyCreate, TypeOK

LEMMA CommitOK ==
  ASSUME TypeOK, ProbationPinned, NEW t \in Commit, ValidCommit(t, Block), ApplyCommit(t),
         height' = height
  PROVE  BoxesOK'
<1>1. /\ t.i \in Invite /\ t.key \in User /\ t.start \in Nat
      /\ ProbationBlocks \in Nat
  BY AmountsAssumption DEF Commit
<1>2. bond[t.i] \in BondBox
  BY <1>1, LiveBond DEF ValidCommit
<1> DEFINE new == [value |-> bond[t.i].value, inviter |-> bond[t.i].inviter,
                   invitee |-> t.key, start |-> t.start, end |-> t.start + ProbationBlocks]
<1>3. bond' = [bond EXCEPT ![t.i] = new]
  BY DEF ApplyCommit
<1>4. new \in BondBox /\ new.start = t.start /\ new.end = t.start + ProbationBlocks
  BY <1>1, <1>2 DEF BondBox
<1> HIDE DEF new
<1>5. bond' \in [Invite -> BondBox \cup {NoBox}]
  BY <1>3, <1>4 DEF TypeOK
<1>6. ProbationPinned'
  <2> SUFFICES ASSUME NEW i \in Invite, Committed(bond[i])'
               PROVE  /\ bond'[i].start > 0 /\ bond'[i].start <= Block'
                      /\ bond'[i].end - bond'[i].start = ProbationBlocks
    BY DEF ProbationPinned
  <2>1. CASE i = t.i
    <3>1. bond'[i] = new
      BY <2>1, <1>3 DEF TypeOK
    <3>2. 0 < t.start /\ t.start <= Block
      BY DEF ValidCommit
    <3> QED BY <3>1, <3>2, <1>1, <1>4 DEF Block
  <2>2. CASE i # t.i
    <3>1. bond'[i] = bond[i]
      BY <2>2, <1>3 DEF TypeOK
    <3> QED BY <3>1 DEF ProbationPinned, Committed, Live, Block
  <2> QED BY <2>1, <2>2
<1>7. t.i \in used
  BY <1>1 DEF ValidCommit, Live, TypeOK
<1>8. \A i \in Invite \ used' : invite'[i] = NoBox /\ bond'[i] = NoBox
  BY <1>3, <1>7 DEF ApplyCommit, TypeOK
<1> QED BY <1>5, <1>6, <1>8 DEF BoxesOK, ApplyCommit, TypeOK

LEMMA ClaimOK ==
  ASSUME TypeOK, ProbationPinned, NEW t \in Claim, ValidClaim(t), ApplyClaim(t),
         height' = height
  PROVE  BoxesOK'
<1>1. t.i \in Invite /\ t.j \in Invite /\ t.value \in Nat
  BY DEF Claim
<1>2. invite[t.i] \in InviteBox /\ bond[t.j] \in BondBox /\ bond[t.j].invitee \in User
  BY <1>1, LiveInvite, LiveBond DEF ValidClaim, Committed, BondBox
<1> DEFINE rest == (invite[t.i].value + bond[t.j].value) - t.value
           new  == [value |-> rest, inviter |-> bond[t.j].inviter,
                    invitee |-> bond[t.j].invitee, start |-> bond[t.j].start,
                    end |-> bond[t.j].end]
<1>3. rest \in Nat
  BY <1>1, <1>2 DEF ValidClaim, InviteBox, BondBox
<1>4. bond' = [bond EXCEPT ![t.j] = new]
  BY DEF ApplyClaim
<1>5. /\ new \in BondBox
      /\ new.start = bond[t.j].start /\ new.end = bond[t.j].end
      /\ new.invitee = bond[t.j].invitee
  BY <1>2, <1>3 DEF BondBox
<1> HIDE DEF new, rest
<1>6. bond' \in [Invite -> BondBox \cup {NoBox}]
  BY <1>4, <1>5 DEF TypeOK
<1>7. ProbationPinned'
  <2> SUFFICES ASSUME NEW i \in Invite, Committed(bond[i])'
               PROVE  /\ bond'[i].start > 0 /\ bond'[i].start <= Block'
                      /\ bond'[i].end - bond'[i].start = ProbationBlocks
    BY DEF ProbationPinned
  <2>1. /\ Committed(bond[i])
        /\ bond'[i].start = bond[i].start /\ bond'[i].end = bond[i].end
    BY <1>4, <1>5 DEF ValidClaim, Committed, Live, TypeOK
  <2> QED BY <2>1 DEF ProbationPinned, Block
<1>8. karma' \in [User -> Nat] /\ accounts' \subseteq User
  BY <1>1, <1>2 DEF ApplyClaim, TypeOK
<1>9. invite' \in [Invite -> InviteBox \cup {NoBox}]
  BY <1>1 DEF ApplyClaim, TypeOK
<1>10. t.j \in used
  BY <1>1 DEF ValidClaim, Committed, Live, TypeOK
<1>11. \A i \in Invite \ used' : invite'[i] = NoBox /\ bond'[i] = NoBox
  BY <1>1, <1>4, <1>10 DEF ApplyClaim, TypeOK
<1> QED BY <1>6, <1>7, <1>8, <1>9, <1>11 DEF BoxesOK, ApplyClaim, TypeOK

(* A bond that is taken out of its slot leaves the windows of the others.     *)
LEMMA Emptied ==
  ASSUME TypeOK, ProbationPinned, NEW j \in Invite, bond' = [bond EXCEPT ![j] = NoBox],
         height' = height
  PROVE  ProbationPinned' /\ bond' \in [Invite -> BondBox \cup {NoBox}]
BY DEF ProbationPinned, TypeOK, Committed, Live, Block

LEMMA CancelOK ==
  ASSUME TypeOK, ProbationPinned, NEW t \in Cancel, ValidCancel(t), ApplyCancel(t),
         height' = height
  PROVE  BoxesOK'
<1>1. t.i \in Invite /\ t.j \in Invite /\ t.by \in User
  BY DEF Cancel
<1>2. invite[t.i] \in InviteBox /\ bond[t.j] \in BondBox
  BY <1>1, LiveInvite, LiveBond DEF ValidCancel
<1>3. karma' \in [User -> Nat]
  BY <1>1, <1>2 DEF ApplyCancel, TypeOK, InviteBox, BondBox
<1>4. invite' \in [Invite -> InviteBox \cup {NoBox}]
  BY <1>1 DEF ApplyCancel, TypeOK
<1>5. ProbationPinned' /\ bond' \in [Invite -> BondBox \cup {NoBox}]
  BY <1>1, Emptied DEF ApplyCancel
<1>6. \A i \in Invite \ used' : invite'[i] = NoBox /\ bond'[i] = NoBox
  BY DEF ApplyCancel, TypeOK
<1> QED BY <1>3, <1>4, <1>5, <1>6 DEF BoxesOK, ApplyCancel, TypeOK

LEMMA SettleOK ==
  ASSUME TypeOK, ProbationPinned, NEW t \in Settle, ValidSettle(t, Block), ApplySettle(t),
         height' = height
  PROVE  BoxesOK'
<1>1. t.j \in Invite
  BY DEF Settle
<1>2. bond[t.j] \in BondBox /\ bond[t.j].inviter \in User /\ bond[t.j].value \in Nat
  BY <1>1, LiveBond DEF ValidSettle, Committed, BondBox
<1>3. karma' \in [User -> Nat] /\ accounts' \subseteq User
  BY <1>2 DEF ApplySettle, TypeOK
<1>4. ProbationPinned' /\ bond' \in [Invite -> BondBox \cup {NoBox}]
  BY <1>1, Emptied DEF ApplySettle
<1>5. \A i \in Invite \ used' : invite'[i] = NoBox /\ bond'[i] = NoBox
  BY DEF ApplySettle, TypeOK
<1> QED BY <1>3, <1>4, <1>5 DEF BoxesOK, ApplySettle, TypeOK

-----------------------------------------------------------------------------
(* Every step                                                               *)

LEMMA ApplyOK ==
  ASSUME TypeOK, ProbationPinned, NEW t \in Tx, ApplyTx(t)
  PROVE  TypeOK' /\ ProbationPinned'
<1>1. height' = height /\ Valid(t, Block)
  BY DEF ApplyTx
<1>2. BoxesOK'
  <2>1. CASE t.type = "create" /\ ApplyCreate(t)
    BY <2>1, <1>1, TxKinds, CreateOK DEF Valid
  <2>2. CASE t.type = "commit" /\ ApplyCommit(t)
    BY <2>2, <1>1, TxKinds, CommitOK DEF Valid
  <2>3. CASE t.type = "claim" /\ ApplyClaim(t)
    BY <2>3, <1>1, TxKinds, ClaimOK DEF Valid
  <2>4. CASE t.type = "cancel" /\ ApplyCancel(t)
    BY <2>4, <1>1, TxKinds, CancelOK DEF Valid
  <2>5. CASE t.type = "settle" /\ ApplySettle(t)
    BY <2>5, <1>1, TxKinds, SettleOK DEF Valid
  <2> QED BY <2>1, <2>2, <2>3, <2>4, <2>5 DEF ApplyTx
<1>3. pool' \subseteq Tx
  BY DEF ApplyTx, Spent, TypeOK
<1> QED BY <1>2, <1>3 DEF ApplyTx, BoxesOK, TypeOK

LEMMA NextOK == TypeOK /\ ProbationPinned /\ [Next]_vars => TypeOK' /\ ProbationPinned'
<1> SUFFICES ASSUME TypeOK, ProbationPinned, [Next]_vars
             PROVE  TypeOK' /\ ProbationPinned'
  OBVIOUS
<1> USE DEF boxes
<1>1. ASSUME NEW t \in Sendable, Submit(t) PROVE TypeOK' /\ ProbationPinned'
  <2>1. t \in Tx
    BY SendableTyped
  <2> QED BY <1>1, <2>1 DEF Submit, TypeOK, ProbationPinned, Committed, Live, Block
<1>2. ASSUME NEW t \in Sendable, ApplyTx(t) PROVE TypeOK' /\ ProbationPinned'
  BY <1>2, SendableTyped, ApplyOK
<1>3. ASSUME NEW t \in pool, Evict(t) PROVE TypeOK' /\ ProbationPinned'
  BY <1>3 DEF Evict, TypeOK, ProbationPinned, Committed, Live, Block
<1>4. ASSUME EndBlock PROVE TypeOK' /\ ProbationPinned'
  <2>1. TypeOK'
    BY <1>4 DEF EndBlock, TypeOK, Block
  <2>2. \A i \in Invite : Committed(bond[i]) => bond[i] \in BondBox
    BY LiveBond DEF Committed
  <2>3. ProbationPinned'
    BY <1>4, <2>2 DEF EndBlock, TypeOK, ProbationPinned, Committed, Live, Block, BondBox
  <2> QED BY <2>1, <2>3
<1>5. ASSUME NEW u \in User, Earn(u) PROVE TypeOK' /\ ProbationPinned'
  BY <1>5 DEF Earn, TypeOK, ProbationPinned, Committed, Live, Block
<1>6. ASSUME NEW u \in User, Burn(u) PROVE TypeOK' /\ ProbationPinned'
  BY <1>6 DEF Burn, TypeOK, ProbationPinned, Committed, Live, Block
<1>7. CASE UNCHANGED vars
  BY <1>7 DEF vars, TypeOK, ProbationPinned, Committed, Live, Block
<1> QED BY <1>1, <1>2, <1>3, <1>4, <1>5, <1>6, <1>7 DEF Next

(* Every reachable state is well typed: no karma total is ever negative and    *)
(* no slot that was not created holds a box.                                  *)
THEOREM InvitesTypeCorrect == Spec => []TypeOK
BY InitOK, NextOK, PTL DEF Spec

(* A committed bond has exactly the window that checkTransitions pins at the    *)
(* commit, whatever transactions the blocks carry and in whatever order.        *)
THEOREM WindowsPinned == Spec => []ProbationPinned
BY InitOK, NextOK, PTL DEF Spec

-----------------------------------------------------------------------------
(* The limit on invites                                                      *)

(* The open invites u made himself through POST /invites, and those that wait   *)
OpenOf(u)    == {i \in own : invite[i].inviter = u}
WaitingOf(u) == {t \in pool : /\ t.type = "create" /\ t.route = "invites"
                             /\ t.inviter = u /\ t.by = u}

(* Only what was sent is counted, so the counts are numbers.                   *)
Counted == IsFiniteSet(used) /\ IsFiniteSet(pool)

LimitInv == TypeOK /\ Counted /\ InviteLimit

LEMMA LimitIs ==
  InviteLimit <=> (gateway => \A u \in User :
    Cardinality(OpenOf(u)) + Cardinality(WaitingOf(u)) <= MaxPendingInvites)
BY DEF InviteLimit, OpenOf, WaitingOf

LEMMA Fewer ==
  ASSUME NEW S, IsFiniteSet(S), NEW T \in SUBSET S
  PROVE  /\ IsFiniteSet(T) /\ Cardinality(T) <= Cardinality(S)
         /\ Cardinality(T) \in Nat /\ Cardinality(S) \in Nat
BY FS_Subset, FS_CardinalityType

LEMMA CountsTyped ==
  ASSUME TypeOK, Counted, NEW u \in User
  PROVE  /\ IsFiniteSet(OpenOf(u)) /\ Cardinality(OpenOf(u)) \in Nat
         /\ IsFiniteSet(WaitingOf(u)) /\ Cardinality(WaitingOf(u)) \in Nat
<1>1. OpenOf(u) \in SUBSET used /\ WaitingOf(u) \in SUBSET pool
  BY DEF OpenOf, WaitingOf, TypeOK
<1> QED BY <1>1, Fewer DEF Counted

(* What only closes invites and drops transactions keeps the limit.            *)
LEMMA Shrunk ==
  ASSUME TypeOK, Counted, InviteLimit, gateway' = gateway,
         \A u \in User : OpenOf(u)' \subseteq OpenOf(u) /\ WaitingOf(u)' \subseteq WaitingOf(u)
  PROVE  InviteLimit'
<1> SUFFICES ASSUME gateway, NEW u \in User
             PROVE  Cardinality(OpenOf(u)') + Cardinality(WaitingOf(u)') <= MaxPendingInvites
  BY LimitIs DEF InviteLimit, OpenOf, WaitingOf
<1>1. Cardinality(OpenOf(u)) + Cardinality(WaitingOf(u)) <= MaxPendingInvites
  BY LimitIs
<1> DEFINE o == OpenOf(u)
           w == WaitingOf(u)
           p == OpenOf(u)'
           x == WaitingOf(u)'
<1>2. IsFiniteSet(o) /\ IsFiniteSet(w) /\ p \in SUBSET o /\ x \in SUBSET w
  BY CountsTyped
<1> HIDE DEF o, w, p, x
<1>3. /\ Cardinality(p) <= Cardinality(o) /\ Cardinality(x) <= Cardinality(w)
      /\ Cardinality(p) \in Nat /\ Cardinality(o) \in Nat
      /\ Cardinality(x) \in Nat /\ Cardinality(w) \in Nat
  BY <1>2, Fewer
<1>4. MaxPendingInvites \in Nat
  BY AmountsAssumption
<1>5. Cardinality(p) + Cardinality(x) <= MaxPendingInvites
  <2>1. Cardinality(o) + Cardinality(w) <= MaxPendingInvites
    BY <1>1 DEF o, w
  <2> QED BY <1>3, <1>4, <2>1
<1> QED BY <1>5 DEF p, x

(* The limit a route checks leaves room for the creation it lets in.           *)
LEMMA SubmitLimit ==
  ASSUME LimitInv, NEW t \in Tx, Submit(t) PROVE Counted' /\ InviteLimit'
<1>1. /\ TypeOK /\ Counted /\ InviteLimit /\ gateway
      /\ pool' = pool \cup {t} /\ t \notin pool
      /\ UNCHANGED <<gateway, invite, used, own>>
  BY DEF LimitInv, Submit, boxes
<1>2. Counted'
  BY <1>1, FS_AddElement DEF Counted
<1> DEFINE Counts == t.type = "create" /\ t.route = "invites" /\ t.inviter = t.by
<1>3. CASE ~Counts
  <2>1. \A u \in User : OpenOf(u)' = OpenOf(u) /\ WaitingOf(u)' = WaitingOf(u)
    BY <1>1, <1>3 DEF OpenOf, WaitingOf
  <2> QED BY <1>1, <1>2, <2>1, Shrunk
<1>4. CASE Counts
  <2> SUFFICES ASSUME NEW u \in User
               PROVE  Cardinality(OpenOf(u)') + Cardinality(WaitingOf(u)') <= MaxPendingInvites
    BY <1>2 DEF InviteLimit, OpenOf, WaitingOf
  <2>1. OpenOf(u)' = OpenOf(u)
    BY <1>1 DEF OpenOf
  <2>2. CASE u # t.by
    <3>1. WaitingOf(u)' = WaitingOf(u)
      BY <1>1, <1>4, <2>2 DEF WaitingOf
    <3>2. Cardinality(OpenOf(u)) + Cardinality(WaitingOf(u)) <= MaxPendingInvites
      BY <1>1, LimitIs
    <3> QED BY <2>1, <3>1, <3>2
  <2>3. CASE u = t.by
    <3> DEFINE live == {i \in Invite : invite[i].inviter = u}
               pending == {x \in pool : x.type = "create" /\ x.inviter = u}
    <3>1. Cardinality(live) + Cardinality(pending) < MaxPendingInvites
      BY <1>4, <2>3 DEF Submit, Admitted, BelowLimit, LiveInvites, PendingInvites
    <3>2. live \in SUBSET used /\ OpenOf(u) \in SUBSET live
      <4>1. \A i \in Invite \ used : invite[i].inviter # u
        BY <1>1, NobodyAssumption DEF TypeOK, NoBox
      <4> QED BY <1>1, <4>1 DEF OpenOf, TypeOK
    <3>3. pending \in SUBSET pool /\ WaitingOf(u) \in SUBSET pending
      BY DEF WaitingOf
    <3>4. WaitingOf(u)' = WaitingOf(u) \cup {t} /\ t \notin WaitingOf(u)
      BY <1>1, <1>4, <2>3 DEF WaitingOf
    <3> DEFINE o == OpenOf(u)
               w == WaitingOf(u)
    <3> HIDE DEF live, pending, o, w
    <3>5. IsFiniteSet(live) /\ IsFiniteSet(pending)
      BY <1>1, <3>2, <3>3, FS_Subset DEF Counted
    <3>6. /\ Cardinality(o) <= Cardinality(live) /\ Cardinality(w) <= Cardinality(pending)
          /\ Cardinality(o) \in Nat /\ Cardinality(live) \in Nat
          /\ Cardinality(w) \in Nat /\ Cardinality(pending) \in Nat /\ IsFiniteSet(w)
      BY <3>2, <3>3, <3>5, Fewer DEF o, w
    <3>7. Cardinality(w \cup {t}) = Cardinality(w) + 1
      BY <3>4, <3>6, FS_AddElement DEF w
    <3>8. Cardinality(o) + Cardinality(w \cup {t}) <= MaxPendingInvites
      BY <3>1, <3>6, <3>7, AmountsAssumption
    <3> QED BY <2>1, <3>4, <3>8 DEF o, w
  <2> QED BY <2>2, <2>3
<1> QED BY <1>2, <1>3, <1>4

(* A creation leaves the pool for a slot that nobody counted before.           *)
LEMMA CreateLimit ==
  ASSUME LimitInv, NEW t \in Create, gateway, t \in pool, t.i \notin used, ApplyCreate(t),
         Spent(t), gateway' = gateway
  PROVE  InviteLimit'
<1>1. /\ TypeOK /\ Counted /\ InviteLimit /\ t.i \in Invite /\ t.i \notin own
      /\ pool' \subseteq pool \ {t} /\ own \subseteq Invite
      /\ own' = IF t.by = t.inviter /\ t.route = "invites" THEN own \cup {t.i} ELSE own
  BY DEF LimitInv, Create, Spent, ApplyCreate, TypeOK
<1>2. \A i \in Invite \ {t.i} : invite'[i] = invite[i]
  BY <1>1 DEF ApplyCreate, TypeOK
<1>3. invite'[t.i].inviter = t.inviter
  BY <1>1 DEF ApplyCreate, TypeOK
<1>4. t.type = "create"
  BY DEF Create
<1> SUFFICES ASSUME NEW u \in User
             PROVE  Cardinality(OpenOf(u)') + Cardinality(WaitingOf(u)') <= MaxPendingInvites
  BY DEF InviteLimit, OpenOf, WaitingOf
<1> DEFINE o == OpenOf(u)
           w == WaitingOf(u)
           p == OpenOf(u)'
           x == WaitingOf(u)'
<1>5. Cardinality(o) + Cardinality(w) <= MaxPendingInvites
  BY <1>1, LimitIs
<1>6. IsFiniteSet(o) /\ IsFiniteSet(w) /\ Cardinality(o) \in Nat /\ Cardinality(w) \in Nat
  BY <1>1, CountsTyped
<1>7. x \subseteq w
  BY <1>1 DEF WaitingOf
<1>8. CASE ~(t.by = t.inviter /\ t.route = "invites" /\ u = t.by)
  <2>1. p = o
    BY <1>1, <1>2, <1>3, <1>8 DEF OpenOf
  <2> HIDE DEF o, w, p, x
  <2>2. Cardinality(x) <= Cardinality(w) /\ Cardinality(x) \in Nat
    BY <1>6, <1>7, Fewer
  <2>3. Cardinality(p) + Cardinality(x) <= MaxPendingInvites
    BY <1>5, <1>6, <2>1, <2>2, AmountsAssumption
  <2> QED BY <2>3 DEF p, x
<1>9. CASE t.by = t.inviter /\ t.route = "invites" /\ u = t.by
  <2>1. p = o \cup {t.i} /\ t.i \notin o
    BY <1>1, <1>2, <1>3, <1>9 DEF OpenOf
  <2>2. x \subseteq w \ {t} /\ t \in w
    BY <1>1, <1>4, <1>9 DEF WaitingOf
  <2> HIDE DEF o, w, p, x
  <2>3. Cardinality(p) = Cardinality(o) + 1
    BY <1>6, <2>1, FS_AddElement
  <2>4. Cardinality(w \ {t}) = Cardinality(w) - 1 /\ IsFiniteSet(w \ {t})
    BY <1>6, <2>2, FS_RemoveElement
  <2>5. Cardinality(x) <= Cardinality(w \ {t}) /\ Cardinality(x) \in Nat
    BY <2>2, <2>4, Fewer
  <2>6. Cardinality(p) + Cardinality(x) <= MaxPendingInvites
    BY <1>5, <1>6, <2>3, <2>4, <2>5, AmountsAssumption
  <2> QED BY <2>6 DEF p, x
<1> QED BY <1>8, <1>9

LEMMA ApplyLimit ==
  ASSUME LimitInv, NEW t \in Tx, ApplyTx(t) PROVE Counted' /\ InviteLimit'
<1>1. /\ TypeOK /\ Counted /\ InviteLimit /\ gateway' = gateway /\ pool' \subseteq pool
      /\ Valid(t, Block) /\ Spent(t) /\ (gateway => t \in pool)
  BY DEF LimitInv, ApplyTx, Spent
<1>2. used' = used \/ used' = used \cup {t.i}
  BY DEF ApplyTx, ApplyCreate, ApplyCommit, ApplyClaim, ApplyCancel, ApplySettle
<1>3. Counted'
  BY <1>1, <1>2, FS_AddElement, FS_Subset DEF Counted
<1>4. CASE ~gateway
  <2>1. ~gateway'
    BY <1>1, <1>4
  <2>2. InviteLimit'
    BY <2>1, Zenon DEF InviteLimit
  <2> QED BY <1>3, <2>2
<1>5. CASE t.type = "create" /\ ApplyCreate(t) /\ gateway
  <2>1. t \in Create
    BY <1>5, TxKinds
  <2>2. t.i \notin used
    BY <1>1, <1>5 DEF Valid, ValidCreate
  <2>3. gateway /\ t \in pool
    BY <1>1, <1>5, Zenon
  <2>4. ApplyCreate(t) /\ Spent(t) /\ gateway' = gateway
    BY <1>1, <1>5, Zenon
  <2>5. InviteLimit'
    BY <2>1, <2>2, <2>3, <2>4, CreateLimit, Zenon
  <2> QED BY <1>3, <2>5
<1>6. CASE t.type # "create"
  <2>1. own' = own /\ own \subseteq Invite /\ invite \in [Invite -> InviteBox \cup {NoBox}]
    BY <1>1, <1>6 DEF ApplyTx, ApplyCommit, ApplyClaim, ApplyCancel, ApplySettle, TypeOK
  <2>2. invite' = invite \/ invite' = [invite EXCEPT ![t.i] = NoBox]
    BY <1>6 DEF ApplyTx, ApplyCommit, ApplyClaim, ApplyCancel, ApplySettle
  <2>3. \A i \in Invite : invite'[i] = invite[i] \/ invite'[i] = NoBox
    BY <2>1, <2>2
  <2>4. \A u \in User : OpenOf(u)' \subseteq OpenOf(u)
    BY <2>1, <2>3, NobodyAssumption DEF OpenOf, NoBox
  <2>5. \A u \in User : WaitingOf(u)' \subseteq WaitingOf(u)
    BY <1>1 DEF WaitingOf
  <2> QED BY <1>1, <1>3, <2>4, <2>5, Shrunk
<1> QED BY <1>3, <1>4, <1>5, <1>6 DEF ApplyTx

LEMMA LimitNext == LimitInv /\ ProbationPinned /\ [Next]_vars => LimitInv'
<1> SUFFICES ASSUME LimitInv, ProbationPinned, [Next]_vars PROVE LimitInv'
  OBVIOUS
<1>1. TypeOK'
  BY NextOK DEF LimitInv
<1>2. TypeOK /\ Counted /\ InviteLimit
  BY DEF LimitInv
<1>3. ASSUME NEW t \in Sendable, Submit(t) PROVE Counted' /\ InviteLimit'
  BY <1>3, SendableTyped, SubmitLimit
<1>4. ASSUME NEW t \in Sendable, ApplyTx(t) PROVE Counted' /\ InviteLimit'
  BY <1>4, SendableTyped, ApplyLimit
<1>5. CASE /\ gateway' = gateway /\ used' = used /\ own' = own /\ invite' = invite
           /\ pool' \subseteq pool
  <2>1. Counted'
    BY <1>2, <1>5, FS_Subset DEF Counted
  <2>2. \A u \in User : OpenOf(u)' \subseteq OpenOf(u) /\ WaitingOf(u)' \subseteq WaitingOf(u)
    BY <1>5 DEF OpenOf, WaitingOf
  <2> QED BY <1>1, <1>2, <1>5, <2>1, <2>2, Shrunk DEF LimitInv
<1> QED
  BY <1>1, <1>3, <1>4, <1>5 DEF LimitInv, Next, Evict, EndBlock, Earn, Burn, vars, boxes

LEMMA LimitAlways == Spec => []LimitInv
<1>1. Init => LimitInv
  <2> SUFFICES ASSUME Init PROVE LimitInv
    OBVIOUS
  <2>1. Counted
    BY FS_EmptySet DEF Init, Counted
  <2>2. \A u \in User : OpenOf(u) = {} /\ WaitingOf(u) = {}
    BY DEF Init, OpenOf, WaitingOf
  <2>3. InviteLimit
    BY <2>2, FS_EmptySet, LimitIs, AmountsAssumption
  <2> QED BY <2>1, <2>3, InitOK DEF LimitInv
<1> QED BY <1>1, LimitNext, WindowsPinned, PTL DEF Spec

(* POST /invites brings nobody more than MAX_PENDING_INVITES invites of his own   *)
(* making that are open or wait in the pool, whatever the blocks, evictions and  *)
(* claims between two submissions and whatever else the pool holds.  Creations   *)
(* that come with a post are outside it: createPost checks no limit.             *)
THEOREM InvitesLimited == Spec => []InviteLimit
<1>1. LimitInv => InviteLimit
  BY DEF LimitInv
<1> QED BY <1>1, LimitAlways, PTL

-----------------------------------------------------------------------------
(* Sums of deposits.  No induction theorem takes part: a set of the subsets    *)
(* for which the claim holds takes its place.                                 *)

(* A collection that contains a subset of S once it contains all the smaller   *)
(* ones contains every subset of S.                                           *)
LEMMA SmallerFirst ==
  ASSUME NEW S, IsFiniteSet(S), NEW A,
         \A T \in SUBSET S : (\A U \in SUBSET T : U # T => U \in A) => T \in A
  PROVE  SUBSET S \subseteq A
<1> DEFINE Bad == {T \in SUBSET S : T \notin A}
<1> SUFFICES ASSUME Bad # {} PROVE FALSE
  OBVIOUS
<1>1. IsWellFoundedOn(StrictSubsetOrdering(S), SUBSET S)
  <2>1. FiniteSubsetsOf(S) = SUBSET S
    BY FS_FiniteSubsetsOfFinite
  <2>2. IsWellFoundedOn(StrictSubsetOrdering(S), FiniteSubsetsOf(S))
    BY FS_StrictSubsetOrderingWellFounded
  <2> QED BY <2>1, <2>2
<1>2. PICK T \in Bad : \A U \in Bad : <<U, T>> \notin StrictSubsetOrdering(S)
  <2>1. Bad \subseteq SUBSET S
    OBVIOUS
  <2> HIDE DEF Bad
  <2> QED BY <1>1, <2>1, WFMin
<1>3. \A U \in SUBSET T : U # T => U \in A
  BY <1>2 DEF StrictSubsetOrdering
<1> QED BY <1>2, <1>3

(* The values of the boxes b in the slots S, and the recursive function inside *)
(* MapThenSumSet                                                              *)
Sum(b, S)      == MapThenSumSet(LAMBDA i : b[i].value, S)
Any(T)         == CHOOSE x \in T : TRUE
Step(b, g, T)  == IF T = {} THEN 0 ELSE b[Any(T)].value + g[T \ {Any(T)}]
Sums(b, g, S)  == g = [T \in SUBSET S |-> Step(b, g, T)]
SumsOf(b, S)   == CHOOSE g : Sums(b, g, S)

LEMMA SumUnfolded ==
  ASSUME NEW b, NEW S PROVE Sum(b, S) = SumsOf(b, S)[S]
BY DEF Sum, MapThenSumSet, MapThenFoldSet, SumsOf, Sums, Step, Any

LEMMA AnyIn == ASSUME NEW T, T # {} PROVE Any(T) \in T
BY DEF Any

LEMMA SumsUnique ==
  ASSUME NEW b, NEW g, NEW h, NEW S, NEW T, NEW U, IsFiniteSet(U),
         U \subseteq S, U \subseteq T, Sums(b, g, S), Sums(b, h, T)
  PROVE  g[U] = h[U]
<1> DEFINE A == {V \in SUBSET U : g[V] = h[V]}
<1>1. ASSUME NEW V \in SUBSET U, \A W \in SUBSET V : W # V => W \in A
      PROVE  V \in A
  <2>1. g[V] = Step(b, g, V) /\ h[V] = Step(b, h, V)
    BY DEF Sums
  <2>2. V # {} => g[V \ {Any(V)}] = h[V \ {Any(V)}]
    BY <1>1, AnyIn
  <2> QED BY <2>1, <2>2 DEF Step
<1>2. SUBSET U \subseteq A
  <2> HIDE DEF A
  <2> QED BY <1>1, SmallerFirst
<1> QED BY <1>2

LEMMA SumsExist ==
  ASSUME NEW b, NEW S, IsFiniteSet(S)
  PROVE  Sums(b, SumsOf(b, S), S)
<1> DEFINE A == {T \in SUBSET S : Sums(b, SumsOf(b, T), T)}
<1>1. ASSUME NEW T \in SUBSET S, \A U \in SUBSET T : U # T => U \in A
      PROVE  T \in A
  <2> DEFINE Rest(U) == U \ {Any(U)}
             k == [U \in SUBSET T |-> IF U = {} THEN 0
                                      ELSE b[Any(U)].value + SumsOf(b, Rest(U))[Rest(U)]]
  <2>1. ASSUME NEW U \in SUBSET T, U # {}
        PROVE  k[Rest(U)] = SumsOf(b, Rest(U))[Rest(U)]
    <3> DEFINE W == Rest(U)
    <3>1. W \in SUBSET T /\ W # T /\ IsFiniteSet(W)
      BY <2>1, AnyIn, FS_Subset
    <3>2. Sums(b, SumsOf(b, W), W)
      BY <1>1, <3>1
    <3>3. SumsOf(b, W)[W] = Step(b, SumsOf(b, W), W)
      BY <3>2 DEF Sums
    <3>4. CASE W = {}
      BY <3>1, <3>3, <3>4 DEF Step
    <3>5. CASE W # {}
      <4>1. /\ Rest(W) \in SUBSET T /\ Rest(W) # T /\ IsFiniteSet(Rest(W))
            /\ Rest(W) \subseteq W
        BY <3>1, <3>5, AnyIn, FS_Subset
      <4>2. Sums(b, SumsOf(b, Rest(W)), Rest(W))
        BY <1>1, <4>1
      <4>3. SumsOf(b, W)[Rest(W)] = SumsOf(b, Rest(W))[Rest(W)]
        <5> HIDE DEF W, Rest
        <5> QED BY <3>2, <4>1, <4>2, SumsUnique
      <4>4. k[W] = b[Any(W)].value + SumsOf(b, Rest(W))[Rest(W)]
        BY <3>1, <3>5
      <4> QED BY <3>3, <3>5, <4>3, <4>4 DEF Step
    <3> QED BY <3>4, <3>5
  <2>2. Sums(b, k, T)
    <3>1. ASSUME NEW U \in SUBSET T PROVE k[U] = Step(b, k, U)
      BY <2>1 DEF Step
    <3> QED BY <3>1 DEF Sums
  <2>3. Sums(b, SumsOf(b, T), T)
    <3> HIDE DEF k
    <3> QED BY <2>2 DEF SumsOf
  <2> QED BY <2>3
<1>2. SUBSET S \subseteq A
  <2> HIDE DEF A
  <2> QED BY <1>1, SmallerFirst
<1> QED BY <1>2

LEMMA SumEmpty ==
  ASSUME NEW b PROVE Sum(b, {}) = 0
<1>1. Sums(b, SumsOf(b, {}), {})
  BY SumsExist, FS_EmptySet
<1>2. SumsOf(b, {})[{}] = 0
  BY <1>1 DEF Sums, Step
<1> QED BY <1>2, SumUnfolded

LEMMA SumNext ==
  ASSUME NEW b, NEW S, IsFiniteSet(S), S # {}
  PROVE  Sum(b, S) = b[Any(S)].value + Sum(b, S \ {Any(S)})
<1> DEFINE R == S \ {Any(S)}
<1>1. Sums(b, SumsOf(b, S), S)
  BY SumsExist
<1>2. IsFiniteSet(R)
  BY FS_Subset
<1>3. Sums(b, SumsOf(b, R), R)
  BY <1>2, SumsExist
<1>4. SumsOf(b, S)[R] = SumsOf(b, R)[R]
  BY <1>1, <1>2, <1>3, SumsUnique
<1>5. SumsOf(b, S)[S] = b[Any(S)].value + SumsOf(b, S)[R]
  BY <1>1 DEF Sums, Step
<1> QED BY <1>4, <1>5, SumUnfolded

(* What is summed decides the sum, not how the function is written.           *)
LEMMA SumSame ==
  ASSUME NEW b, NEW g, NEW S, IsFiniteSet(S), \A x \in S : b[x].value = g[x].value
  PROVE  Sum(b, S) = Sum(g, S)
<1> DEFINE A == {T \in SUBSET S : Sum(b, T) = Sum(g, T)}
<1>1. ASSUME NEW T \in SUBSET S, \A U \in SUBSET T : U # T => U \in A
      PROVE  T \in A
  <2>1. CASE T = {}
    BY <2>1, SumEmpty
  <2>2. CASE T # {}
    <3>1. Any(T) \in T /\ IsFiniteSet(T)
      BY <2>2, AnyIn, FS_Subset
    <3>2. T \ {Any(T)} \in A
      BY <1>1, <3>1
    <3> QED BY <2>2, <3>1, <3>2, SumNext
  <2> QED BY <2>1, <2>2
<1>2. SUBSET S \subseteq A
  <2> HIDE DEF A
  <2> QED BY <1>1, SmallerFirst
<1> QED BY <1>2

LEMMA SumNat ==
  ASSUME NEW b, NEW S, IsFiniteSet(S), \A x \in S : b[x].value \in Nat
  PROVE  Sum(b, S) \in Nat
<1> DEFINE A == {T \in SUBSET S : Sum(b, T) \in Nat}
<1>1. ASSUME NEW T \in SUBSET S, \A U \in SUBSET T : U # T => U \in A
      PROVE  T \in A
  <2>1. CASE T = {}
    BY <2>1, SumEmpty
  <2>2. CASE T # {}
    <3>1. Any(T) \in T /\ IsFiniteSet(T)
      BY <2>2, AnyIn, FS_Subset
    <3>2. T \ {Any(T)} \in A
      BY <1>1, <3>1
    <3> QED BY <2>2, <3>1, <3>2, SumNext
  <2> QED BY <2>1, <2>2
<1>2. SUBSET S \subseteq A
  <2> HIDE DEF A
  <2> QED BY <1>1, SmallerFirst
<1> QED BY <1>2

(* Any element may be taken out first.                                        *)
LEMMA SumWithout ==
  ASSUME NEW b, NEW S, IsFiniteSet(S), \A x \in S : b[x].value \in Nat, NEW y \in S
  PROVE  Sum(b, S) = b[y].value + Sum(b, S \ {y})
<1> DEFINE A == {T \in SUBSET S : \A x \in T :
                   Sum(b, T) = b[x].value + Sum(b, T \ {x})}
<1>1. ASSUME NEW T \in SUBSET S, \A U \in SUBSET T : U # T => U \in A
      PROVE  T \in A
  <2> SUFFICES ASSUME NEW x \in T
               PROVE  Sum(b, T) = b[x].value + Sum(b, T \ {x})
    OBVIOUS
  <2> DEFINE z == Any(T)
  <2>1. z \in T /\ IsFiniteSet(T)
    BY AnyIn, FS_Subset
  <2>2. Sum(b, T) = b[z].value + Sum(b, T \ {z})
    BY <2>1, SumNext
  <2> HIDE DEF z
  <2>3. CASE x = z
    BY <2>2, <2>3
  <2>4. CASE x # z
    <3> DEFINE W == (T \ {z}) \ {x}
    <3>1. Sum(b, T \ {z}) = b[x].value + Sum(b, W)
      BY <1>1, <2>1, <2>4
    <3>2. Sum(b, T \ {x}) = b[z].value + Sum(b, W)
      <4>1. W = (T \ {x}) \ {z}
        OBVIOUS
      <4>2. Sum(b, T \ {x}) = b[z].value + Sum(b, (T \ {x}) \ {z})
        BY <1>1, <2>1, <2>4
      <4> HIDE DEF W
      <4> QED BY <4>1, <4>2
    <3>4. W \in SUBSET T
      OBVIOUS
    <3>5. Sum(b, W) \in Nat
      <4>1. \A w \in W : b[w].value \in Nat
        OBVIOUS
      <4> HIDE DEF W
      <4>2. IsFiniteSet(W)
        BY <2>1, <3>4, FS_Subset
      <4> QED BY <4>1, <4>2, SumNat
    <3>6. b[x].value \in Nat /\ b[z].value \in Nat
      BY <2>1
    <3> HIDE DEF W
    <3> QED BY <2>2, <3>1, <3>2, <3>5, <3>6
  <2> QED BY <2>3, <2>4
<1>2. SUBSET S \subseteq A
  <2> HIDE DEF A
  <2> QED BY <1>1, SmallerFirst
<1> QED BY <1>2

(* Boxes of which finitely many have an inviter                               *)
Boxes(b) ==
  /\ \A i \in Invite : b[i].inviter \in User => b[i].value \in Nat
  /\ IsFiniteSet({i \in Invite : b[i].inviter \in User})

(* The box of slot j is gone, and nothing else changed.                        *)
Freed(b, c, j) == Live(b[j]) /\ c[j] = NoBox /\ \A i \in Invite \ {j} : c[i] = b[i]

LEMMA HeldTyped ==
  ASSUME NEW b, Boxes(b), NEW u \in User
  PROVE  IsFiniteSet(Of(b, u)) /\ Held(b, u) \in Nat
<1> DEFINE T == {i \in Invite : b[i].inviter \in User}
           O == Of(b, u)
<1>1. O \subseteq T /\ IsFiniteSet(T) /\ \A i \in O : b[i].value \in Nat
  BY DEF Boxes, Of
<1>2. Held(b, u) = Sum(b, O)
  BY DEF Held, Sum
<1> HIDE DEF O, T
<1>3. IsFiniteSet(O)
  BY <1>1, FS_Subset
<1>4. Sum(b, O) \in Nat
  BY <1>1, <1>3, SumNat
<1> QED BY <1>2, <1>3, <1>4 DEF O

(* Freeing a box takes its value from its inviter and from nobody else.        *)
LEMMA FreedHeld ==
  ASSUME NEW b, NEW c, Boxes(b), NEW j \in Invite, Freed(b, c, j), b[j].inviter \in User,
         NEW u \in User
  PROVE  /\ Held(c, u) \in Nat /\ Held(b, u) \in Nat /\ b[j].value \in Nat
         /\ Held(b, u) = IF u = b[j].inviter THEN b[j].value + Held(c, u) ELSE Held(c, u)
<1> DEFINE O == Of(b, u)
           Q == Of(c, u)
<1>1. IsFiniteSet(O) /\ Held(b, u) \in Nat /\ Held(b, u) = Sum(b, O) /\ Held(c, u) = Sum(c, Q)
  BY HeldTyped DEF Held, Sum
<1>2. /\ \A i \in O : b[i].value \in Nat
      /\ b[j].value \in Nat
  BY DEF Boxes, Of
<1>3. c[j].inviter # u
  BY NobodyAssumption DEF Freed, NoBox
<1>4. Q = O \ {j} /\ (j \in O <=> u = b[j].inviter) /\ \A i \in Q : c[i].value = b[i].value
  BY <1>3 DEF Freed, Of
<1> HIDE DEF O, Q
<1>5. IsFiniteSet(Q) /\ \A i \in Q : c[i].value \in Nat
  BY <1>1, <1>2, <1>4, FS_Subset
<1>6. Sum(c, Q) = Sum(b, Q)
  BY <1>4, <1>5, SumSame
<1>7. Sum(c, Q) \in Nat
  BY <1>5, SumNat
<1>8. CASE u = b[j].inviter
  <2>1. Sum(b, O) = b[j].value + Sum(b, O \ {j})
    BY <1>1, <1>2, <1>4, <1>8, SumWithout
  <2> QED BY <1>1, <1>2, <1>4, <1>6, <1>7, <1>8, <2>1
<1>9. CASE u # b[j].inviter
  <2>1. Q = O
    BY <1>4, <1>9
  <2> QED BY <1>1, <1>2, <1>6, <1>7, <1>9, <2>1
<1> QED BY <1>8, <1>9

LEMMA SlotsHold ==
  ASSUME TypeOK, Counted PROVE Boxes(invite) /\ Boxes(bond)
<1>1. \A i \in Invite \ used : invite[i].inviter \notin User /\ bond[i].inviter \notin User
  BY NobodyAssumption DEF TypeOK, NoBox
<1>2. /\ {i \in Invite : invite[i].inviter \in User} \subseteq used
      /\ {i \in Invite : bond[i].inviter \in User} \subseteq used
  BY <1>1
<1>3. /\ IsFiniteSet({i \in Invite : invite[i].inviter \in User})
      /\ IsFiniteSet({i \in Invite : bond[i].inviter \in User})
  BY <1>2, FS_Subset DEF Counted
<1>4. \A i \in Invite : /\ invite[i].inviter \in User => invite[i].value \in Nat
                        /\ bond[i].inviter \in User => bond[i].value \in Nat
  BY NobodyAssumption DEF TypeOK, InviteBox, BondBox, NoBox
<1> QED BY <1>3, <1>4 DEF Boxes

(* A cancel pays both deposits to the inviter of both.                         *)
LEMMA CancelReturns ==
  ASSUME TypeOK, Counted, NEW t \in Cancel, ValidCancel(t), ApplyCancel(t), NEW u \in User
  PROVE  Wealth(u)' >= Wealth(u)
<1>1. t.i \in Invite /\ t.j \in Invite /\ t.by \in User
  BY DEF Cancel
<1>2. /\ Freed(invite, invite', t.i) /\ Freed(bond, bond', t.j)
      /\ invite[t.i].inviter = t.by /\ bond[t.j].inviter = t.by
  BY <1>1 DEF ValidCancel, ApplyCancel, TypeOK, Freed
<1> DEFINE iv == invite[t.i].value
           bv == bond[t.j].value
           h  == Held(invite, u)
           hn == Held(invite', u)
           k  == Held(bond, u)
           kn == Held(bond', u)
<1>3. /\ hn \in Nat /\ h \in Nat /\ iv \in Nat
      /\ h = IF u = t.by THEN iv + hn ELSE hn
  BY <1>1, <1>2, SlotsHold, FreedHeld
<1>4. /\ kn \in Nat /\ k \in Nat /\ bv \in Nat
      /\ k = IF u = t.by THEN bv + kn ELSE kn
  <2>1. Boxes(bond)
    BY SlotsHold
  <2>2. bond[t.j].inviter \in User /\ t.j \in Invite /\ Freed(bond, bond', t.j)
    BY <1>1, <1>2
  <2>3. /\ kn \in Nat /\ k \in Nat /\ bv \in Nat
        /\ k = IF u = bond[t.j].inviter THEN bv + kn ELSE kn
    BY <2>1, <2>2, FreedHeld
  <2> QED BY <1>2, <2>3
<1>5. /\ karma[u] \in Nat
      /\ karma'[u] = IF u = t.by THEN karma[u] + iv + bv ELSE karma[u]
  BY <1>1 DEF ApplyCancel, TypeOK
<1>6. Wealth(u)' = karma'[u] + hn + kn /\ Wealth(u) = karma[u] + h + k
  BY DEF Wealth
<1> HIDE DEF iv, bv, h, hn, k, kn
<1>7. karma'[u] + hn + kn >= karma[u] + h + k
  BY <1>3, <1>4, <1>5
<1> QED BY <1>6, <1>7

(* A settlement pays the bond to its inviter.                                  *)
LEMMA SettleReturns ==
  ASSUME TypeOK, Counted, NEW t \in Settle, ValidSettle(t, Block), ApplySettle(t),
         NEW u \in User
  PROVE  Wealth(u)' >= Wealth(u)
<1>1. t.j \in Invite /\ bond[t.j] \in BondBox /\ bond[t.j].inviter \in User
  BY LiveBond DEF Settle, ValidSettle, Committed, BondBox
<1>2. Freed(bond, bond', t.j)
  BY <1>1 DEF ValidSettle, Committed, ApplySettle, TypeOK, Freed
<1> DEFINE bv == bond[t.j].value
           h  == Held(invite, u)
           k  == Held(bond, u)
           kn == Held(bond', u)
<1>3. h \in Nat
  BY SlotsHold, HeldTyped
<1>4. /\ kn \in Nat /\ k \in Nat /\ bv \in Nat
      /\ k = IF u = bond[t.j].inviter THEN bv + kn ELSE kn
  BY <1>1, <1>2, SlotsHold, FreedHeld
<1>5. /\ karma[u] \in Nat
      /\ karma'[u] = IF u = bond[t.j].inviter THEN karma[u] + bv ELSE karma[u]
  BY <1>1 DEF ApplySettle, TypeOK
<1>6. Wealth(u)' = karma'[u] + h + kn /\ Wealth(u) = karma[u] + h + k
  BY DEF Wealth, ApplySettle
<1> HIDE DEF bv, h, k, kn
<1>7. karma'[u] + h + kn >= karma[u] + h + k
  BY <1>3, <1>4, <1>5
<1> QED BY <1>6, <1>7

(* No other step ends a bond.                                                  *)
LEMMA BondsStay ==
  ASSUME TypeOK, NEW t \in Tx, ApplyTx(t), t.type \notin {"cancel", "settle"},
         NEW j \in Invite, Live(bond[j])
  PROVE  bond'[j] # NoBox
<1>1. "invitee" \notin DOMAIN NoBox
  BY DEF NoBox
<1>2. bond \in [Invite -> BondBox \cup {NoBox}] /\ bond[j] # NoBox
  BY DEF TypeOK, Live
<1>3. CASE t.type = "create" /\ ApplyCreate(t)
  <2>1. t.i \notin used
    BY <1>3 DEF ApplyTx, Valid, ValidCreate
  <2>2. t.i # j
    BY <1>2, <2>1 DEF TypeOK
  <2> QED BY <1>2, <1>3, <2>2 DEF ApplyCreate
<1>4. CASE t.type = "commit" /\ ApplyCommit(t)
  <2>1. j # t.i => bond'[j] = bond[j]
    BY <1>2, <1>4 DEF ApplyCommit
  <2>2. j = t.i => "invitee" \in DOMAIN bond'[j]
    BY <1>2, <1>4 DEF ApplyCommit
  <2> QED BY <1>1, <1>2, <2>1, <2>2
<1>5. CASE t.type = "claim" /\ ApplyClaim(t)
  <2>1. j # t.j => bond'[j] = bond[j]
    BY <1>2, <1>5 DEF ApplyClaim
  <2>2. j = t.j => "invitee" \in DOMAIN bond'[j]
    BY <1>2, <1>5 DEF ApplyClaim
  <2> QED BY <1>1, <1>2, <2>1, <2>2
<1> QED BY <1>3, <1>4, <1>5 DEF ApplyTx

LEMMA DepositStep ==
  ASSUME TypeOK, Counted, [Next]_vars, NEW j \in Invite, Live(bond[j]), bond'[j] = NoBox,
         NEW u \in User
  PROVE  Wealth(u)' >= Wealth(u)
<1>1. bond' # bond
  BY DEF Live
<1>2. PICK t \in Sendable : ApplyTx(t)
  BY <1>1 DEF Next, Submit, Evict, EndBlock, Earn, Burn, vars, boxes
<1>3. t \in Tx
  BY SendableTyped
<1>4. t.type \in {"cancel", "settle"}
  BY <1>2, <1>3, BondsStay
<1>5. CASE t.type = "cancel"
  <2>1. ValidCancel(t) /\ ApplyCancel(t)
    BY <1>2, <1>5 DEF ApplyTx, Valid
  <2> QED BY <1>3, <1>5, <2>1, TxKinds, CancelReturns
<1>6. CASE t.type = "settle"
  <2>1. ValidSettle(t, Block) /\ ApplySettle(t)
    BY <1>2, <1>6 DEF ApplyTx, Valid
  <2> QED BY <1>3, <1>6, <2>1, TxKinds, SettleReturns
<1> QED BY <1>4, <1>5, <1>6

(* A cancel or a settlement leaves nobody poorer, whichever invite and bond it  *)
(* joins and whoever signs it: karma, invites and bonds of each inviter, added  *)
(* up over any number of slots (checkTransitions, invite cancel and settlement). *)
THEOREM DepositsGoBack == Spec => DepositsReturn
<1>1. LimitInv /\ [Next]_vars
      => [(\E j \in Invite : Live(bond[j]) /\ bond'[j] = NoBox)
            => \A u \in User : Wealth(u)' >= Wealth(u)]_vars
  BY DepositStep DEF LimitInv
<1> QED BY <1>1, LimitAlways, PTL DEF Spec, DepositsReturn

-----------------------------------------------------------------------------
(* Conservation: karma boxes, invites and bonds together.                       *)

(* All the karma there is: in karma boxes, in invites and in bonds             *)
Purse(k) == [u \in User |-> [value |-> k[u]]]
Total    == Sum(Purse(karma), User) + Sum(invite, used) + Sum(bond, used)

(* No transaction makes or destroys karma.                                     *)
TotalKept == [][moves' = moves => Total' = Total]_vars

(* Boxes whose value in the slots S can be added up                            *)
Summable(b, S) == IsFiniteSet(S) /\ \A x \in S : b[x].value \in Nat

(* What changes at one place changes the sum by the difference.                *)
LEMMA SumChanged ==
  ASSUME NEW b, NEW c, NEW S, Summable(b, S), Summable(c, S), NEW y \in S,
         \A x \in S \ {y} : c[x].value = b[x].value
  PROVE  /\ Sum(b, S) \in Nat /\ Sum(c, S) \in Nat
         /\ Sum(c, S) + b[y].value = Sum(b, S) + c[y].value
<1> DEFINE R == S \ {y}
<1>1. Sum(b, S) = b[y].value + Sum(b, R) /\ Sum(c, S) = c[y].value + Sum(c, R)
  BY SumWithout DEF Summable
<1>2. IsFiniteSet(R) /\ (\A x \in R : b[x].value \in Nat) /\ (\A x \in R : c[x].value = b[x].value)
  BY FS_Subset DEF Summable
<1>3. b[y].value \in Nat /\ c[y].value \in Nat
  BY DEF Summable
<1> HIDE DEF R
<1>4. Sum(c, R) = Sum(b, R) /\ Sum(b, R) \in Nat
  BY <1>2, SumSame, SumNat
<1> QED BY <1>1, <1>3, <1>4

(* One place more adds its value.                                              *)
Grown(b, c, S, y) ==
  /\ y \notin S /\ Summable(b, S) /\ c[y].value \in Nat
  /\ \A x \in S : c[x].value = b[x].value

LEMMA SumGrown ==
  ASSUME NEW b, NEW c, NEW S, NEW y, Grown(b, c, S, y)
  PROVE  /\ Sum(b, S) \in Nat /\ Sum(c, S \cup {y}) \in Nat
         /\ Sum(c, S \cup {y}) = c[y].value + Sum(b, S)
<1> DEFINE T == S \cup {y}
<1>1. y \in T /\ T \ {y} = S
  BY DEF Grown
<1>2. IsFiniteSet(T) /\ (\A x \in T : c[x].value \in Nat)
  BY FS_AddElement DEF Summable, Grown
<1>3. IsFiniteSet(S) /\ (\A x \in S : b[x].value \in Nat) /\ c[y].value \in Nat
      /\ \A x \in S : c[x].value = b[x].value
  BY DEF Summable, Grown
<1> HIDE DEF T
<1>4. Sum(c, T) = c[y].value + Sum(c, T \ {y})
  BY <1>1, <1>2, SumWithout
<1>5. Sum(c, S) = Sum(b, S)
  BY <1>3, SumSame
<1>6. Sum(b, S) \in Nat
  BY <1>3, SumNat
<1>7. Sum(c, T) = c[y].value + Sum(b, S)
  BY <1>1, <1>4, <1>5
<1> QED BY <1>3, <1>6, <1>7 DEF T

LEMMA BoxesSummable ==
  ASSUME TypeOK, Counted PROVE Summable(invite, used) /\ Summable(bond, used)
BY DEF TypeOK, Counted, Summable, InviteBox, BondBox, NoBox

LEMMA PurseSummable ==
  ASSUME IsFiniteSet(User), NEW k \in [User -> Nat] PROVE Summable(Purse(k), User)
BY DEF Summable, Purse

(* One user's karma changes by what the sum changes by.                         *)
LEMMA PurseChanged ==
  ASSUME IsFiniteSet(User), NEW k \in [User -> Nat], NEW l \in [User -> Nat], NEW u \in User,
         \A w \in User \ {u} : l[w] = k[w]
  PROVE  /\ Sum(Purse(k), User) \in Nat /\ Sum(Purse(l), User) \in Nat
         /\ Sum(Purse(l), User) + k[u] = Sum(Purse(k), User) + l[u]
<1>1. Summable(Purse(k), User) /\ Summable(Purse(l), User)
  BY PurseSummable
<1>2. \A w \in User : Purse(k)[w].value = k[w] /\ Purse(l)[w].value = l[w]
  BY DEF Purse
<1>3. \A w \in User \ {u} : Purse(l)[w].value = Purse(k)[w].value
  BY <1>2
<1> DEFINE p == Purse(k)
           q == Purse(l)
<1>4. p[u].value = k[u] /\ q[u].value = l[u]
  BY <1>2
<1> HIDE DEF p, q
<1>5. /\ Sum(p, User) \in Nat /\ Sum(q, User) \in Nat
      /\ Sum(q, User) + p[u].value = Sum(p, User) + q[u].value
  BY <1>1, <1>3, SumChanged DEF p, q
<1> QED BY <1>4, <1>5 DEF p, q

(* The sums before and after, each a number                                    *)
Before == /\ Sum(Purse(karma), User) \in Nat
          /\ Sum(invite, used) \in Nat /\ Sum(bond, used) \in Nat

LEMMA SumsNumbers == ASSUME IsFiniteSet(User), TypeOK, Counted PROVE Before
<1>1. Summable(Purse(karma), User) /\ Summable(invite, used) /\ Summable(bond, used)
  BY PurseSummable, BoxesSummable DEF TypeOK
<1> QED BY <1>1, SumNat DEF Summable, Before

LEMMA CreateConserves ==
  ASSUME IsFiniteSet(User), TypeOK, Counted, TypeOK', NEW t \in Create, ValidCreate(t), ApplyCreate(t)
  PROVE  Total' = Total
<1>1. /\ t.i \in Invite /\ t.by \in User /\ t.value \in Nat /\ t.stake \in Nat /\ t.i \notin used
  BY DEF Create, ValidCreate
<1>2. karma \in [User -> Nat] /\ karma' \in [User -> Nat]
  BY DEF TypeOK
<1>3. karma'[t.by] = karma[t.by] - t.value - t.stake /\ \A w \in User \ {t.by} : karma'[w] = karma[w]
  BY <1>1, <1>2 DEF ApplyCreate
<1>4. /\ Sum(Purse(karma), User) \in Nat /\ Sum(Purse(karma'), User) \in Nat
      /\ Sum(Purse(karma'), User) + karma[t.by] = Sum(Purse(karma), User) + karma'[t.by]
  BY <1>1, <1>2, <1>3, PurseChanged
<1>5. used' = used \cup {t.i} /\ used \subseteq Invite
  BY DEF ApplyCreate, TypeOK
<1>6. invite'[t.i].value = t.value /\ \A x \in used : invite'[x].value = invite[x].value
  BY <1>1, <1>5 DEF ApplyCreate, TypeOK
<1>7. bond'[t.i].value = t.stake /\ \A x \in used : bond'[x].value = bond[x].value
  BY <1>1, <1>5 DEF ApplyCreate, TypeOK
<1>8. PICK i : i = t.i
  OBVIOUS
<1>9. Grown(invite, invite', used, i) /\ Grown(bond, bond', used, i) /\ used' = used \cup {i}
      /\ invite'[i].value = t.value /\ bond'[i].value = t.stake
  BY <1>1, <1>5, <1>6, <1>7, <1>8, BoxesSummable DEF Grown
<1>10. Sum(invite', used') = t.value + Sum(invite, used) /\ Sum(invite, used) \in Nat
  <2>1. Grown(invite, invite', used, i)
    BY <1>9
  <2>2. /\ Sum(invite, used) \in Nat
        /\ Sum(invite', used \cup {i}) = invite'[i].value + Sum(invite, used)
    BY <2>1, SumGrown
  <2> QED BY <1>9, <2>2
<1>11. Sum(bond', used') = t.stake + Sum(bond, used) /\ Sum(bond, used) \in Nat
  <2>1. Grown(bond, bond', used, i)
    BY <1>9
  <2>2. /\ Sum(bond, used) \in Nat
        /\ Sum(bond', used \cup {i}) = bond'[i].value + Sum(bond, used)
    BY <2>1, SumGrown
  <2> QED BY <1>9, <2>2
<1>12. karma[t.by] \in Nat
  BY <1>1, <1>2
<1> DEFINE a == Sum(Purse(karma), User)
           d == Sum(Purse(karma'), User)
           e == Sum(invite, used)
           f == Sum(bond, used)
           en == Sum(invite', used')
           fn == Sum(bond', used')
<1>13. Total = a + e + f /\ Total' = d + en + fn
  BY DEF Total
<1>14. a \in Nat /\ d \in Nat /\ e \in Nat /\ f \in Nat /\ en = t.value + e /\ fn = t.stake + f
       /\ d + karma[t.by] = a + karma'[t.by]
  BY <1>4, <1>10, <1>11
<1> DEFINE k == karma[t.by]
           kn == karma'[t.by]
           v == t.value
           s == t.stake
<1>15. /\ a \in Nat /\ d \in Nat /\ e \in Nat /\ f \in Nat /\ en = v + e /\ fn = s + f
       /\ d + k = a + kn /\ k \in Nat /\ v \in Nat /\ s \in Nat /\ kn = k - v - s
  BY <1>1, <1>3, <1>12, <1>14
<1> HIDE DEF a, d, e, f, en, fn, k, kn, v, s
<1>16. d + en + fn = a + e + f
  BY <1>15
<1> QED BY <1>13, <1>16

(* Both boxes of the slots change in one place each, and so does the karma.     *)
LEMMA OneEach ==
  ASSUME IsFiniteSet(User), TypeOK, Counted, TypeOK', used' = used,
         NEW u \in User, \A w \in User \ {u} : karma'[w] = karma[w],
         NEW i \in used, \A x \in used \ {i} : invite'[x].value = invite[x].value,
         NEW j \in used, \A x \in used \ {j} : bond'[x].value = bond[x].value,
         karma'[u] + invite'[i].value + bond'[j].value = karma[u] + invite[i].value + bond[j].value
  PROVE  Total' = Total
<1>1. karma \in [User -> Nat] /\ karma' \in [User -> Nat]
  BY DEF TypeOK
<1>2. /\ Sum(Purse(karma), User) \in Nat /\ Sum(Purse(karma'), User) \in Nat
      /\ Sum(Purse(karma'), User) + karma[u] = Sum(Purse(karma), User) + karma'[u]
  BY <1>1, PurseChanged
<1>3. /\ Summable(invite, used) /\ Summable(bond, used)
      /\ Summable(invite', used) /\ Summable(bond', used)
  <2>1. Summable(invite, used) /\ Summable(bond, used)
    BY BoxesSummable
  <2>2. \A x \in used : invite'[x].value \in Nat /\ bond'[x].value \in Nat
    BY DEF TypeOK, InviteBox, BondBox, NoBox
  <2> QED BY <2>1, <2>2 DEF Summable
<1>4. /\ Sum(invite, used) \in Nat /\ Sum(invite', used) \in Nat
      /\ Sum(invite', used) + invite[i].value = Sum(invite, used) + invite'[i].value
  BY <1>3, SumChanged
<1>5. /\ Sum(bond, used) \in Nat /\ Sum(bond', used) \in Nat
      /\ Sum(bond', used) + bond[j].value = Sum(bond, used) + bond'[j].value
  BY <1>3, SumChanged
<1>6. /\ karma[u] \in Nat /\ karma'[u] \in Nat /\ invite[i].value \in Nat
      /\ invite'[i].value \in Nat /\ bond[j].value \in Nat /\ bond'[j].value \in Nat
  BY <1>1, <1>3 DEF Summable
<1> DEFINE a == Sum(Purse(karma), User)
           d == Sum(Purse(karma'), User)
           e == Sum(invite, used)
           f == Sum(bond, used)
           en == Sum(invite', used)
           fn == Sum(bond', used)
           k  == karma[u]
           kn == karma'[u]
           v  == invite[i].value
           vn == invite'[i].value
           b  == bond[j].value
           bn == bond'[j].value
<1>7. Total = a + e + f /\ Total' = d + en + fn
  BY DEF Total
<1>8. /\ a \in Nat /\ d \in Nat /\ e \in Nat /\ f \in Nat /\ en \in Nat /\ fn \in Nat
      /\ d + k = a + kn /\ en + v = e + vn /\ fn + b = f + bn
  BY <1>2, <1>4, <1>5
<1>9. /\ k \in Nat /\ kn \in Nat /\ v \in Nat /\ vn \in Nat /\ b \in Nat /\ bn \in Nat
      /\ kn + vn + bn = k + v + b
  BY <1>6
<1> HIDE DEF a, d, e, f, en, fn, k, kn, v, vn, b, bn
<1>10. d + en + fn = a + e + f
  BY <1>8, <1>9
<1> QED BY <1>7, <1>10

LEMMA ClaimConserves ==
  ASSUME IsFiniteSet(User), TypeOK, Counted, TypeOK', NEW t \in Claim, ValidClaim(t), ApplyClaim(t)
  PROVE  Total' = Total
<1>1. t.i \in Invite /\ t.j \in Invite /\ t.value \in Nat
  BY DEF Claim
<1>2. t.i \in used /\ t.j \in used /\ used \subseteq Invite /\ used' = used
  BY <1>1 DEF ValidClaim, Committed, Live, TypeOK, ApplyClaim
<1>3. invite[t.i] \in InviteBox /\ bond[t.j] \in BondBox /\ bond[t.j].invitee \in User
  BY <1>1, LiveInvite, LiveBond DEF ValidClaim, Committed, BondBox
<1> DEFINE u == bond[t.j].invitee
<1>4. karma'[u] = karma[u] + t.value /\ \A w \in User \ {u} : karma'[w] = karma[w]
  BY <1>3 DEF ApplyClaim, TypeOK
<1>5. invite'[t.i].value = 0 /\ \A x \in used \ {t.i} : invite'[x].value = invite[x].value
  BY <1>1, <1>2 DEF ApplyClaim, TypeOK, NoBox
<1>6. /\ bond'[t.j].value = (invite[t.i].value + bond[t.j].value) - t.value
      /\ \A x \in used \ {t.j} : bond'[x].value = bond[x].value
  BY <1>1, <1>2 DEF ApplyClaim, TypeOK
<1>7. karma[u] \in Nat /\ invite[t.i].value \in Nat /\ bond[t.j].value \in Nat
  BY <1>3 DEF TypeOK, InviteBox, BondBox
<1>8. karma'[u] + invite'[t.i].value + bond'[t.j].value
        = karma[u] + invite[t.i].value + bond[t.j].value
  BY <1>1, <1>4, <1>5, <1>6, <1>7
<1> HIDE DEF u
<1>9. u \in User
  BY <1>3 DEF u
<1> QED BY <1>2, <1>4, <1>5, <1>6, <1>8, <1>9, OneEach

LEMMA CancelConserves ==
  ASSUME IsFiniteSet(User), TypeOK, Counted, TypeOK', NEW t \in Cancel, ValidCancel(t), ApplyCancel(t)
  PROVE  Total' = Total
<1>1. t.i \in Invite /\ t.j \in Invite /\ t.by \in User
  BY DEF Cancel
<1>2. t.i \in used /\ t.j \in used /\ used \subseteq Invite /\ used' = used
  BY <1>1 DEF ValidCancel, Live, TypeOK, ApplyCancel
<1>3. invite[t.i] \in InviteBox /\ bond[t.j] \in BondBox
  BY <1>1, LiveInvite, LiveBond DEF ValidCancel
<1>4. /\ karma'[t.by] = karma[t.by] + invite[t.i].value + bond[t.j].value
      /\ \A w \in User \ {t.by} : karma'[w] = karma[w]
  BY <1>1 DEF ApplyCancel, TypeOK
<1>5. invite'[t.i].value = 0 /\ \A x \in used \ {t.i} : invite'[x].value = invite[x].value
  BY <1>1, <1>2 DEF ApplyCancel, TypeOK, NoBox
<1>6. bond'[t.j].value = 0 /\ \A x \in used \ {t.j} : bond'[x].value = bond[x].value
  BY <1>1, <1>2 DEF ApplyCancel, TypeOK, NoBox
<1>7. karma[t.by] \in Nat /\ invite[t.i].value \in Nat /\ bond[t.j].value \in Nat
  BY <1>1, <1>3 DEF TypeOK, InviteBox, BondBox
<1>8. karma'[t.by] + invite'[t.i].value + bond'[t.j].value
        = karma[t.by] + invite[t.i].value + bond[t.j].value
  BY <1>4, <1>5, <1>6, <1>7
<1> QED BY <1>1, <1>2, <1>4, <1>5, <1>6, <1>8, OneEach

LEMMA SettleConserves ==
  ASSUME IsFiniteSet(User), TypeOK, Counted, TypeOK', NEW t \in Settle, ValidSettle(t, Block),
         ApplySettle(t)
  PROVE  Total' = Total
<1>1. t.j \in Invite /\ bond[t.j] \in BondBox /\ bond[t.j].inviter \in User
  BY LiveBond DEF Settle, ValidSettle, Committed, BondBox
<1>2. t.j \in used /\ used \subseteq Invite /\ used' = used
  BY <1>1 DEF ValidSettle, Committed, Live, TypeOK, ApplySettle
<1> DEFINE u == bond[t.j].inviter
<1>3. karma'[u] = karma[u] + bond[t.j].value /\ \A w \in User \ {u} : karma'[w] = karma[w]
  BY <1>1 DEF ApplySettle, TypeOK
<1>4. \A x \in used : invite'[x].value = invite[x].value
  BY DEF ApplySettle
<1>5. bond'[t.j].value = 0 /\ \A x \in used \ {t.j} : bond'[x].value = bond[x].value
  BY <1>1, <1>2 DEF ApplySettle, TypeOK, NoBox
<1>6. karma[u] \in Nat /\ invite[t.j].value \in Nat /\ bond[t.j].value \in Nat
  BY <1>1, <1>2 DEF TypeOK, InviteBox, BondBox, NoBox
<1>7. karma'[u] + invite'[t.j].value + bond'[t.j].value
        = karma[u] + invite[t.j].value + bond[t.j].value
  BY <1>2, <1>3, <1>4, <1>5, <1>6
<1> HIDE DEF u
<1>8. u \in User
  BY <1>1 DEF u
<1>9. \A x \in used \ {t.j} : invite'[x].value = invite[x].value
  BY <1>4
<1> QED BY <1>2, <1>3, <1>5, <1>7, <1>8, <1>9, OneEach

(* A commit rewrites a bond and moves nothing.                                  *)
LEMMA CommitConserves ==
  ASSUME IsFiniteSet(User), TypeOK, Counted, NEW t \in Commit, ValidCommit(t, Block), ApplyCommit(t)
  PROVE  Total' = Total
<1>1. t.i \in Invite
  BY DEF Commit
<1>2. used' = used /\ used \subseteq Invite /\ karma' = karma /\ invite' = invite
  BY DEF ApplyCommit, TypeOK
<1>3. \A x \in used : bond[x].value = bond'[x].value
  BY <1>1, <1>2 DEF ApplyCommit, TypeOK
<1>4. IsFiniteSet(used)
  BY DEF Counted
<1>5. Sum(bond, used) = Sum(bond', used)
  BY <1>3, <1>4, SumSame
<1> QED BY <1>2, <1>5 DEF Total

LEMMA TxConserves ==
  ASSUME IsFiniteSet(User), TypeOK, Counted, TypeOK', NEW t \in Tx, ApplyTx(t)
  PROVE  Total' = Total
<1>1. Valid(t, Block)
  BY DEF ApplyTx
<1>2. CASE t.type = "create" /\ ApplyCreate(t)
  BY <1>1, <1>2, TxKinds, CreateConserves DEF Valid
<1>3. CASE t.type = "commit" /\ ApplyCommit(t)
  BY <1>1, <1>3, TxKinds, CommitConserves DEF Valid
<1>4. CASE t.type = "claim" /\ ApplyClaim(t)
  BY <1>1, <1>4, TxKinds, ClaimConserves DEF Valid
<1>5. CASE t.type = "cancel" /\ ApplyCancel(t)
  BY <1>1, <1>5, TxKinds, CancelConserves DEF Valid
<1>6. CASE t.type = "settle" /\ ApplySettle(t)
  BY <1>1, <1>6, TxKinds, SettleConserves DEF Valid
<1> QED BY <1>2, <1>3, <1>4, <1>5, <1>6 DEF ApplyTx

LEMMA StepConserves ==
  ASSUME IsFiniteSet(User), TypeOK, Counted, TypeOK', [Next]_vars, moves' = moves
  PROVE  Total' = Total
<1>1. ASSUME NEW t \in Sendable, ApplyTx(t) PROVE Total' = Total
  BY <1>1, SendableTyped, TxConserves
<1>2. CASE UNCHANGED <<karma, invite, bond, used>>
  BY <1>2 DEF Total
<1>3. ASSUME NEW u \in User, Earn(u) \/ Burn(u) PROVE FALSE
  BY <1>3 DEF Earn, Burn, TypeOK
<1> QED BY <1>1, <1>2, <1>3 DEF Next, Submit, Evict, EndBlock, vars, boxes

(* With finitely many users, no transaction makes or destroys karma, whatever    *)
(* invite and bond it joins: what leaves a karma box is in a deposit and what     *)
(* leaves a deposit is in a karma box (checkTransitions, conservation).           *)
THEOREM DepositsConserve == ASSUME IsFiniteSet(User) PROVE Spec => TotalKept
<1>1. LimitInv /\ LimitInv' /\ [Next]_vars => [moves' = moves => Total' = Total]_vars
  BY StepConserves DEF LimitInv
<1> QED BY <1>1, LimitAlways, PTL DEF Spec, TotalKept

-----------------------------------------------------------------------------
(* The shape of transactions (TxSchema).                                         *)


Gated  == {"gated", "read", "shaped", "valid", "stored"}
Shaped == {"shaped", "valid", "stored"}

(* What the gate and the output schemas have established by the stage reached  *)
GateInv ==
  /\ type \in BoxType
  /\ stage \in Gated => EnvelopeOk(env)
  /\ stage \in Shaped => env["outputs"] \in {"boxes", "none"}
  /\ stage \in Shaped /\ env["outputs"] = "boxes" => OutputShapeOk

(* The row holds the columns of the output, or nothing                         *)
RowInv ==
  /\ stage # "stored" => row = << >>
  /\ stage = "stored" /\ row # << >> =>
       /\ env["outputs"] = "boxes"
       /\ row = [k \in DOMAIN Shape(type) \ {"guard"} |-> Column(k, output[k])]

(* The type of the field behind a key, whichever box it is in                  *)
KeyType(k) ==
  CASE k \in {"value", "originalValue"}                         -> {"u64"}
    [] k = "inviteePublicKey"                                   -> {"bytes0or32"}
    [] k \in {"owner", "secretHash", "inviterId", "voucherId", "targetId"} -> {"bytes32"}
    [] k \in {"probationStartBlock", "probationEndBlock"}       -> {"uint"}
    [] k = "guard"                                              -> {"guard"}
    [] OTHER -> {"string", "heightOrTransfer", "u32", "boolean", "uint"}

Keys == {"value", "owner", "guard", "proofSource", "decayBurn", "lockedUntilBlock", "secretHash",
         "inviterId", "inviteOutputIndex", "inviteePublicKey", "probationStartBlock",
         "probationEndBlock", "originalValue", "targetPostId", "voucherId", "targetId"}

(* The keys of each of the six boxes (OUTPUT_SHAPE of utxo-engine.ts).           *)
LEMMA ShapeKeys ==
  /\ DOMAIN Required["karma"] = {"value", "owner", "guard", "proofSource"}
  /\ DOMAIN Required["credit"] = {"value", "owner", "guard", "proofSource"}
  /\ DOMAIN Required["invite"] = {"value", "secretHash", "inviterId", "guard"}
  /\ DOMAIN Required["bond"] =
       {"value", "inviterId", "inviteOutputIndex", "inviteePublicKey", "probationStartBlock",
        "probationEndBlock", "guard"}
  /\ DOMAIN Required["post_lock"] = {"value", "originalValue", "owner", "targetPostId", "guard"}
  /\ DOMAIN Required["vouch"] = {"value", "voucherId", "targetId", "guard"}
  /\ DOMAIN Optional["karma"] = {"decayBurn"}
  /\ DOMAIN Optional["credit"] = {"lockedUntilBlock"}
  /\ \A t \in {"invite", "bond", "post_lock", "vouch"} : DOMAIN Optional[t] = {}
<1>1. DOMAIN Required["karma"] = {"value", "owner", "guard", "proofSource"}
  BY DEF Required
<1>2. DOMAIN Required["credit"] = {"value", "owner", "guard", "proofSource"}
  BY DEF Required
<1>3. DOMAIN Required["invite"] = {"value", "secretHash", "inviterId", "guard"}
  BY DEF Required
<1>4. DOMAIN Required["bond"] =
        {"value", "inviterId", "inviteOutputIndex", "inviteePublicKey", "probationStartBlock",
         "probationEndBlock", "guard"}
  BY DEF Required
<1>5. DOMAIN Required["post_lock"] = {"value", "originalValue", "owner", "targetPostId", "guard"}
  BY DEF Required
<1>6. DOMAIN Required["vouch"] = {"value", "voucherId", "targetId", "guard"}
  BY DEF Required
<1>7. DOMAIN Optional["karma"] = {"decayBurn"}
  BY DEF Optional, BoxType
<1>8. DOMAIN Optional["credit"] = {"lockedUntilBlock"}
  BY DEF Optional, BoxType
<1>9. ASSUME NEW t \in {"invite", "bond", "post_lock", "vouch"} PROVE DOMAIN Optional[t] = {}
  <2>1. t \in BoxType /\ t # "karma" /\ t # "credit"
    BY DEF BoxType
  <2>2. Optional[t] = << >>
    BY <2>1 DEF Optional
  <2>3. DOMAIN << >> = {}
    OBVIOUS
  <2> QED BY <2>2, <2>3
<1> QED BY <1>1, <1>2, <1>3, <1>4, <1>5, <1>6, <1>7, <1>8, <1>9

(* A key has one type, in whichever box it is, and none is a provenance column.   *)
LEMMA ShapeTypes ==
  ASSUME NEW t \in BoxType, NEW k \in DOMAIN Shape(t)
  PROVE  k \in Keys /\ Shape(t)[k] \in KeyType(k)
         /\ ~(k \in DOMAIN Required[t] /\ k \in DOMAIN Optional[t])
<1>0. DOMAIN Shape(t) = DOMAIN Required[t] \cup DOMAIN Optional[t]
  BY DEF Shape
<1>1. Shape(t)[k] = IF k \in DOMAIN Required[t] THEN Required[t][k] ELSE Optional[t][k]
  BY <1>0 DEF Shape
<1>2. CASE t = "karma"
  BY <1>0, <1>1, <1>2, ShapeKeys DEF Keys, KeyType, Required, Optional, BoxType
<1>3. CASE t = "credit"
  BY <1>0, <1>1, <1>3, ShapeKeys DEF Keys, KeyType, Required, Optional, BoxType
<1>4. CASE t = "invite"
  BY <1>0, <1>1, <1>4, ShapeKeys DEF Keys, KeyType, Required
<1>5. CASE t = "bond"
  BY <1>0, <1>1, <1>5, ShapeKeys DEF Keys, KeyType, Required
<1>6. CASE t = "post_lock"
  BY <1>0, <1>1, <1>6, ShapeKeys DEF Keys, KeyType, Required
<1>7. CASE t = "vouch"
  BY <1>0, <1>1, <1>7, ShapeKeys DEF Keys, KeyType, Required
<1> QED BY <1>2, <1>3, <1>4, <1>5, <1>6, <1>7 DEF BoxType

(* Nothing is established of a transaction the client has only built.              *)
LEMMA InitGate == TxInit => GateInv /\ RowInv
  BY DEF TxInit, GateInv, RowInv, Gated, Shaped

(* Only what passed checkTxEnvelope is gated, and only what passed
   checkOutputShape is shaped; later steps leave both parts alone.                 *)
LEMMA GateKept == ASSUME GateInv, [TxNext]_txVars PROVE GateInv'
<1>1. CASE Send
  BY <1>1 DEF GateInv, Gated, Shaped, Send
<1>2. CASE JsonToTx
  BY <1>2 DEF GateInv, Gated, Shaped, JsonToTx
<1>3. CASE Funnel
  BY <1>3 DEF GateInv, Gated, Shaped, Funnel
<1>4. ASSUME NEW k \in EnvKey, NEW h \in HeldBy[k], EditEnvelope(k, h) PROVE GateInv'
  BY <1>4 DEF GateInv, Gated, Shaped, EditEnvelope
<1>5. ASSUME NEW k \in Key, NEW v \in Value, EditOutput(k, v) PROVE GateInv'
  BY <1>5 DEF GateInv, Gated, Shaped, EditOutput
<1>6. CASE CheckTxEnvelope
  BY <1>6 DEF GateInv, Gated, Shaped, CheckTxEnvelope
<1>7. CASE ReadInputs
  BY <1>7 DEF GateInv, Gated, Shaped, ReadInputs
<1>8. CASE CheckOutputShape
  <2>1. EnvelopeOk(env) /\ UNCHANGED <<env, output, type>> /\ stage = "read"
    BY <1>8 DEF GateInv, Gated, CheckOutputShape
  <2>2. OutputShapeOk' <=> OutputShapeOk
    BY <2>1 DEF OutputShapeOk
  <2> QED BY <1>8, <2>1, <2>2 DEF GateInv, Gated, Shaped, CheckOutputShape, EnvelopeOk
<1>9. CASE CheckRules
  <2>1. OutputShapeOk' <=> OutputShapeOk
    BY <1>9 DEF CheckRules, OutputShapeOk
  <2> QED BY <1>9, <2>1 DEF GateInv, Gated, Shaped, CheckRules
<1>10. CASE InsertBox
  <2>1. OutputShapeOk' <=> OutputShapeOk
    BY <1>10 DEF InsertBox, OutputShapeOk
  <2> QED BY <1>10, <2>1 DEF GateInv, Gated, Shaped, InsertBox
<1>11. CASE UNCHANGED txVars
  <2>1. OutputShapeOk' <=> OutputShapeOk
    BY <1>11 DEF txVars, OutputShapeOk
  <2> QED BY <1>11, <2>1 DEF GateInv, Gated, Shaped, txVars
<1> QED
  BY <1>1, <1>2, <1>3, <1>4, <1>5, <1>6, <1>7, <1>8, <1>9, <1>10, <1>11 DEF TxNext

(* insertBox writes the columns of a shaped output and nothing rewrites them.       *)
LEMMA RowKept == ASSUME GateInv, RowInv, [TxNext]_txVars PROVE RowInv'
<1>1. CASE InsertBox
  <2>1. row = << >> /\ stage' = "stored" /\ UNCHANGED <<env, type, output>>
    BY <1>1 DEF RowInv, InsertBox
  <2>2. env["outputs"] \in {"boxes", "none"}
    BY <1>1 DEF GateInv, Shaped, InsertBox
  <2>3. row' = IF env["outputs"] = "none" THEN row
               ELSE [k \in DOMAIN Shape(type) \ {"guard"} |-> Column(k, output[k])]
    BY <1>1 DEF InsertBox
  <2> QED BY <2>1, <2>2, <2>3 DEF RowInv
<1>2. CASE UNCHANGED row /\ stage # "stored" /\ stage' # "stored"
  BY <1>2 DEF RowInv
<1>3. CASE UNCHANGED txVars
  BY <1>3 DEF RowInv, txVars
<1>4. ASSUME TxNext, ~InsertBox PROVE UNCHANGED row /\ stage # "stored" /\ stage' # "stored"
  BY <1>4, Zenon DEF TxNext, Send, JsonToTx, Funnel, EditEnvelope, EditOutput,
       CheckTxEnvelope, ReadInputs, CheckOutputShape, CheckRules
<1> QED BY <1>1, <1>2, <1>3, <1>4

-----------------------------------------------------------------------------
(* checkTxEnvelope and checkOutputShape bind every later stage, at both doors and
   whatever was edited on the way: what is past the gate has the envelope it asks
   for, what is past the shapes has the fields of its type, and a stored row holds
   the columns of that very output (utxo-engine.ts, store/utxo.ts).                *)
THEOREM GatesHold == TxSpec => [](GateInv /\ RowInv)
<1>1. GateInv /\ RowInv /\ [TxNext]_txVars => (GateInv /\ RowInv)'
  BY GateKept, RowKept
<1> QED BY InitGate, <1>1, PTL DEF TxSpec

(* No field type admits a missing field.                                           *)
LEMMA FieldsPresent ==
  \A f \in DOMAIN FieldType : "absent" \notin FieldType[f]
  BY DEF FieldType, Text

(* Every key's types are field types.                                              *)
LEMMA KeyTypesKnown == \A k : KeyType(k) \subseteq DOMAIN FieldType
<1>1. DOMAIN FieldType = {"u64", "bytes32", "bytes0or32", "heightOrTransfer", "uint", "u32",
                            "string", "boolean", "guard"}
  BY DEF FieldType
<1> QED BY <1>1 DEF KeyType

(* What the schema lets through of a key: its type's values, or nothing         *)
LEMMA ShapedField ==
  ASSUME type \in BoxType, OutputShapeOk, NEW k \in DOMAIN Shape(type)
  PROVE  /\ output[k] \in May(type, k)
         /\ k \in DOMAIN Required[type] => output[k] \in FieldType[Shape(type)[k]]
<1>1. DOMAIN Shape(type) = DOMAIN Required[type] \cup DOMAIN Optional[type]
  BY DEF Shape
<1>2. output[k] \in FieldType[Shape(type)[k]] \cup {"absent"}
  BY DEF OutputShapeOk
<1>3. k \in DOMAIN Required[type] => output[k] # "absent"
  BY DEF OutputShapeOk
<1> QED BY <1>1, <1>2, <1>3 DEF May

(* Past the shapes there is no field the rules cannot read.                        *)
LEMMA ReadableAfterShape ==
  ASSUME type \in BoxType, EnvelopeOk(env), env["outputs"] \in {"boxes", "none"},
         env["outputs"] = "boxes" => OutputShapeOk
  PROVE  ~Unreadable
<1>1. env["likeTarget"] # "null" /\ env["preimages"] # "badMap"
      /\ env["signatures"] \notin {"null", "undefined", "absent"}
  BY DEF EnvelopeOk
<1>2. ASSUME env["outputs"] = "boxes"
      PROVE  output["value"] \in Big
             /\ \A k \in Dereferenced[type] : output[k] \in Bytes \cup Text
  <2>1. "value" \in DOMAIN Required[type]
    BY ShapeKeys DEF BoxType
  <2>2. Dereferenced[type] \subseteq DOMAIN Required[type]
    BY ShapeKeys DEF BoxType, Dereferenced
  <2>3. Dereferenced[type] \subseteq {"owner", "inviteePublicKey", "inviterId", "voucherId", "targetId"}
    BY DEF BoxType, Dereferenced
  <2>4. DOMAIN Required[type] \subseteq DOMAIN Shape(type)
    BY DEF Shape
  <2>5. FieldType["u64"] \subseteq Big /\ FieldType["bytes32"] \subseteq Bytes
        /\ FieldType["bytes0or32"] \subseteq Bytes
    BY DEF FieldType, Big, Bytes
  <2>6. output["value"] \in Big
    <3>1. Shape(type)["value"] = "u64"
      BY <2>1, <2>4, ShapeTypes DEF KeyType
    <3> QED BY <1>2, <2>1, <2>4, <2>5, <3>1, ShapedField
  <2>7. ASSUME NEW k \in Dereferenced[type] PROVE output[k] \in Bytes
    <3>1. Shape(type)[k] \in {"bytes32", "bytes0or32"}
      BY <2>2, <2>3, <2>4, ShapeTypes DEF KeyType
    <3> QED BY <1>2, <2>2, <2>4, <2>5, <3>1, ShapedField
  <2> QED BY <2>6, <2>7
<1> QED BY <1>1, <1>2 DEF Unreadable

(* validateTx never throws: whatever a peer or client put in the envelope or the
   outputs, and however many fields of it, each read is behind the gate or the
   schema that makes it safe (utxo-engine.ts).  The one throw on the way of a
   transaction is the block funnel's, on an output that is null.                   *)
THEOREM ValidationTotal == TxSpec => []OnlyNullOutputsThrow
<1>1. TxInit => OnlyNullOutputsThrow
  BY DEF TxInit, OnlyNullOutputsThrow
<1>2. ASSUME GateInv, OnlyNullOutputsThrow, [TxNext]_txVars PROVE OnlyNullOutputsThrow'
  <2>1. CASE ReadInputs
    BY <2>1, <1>2 DEF ReadInputs, GateInv, Gated, EnvelopeOk, OnlyNullOutputsThrow
  <2>2. CASE CheckOutputShape
    <3>1. env["outputs"] \notin {"null", "undefined", "absent"}
      BY <2>2, <1>2 DEF CheckOutputShape, GateInv, Gated, EnvelopeOk
    <3> QED BY <2>2, <3>1 DEF CheckOutputShape, OnlyNullOutputsThrow
  <2>3. CASE CheckRules
    <3>1. ~Unreadable
      BY <2>3, <1>2, ReadableAfterShape DEF CheckRules, GateInv, Gated, Shaped
    <3> QED BY <2>3, <3>1 DEF CheckRules, OnlyNullOutputsThrow
  <2>4. CASE UNCHANGED txVars
    BY <2>4, <1>2 DEF txVars, OnlyNullOutputsThrow
  <2>5. ASSUME NEW k \in EnvKey, NEW h \in HeldBy[k], EditEnvelope(k, h)
        PROVE  OnlyNullOutputsThrow'
    BY <2>5, <1>2 DEF EditEnvelope, OnlyNullOutputsThrow
  <2>6. ASSUME NEW k \in Key, NEW v \in Value, EditOutput(k, v)
        PROVE  OnlyNullOutputsThrow'
    BY <2>6, <1>2 DEF EditOutput, OnlyNullOutputsThrow
  <2>7. CASE Send \/ JsonToTx \/ Funnel \/ CheckTxEnvelope \/ InsertBox
    BY <2>7 DEF Send, JsonToTx, Funnel, CheckTxEnvelope, InsertBox,
       OnlyNullOutputsThrow
  <2> QED BY <1>2, <2>1, <2>2, <2>3, <2>4, <2>5, <2>6, <2>7 DEF TxNext
<1> QED BY <1>1, <1>2, GatesHold, PTL DEF TxSpec

-----------------------------------------------------------------------------
(* Of two transactions that pass the gate, the hash and the signatures say      *)
(* everything.                                                                  *)
Envelope(e) == e = [k \in EnvKey |-> e[k]]

(* The parts of an envelope.                                                       *)
LEMMA EnvelopeKeys ==
  EnvKey = {"body", "inputs", "outputs", "signatures", "preimages", "protocolVersion",
               "likeTarget", "stray"}
  BY DEF EnvKey, HeldBy

(* Malleability: two envelopes that both pass checkTxEnvelope, carry the same
   signatures and have the same hash are the same envelope.  What the hash leaves
   out the gate pins to one value (computeTxId, checkTxEnvelope).                  *)
THEOREM HashBindsEnvelope ==
  ASSUME NEW e, NEW f, Envelope(e), Envelope(f), EnvelopeOk(e), EnvelopeOk(f),
         Hashed(e) = Hashed(f), e["signatures"] = f["signatures"]
  PROVE  e = f
<1>1. e["inputs"] = f["inputs"] /\ e["outputs"] = f["outputs"]
  BY DEF Hashed
<1>2. e["preimages"] = f["preimages"]
  BY DEF Hashed, EnvelopeOk
<1>3. e["likeTarget"] = f["likeTarget"]
  BY DEF Hashed, EnvelopeOk
<1>4. e["body"] = f["body"] /\ e["stray"] = f["stray"] /\ e["protocolVersion"] = f["protocolVersion"]
  BY DEF EnvelopeOk
<1>5. \A k \in EnvKey : e[k] = f[k]
  BY <1>1, <1>2, <1>3, <1>4, EnvelopeKeys
<1>6. [k \in EnvKey |-> e[k]] = [k \in EnvKey |-> f[k]]
  BY <1>5
<1> QED BY <1>6 DEF Envelope

(* An envelope never gains or loses a part.                                        *)
LEMMA EnvelopeKept ==
  ASSUME Envelope(env), [TxNext]_txVars PROVE Envelope(env)'
<1>1. CASE JsonToTx
  BY <1>1 DEF JsonToTx, Envelope
<1>2. ASSUME NEW k \in EnvKey, NEW h \in HeldBy[k], EditEnvelope(k, h)
      PROVE  Envelope(env)'
  <2>1. env = [x \in EnvKey |-> env[x]] /\ env' = [env EXCEPT ![k] = h]
    BY <1>2 DEF EditEnvelope, Envelope
  <2>2. env' = [x \in EnvKey |-> IF x = k THEN h ELSE env[x]]
    BY <2>1
  <2> QED BY <2>2 DEF Envelope
<1>3. CASE UNCHANGED env
  BY <1>3 DEF Envelope
<1>4. ASSUME TxNext, ~JsonToTx,
             ~\E k \in EnvKey : \E h \in HeldBy[k] : EditEnvelope(k, h)
      PROVE  UNCHANGED env
  BY <1>4, Zenon DEF TxNext, Send, Funnel, EditOutput,
       CheckTxEnvelope, ReadInputs, CheckOutputShape, CheckRules, InsertBox
<1> QED BY <1>1, <1>2, <1>3, <1>4 DEF txVars

(* Nobody who relays a gated transaction can change one part of its envelope and
   still pass the gate under the same hash, whatever was edited before.            *)
THEOREM NoFreeKey == TxSpec => []NoKeyIsFree
<1>1. TxInit => Envelope(env)
  <2>1. ASSUME TxInit PROVE env = Plain
    BY <2>1 DEF TxInit
  <2>2. Envelope(Plain)
    BY EnvelopeKeys DEF Envelope, Plain
  <2> QED BY <2>1, <2>2
<1>2. ASSUME GateInv, Envelope(env) PROVE NoKeyIsFree
  <2> SUFFICES ASSUME stage = "gated", NEW k \in EnvKey \ {"signatures"}, NEW h,
                      EnvelopeOk([env EXCEPT ![k] = h]),
                      Hashed([env EXCEPT ![k] = h]) = Hashed(env)
               PROVE  [env EXCEPT ![k] = h] = env
    BY DEF NoKeyIsFree
  <2> DEFINE other == [env EXCEPT ![k] = h]
  <2>1. env = [x \in EnvKey |-> env[x]]
    BY <1>2 DEF Envelope
  <2>2. other = [x \in EnvKey |-> IF x = k THEN h ELSE env[x]]
    BY <2>1
  <2>3. other["signatures"] = env["signatures"]
    BY <2>2, EnvelopeKeys
  <2>4. Envelope(other)
    BY <2>2 DEF Envelope
  <2>5. EnvelopeOk(env) /\ EnvelopeOk(other) /\ Hashed(other) = Hashed(env)
    BY <1>2 DEF GateInv, Gated
  <2> HIDE DEF other
  <2>6. other = env
    BY <1>2, <2>3, <2>4, <2>5, HashBindsEnvelope
  <2> QED BY <2>6 DEF other
<1>3. Envelope(env) /\ [TxNext]_txVars => Envelope(env)'
  BY EnvelopeKept
<1> QED BY <1>1, <1>2, <1>3, GatesHold, PTL DEF TxSpec

-----------------------------------------------------------------------------
(* What rowToBox makes of a column *)
Read(k, c) ==
  CASE k = "inviteePublicKey" /\ c = "null" -> "bytes0"
    [] k \in {"probationStartBlock", "probationEndBlock"} /\ c = "null" -> "zero"
    [] OTHER -> c

(* A key that may be absent is optional; every other has a value of its type.      *)
LEMMA KeyValues ==
  ASSUME NEW t \in BoxType, NEW k \in DOMAIN Shape(t), NEW v \in May(t, k)
  PROVE  \/ k \in DOMAIN Optional[t] /\ v = "absent"
         \/ \E f \in KeyType(k) : v \in FieldType[f]
  BY ShapeTypes DEF May

(* Only karma and credit boxes have an optional key.                               *)
LEMMA OptionalKeys ==
  ASSUME NEW t \in BoxType, NEW k \in DOMAIN Optional[t]
  PROVE  k \in {"decayBurn", "lockedUntilBlock"}
  BY ShapeKeys DEF BoxType

(* A column read back by rowToBox is the value insertBox wrote.                    *)
LEMMA OutAndIn ==
  ASSUME NEW t \in BoxType, NEW k \in DOMAIN Shape(t), k # "guard", NEW v \in May(t, k)
  PROVE  Read(k, Column(k, v)) = v
<1>1. CASE k \in DOMAIN Optional[t] /\ v = "absent"
  <2>1. k \in {"decayBurn", "lockedUntilBlock"}
    BY <1>1, OptionalKeys
  <2> QED BY <1>1, <2>1 DEF Read, Column, BinaryFields, Json, Big
<1>2. ASSUME NEW f \in KeyType(k), v \in FieldType[f] PROVE Read(k, Column(k, v)) = v
  <2>1. k \in Keys
    BY ShapeTypes
  <2>2. CASE k \in {"value", "originalValue"}
    BY <2>2 DEF Read, Column, BinaryFields
  <2>3. CASE k = "inviteePublicKey"
    <3>1. v \in {"bytes0", "bytes32"}
      BY <1>2, <2>3 DEF KeyType, FieldType
    <3> QED BY <2>3, <3>1 DEF Read, Column, BinaryFields, Bytes
  <2>4. CASE k \in {"owner", "secretHash", "inviterId", "voucherId", "targetId"}
    <3>1. v = "bytes32"
      BY <1>2, <2>4 DEF KeyType, FieldType
    <3> QED BY <2>4, <3>1 DEF Read, Column, BinaryFields, Bytes
  <2>5. CASE k \in {"probationStartBlock", "probationEndBlock"}
    <3>1. v \in {"zero", "uint", "u53"}
      BY <1>2, <2>5 DEF KeyType, FieldType
    <3> QED BY <2>5, <3>1 DEF Read, Column, BinaryFields
  <2>6. CASE k \in {"proofSource", "inviteOutputIndex", "targetPostId", "decayBurn",
                    "lockedUntilBlock"}
    <3>1. v \in Text \cup {"minus1", "zero", "uint", "u53", "boolean"}
      BY <1>2, <2>6 DEF KeyType, FieldType
    <3>2. v \notin {"undefined", "negzero"} /\ v \notin Big
      BY <3>1 DEF Text, Big
    <3> QED BY <2>6, <3>2 DEF Read, Column, BinaryFields, Json
  <2> QED BY <2>1, <2>2, <2>3, <2>4, <2>5, <2>6 DEF Keys
<1> QED BY <1>1, <1>2, KeyValues

(* Every output validateTx accepts comes back from its row as it was validated:
   insertBox and rowToBox lose and add nothing, for every type of box, both doors
   and any number of edits (store/utxo.ts).                                        *)
THEOREM RowsKeepBoxes == TxSpec => []RowsKeepTheBox
<1>1. ASSUME GateInv, RowInv PROVE RowsKeepTheBox
  <2> SUFFICES ASSUME stage = "stored", row # << >> PROVE RowToBox = Box
    BY DEF RowsKeepTheBox
  <2>1. type \in BoxType /\ OutputShapeOk
    BY <1>1 DEF GateInv, RowInv, Shaped
  <2>2. row = [k \in DOMAIN Shape(type) \ {"guard"} |-> Column(k, output[k])]
    BY <1>1 DEF RowInv
  <2>3. DOMAIN row = DOMAIN Shape(type) \ {"guard"}
    BY <2>2
  <2>4. ASSUME NEW k \in Key
        PROVE  (CASE k \in Provenance -> "provenance" [] k = "guard" -> "canonical"
                  [] k \in DOMAIN row -> Restored(k) [] OTHER -> "absent")
               = IF k \in Provenance THEN "provenance" ELSE output[k]
    <3>0. k \in DOMAIN row => k \notin Provenance
      BY <2>1, <2>3, ShapeTypes DEF Keys, Provenance
    <3>1. CASE k \in Provenance
      BY <3>0, <3>1 DEF Provenance
    <3>2. CASE k = "guard"
      <4>1. "guard" \in DOMAIN Required[type]
        BY <2>1, ShapeKeys DEF BoxType
      <4>2. "guard" \in DOMAIN Shape(type)
        BY <4>1 DEF Shape
      <4>3. Shape(type)["guard"] = "guard"
        BY <2>1, <4>2, ShapeTypes DEF KeyType
      <4>4. output["guard"] = "canonical"
        BY <2>1, <4>1, <4>2, <4>3, ShapedField DEF FieldType
      <4> QED BY <2>3, <3>2, <4>4 DEF Provenance
    <3>3. CASE k \in DOMAIN row
      <4>1. k \in DOMAIN Shape(type) /\ k # "guard" /\ row[k] = Column(k, output[k])
        BY <2>2, <2>3, <3>3
      <4>2. Read(k, row[k]) = output[k]
        BY <2>1, <4>1, OutAndIn, ShapedField
      <4>3. Restored(k) = Read(k, row[k])
        BY DEF Restored, Read
      <4> QED BY <3>0, <3>3, <4>1, <4>2, <4>3
    <3>4. CASE k \notin Provenance /\ k # "guard" /\ k \notin DOMAIN row
      <4>1. output[k] = "absent"
        BY <2>1, <2>3, <3>4 DEF OutputShapeOk
      <4> QED BY <3>4, <4>1
    <3> QED BY <3>1, <3>2, <3>3, <3>4
  <2> QED BY <2>4 DEF RowToBox, Box
<1> QED BY <1>1, GatesHold, PTL

-----------------------------------------------------------------------------
(* What a client builds *)
WellFormed(t, o) ==
  /\ o = [k \in Key |-> o[k]]
  /\ \A k \in Key : o[k] \in IF k \in DOMAIN Shape(t) THEN May(t, k) ELSE {"absent"}

Wire(o) == [k \in Key |-> ToJson(o[k])]

(* An untouched transaction is the client's, or its JSON while on the way       *)
ClientInv ==
  /\ edits \in Nat
  /\ edits = 0 =>
       /\ env = Plain
       /\ IF stage = "wire" /\ door = "http"
          THEN \E w : WellFormed(type, w) /\ output = Wire(w)
          ELSE WellFormed(type, output)

(* The keys of a box are among those an edit may name.                             *)
LEMMA BoxKeys == ASSUME NEW t \in BoxType PROVE DOMAIN Shape(t) \subseteq Key
  BY DEF Shape, Key

(* Every key of every box has a value its schema allows.                           *)
LEMMA SomeValue ==
  ASSUME NEW t \in BoxType, NEW k \in DOMAIN Shape(t) PROVE May(t, k) # {}
<1>1. Shape(t)[k] \in DOMAIN FieldType
  BY ShapeTypes, KeyTypesKnown
<1>2. \A f \in DOMAIN FieldType : FieldType[f] # {}
  BY DEF FieldType, Text
<1> QED BY <1>1, <1>2 DEF May

(* What a client sends has exactly the keys of its type, with allowed values.      *)
LEMMA CandidatesWellFormed ==
  ASSUME NEW t \in BoxType, NEW o \in Candidates(t) PROVE WellFormed(t, o)
<1>1. PICK f \in Typed(t) :
        o = [k \in Key |-> CASE k \in Free(t) -> f[k]
                              [] k \in DOMAIN Required[t] -> CHOOSE v \in May(t, k) : TRUE
                              [] OTHER -> "absent"]
  BY DEF Candidates
<1>2. ASSUME NEW k \in Key
      PROVE  o[k] \in IF k \in DOMAIN Shape(t) THEN May(t, k) ELSE {"absent"}
  <2>0. DOMAIN Shape(t) = DOMAIN Required[t] \cup DOMAIN Optional[t]
    BY DEF Shape
  <2>1. CASE k \in Free(t)
    <3>1. k \in DOMAIN Shape(t)
      BY <2>1 DEF Free
    <3>2. o[k] = f[k] /\ f[k] \in May(t, k)
      BY <1>1, <2>1 DEF Typed
    <3> QED BY <3>1, <3>2
  <2>2. CASE k \notin Free(t) /\ k \in DOMAIN Required[t]
    <3>1. o[k] = CHOOSE v \in May(t, k) : TRUE
      BY <1>1, <2>2
    <3>2. May(t, k) # {}
      BY <2>0, <2>2, SomeValue
    <3> QED BY <2>0, <2>2, <3>1, <3>2
  <2>3. CASE k \notin Free(t) /\ k \notin DOMAIN Required[t]
    <3>1. o[k] = "absent"
      BY <1>1, <2>3
    <3>2. k \in DOMAIN Shape(t) => k \in DOMAIN Optional[t]
      BY <2>0, <2>3
    <3> QED BY <3>1, <3>2 DEF May
  <2> QED BY <2>1, <2>2, <2>3
<1> QED BY <1>1, <1>2 DEF WellFormed

(* A value that is allowed survives the JSON edge *)
LEMMA ThereAndBack ==
  ASSUME NEW t \in BoxType, NEW w, WellFormed(t, w), NEW k \in Key
  PROVE  Coercible(k, Wire(w)[k]) /\ Converted(k, Wire(w)[k]) = w[k]
<1>0. Wire(w)[k] = ToJson(w[k])
  BY DEF Wire
<1>1. CASE w[k] = "absent" /\ k # "value"
  BY <1>0, <1>1 DEF ToJson, Coercible, Converted, BinaryFields, ValueFields, Text
<1>2. "value" \in DOMAIN Required[t] /\ "value" \notin DOMAIN Optional[t]
      /\ "value" \in DOMAIN Shape(t)
  <2>1. "value" \in DOMAIN Required[t] /\ "value" \notin DOMAIN Optional[t]
    BY ShapeKeys DEF BoxType
  <2> QED BY <2>1 DEF Shape
<1>3. ASSUME w[k] # "absent" \/ k = "value"
      PROVE  k \in Keys /\ \E f \in KeyType(k) : w[k] \in FieldType[f]
  <2>1. k \in DOMAIN Shape(t) /\ w[k] \in May(t, k)
    BY <1>2, <1>3 DEF WellFormed
  <2> QED BY <1>2, <1>3, <2>1, KeyValues, ShapeTypes
<1>4. ASSUME k \in Keys, NEW f \in KeyType(k), w[k] \in FieldType[f]
      PROVE  Coercible(k, ToJson(w[k])) /\ Converted(k, ToJson(w[k])) = w[k]
  <2>1. CASE k \in {"value", "originalValue"}
    <3>1. w[k] = "u64"
      BY <1>4, <2>1 DEF KeyType, FieldType
    <3> QED BY <2>1, <3>1 DEF ToJson, Coercible, Converted, BinaryFields,
           ValueFields, Text
  <2>2. CASE k \in {"owner", "secretHash", "inviterId", "voucherId", "targetId", "inviteePublicKey"}
    <3>1. w[k] \in {"bytes0", "bytes32"}
      BY <1>4, <2>2 DEF KeyType, FieldType
    <3> QED BY <2>2, <3>1 DEF ToJson, Coercible, Converted, BinaryFields,
           ValueFields, Text
  <2>3. CASE k \in {"probationStartBlock", "probationEndBlock", "guard", "proofSource",
                    "inviteOutputIndex", "targetPostId", "decayBurn", "lockedUntilBlock"}
    <3>1. w[k] \in Text \cup {"minus1", "zero", "uint", "u53", "boolean", "canonical"}
      BY <1>4, <2>3 DEF KeyType, FieldType
    <3>2. ToJson(w[k]) = w[k]
      BY <3>1 DEF ToJson, Text
    <3> QED BY <2>3, <3>2 DEF Coercible, Converted, BinaryFields, ValueFields
  <2> QED BY <1>4, <2>1, <2>2, <2>3 DEF Keys
<1> QED BY <1>0, <1>1, <1>3, <1>4

(* The client's envelope passes the edge, the funnel and the gate.                 *)
LEMMA PlainPasses ==
  /\ EnvelopeOk(Plain)
  /\ \A k \in EnvKey : Normalised(k, Plain[k]) = Plain[k]
  /\ Plain = [k \in EnvKey |-> Plain[k]]
<1>1. EnvelopeOk(Plain)
  BY EnvelopeKeys DEF EnvelopeOk, NothingUndefined, Plain
<1>2. \A k \in EnvKey : Normalised(k, Plain[k]) = Plain[k]
  BY EnvelopeKeys DEF Normalised, Plain
<1>3. Plain = [k \in EnvKey |-> Plain[k]]
  BY EnvelopeKeys DEF Plain
<1> QED BY <1>1, <1>2, <1>3

(* What is well formed passes the output schema.                                   *)
LEMMA WellFormedFits ==
  ASSUME type \in BoxType, WellFormed(type, output) PROVE OutputShapeOk
<1>0. DOMAIN Shape(type) = DOMAIN Required[type] \cup DOMAIN Optional[type]
  BY DEF Shape
<1>1. \A k \in Key : output[k] # "absent" => k \in DOMAIN Shape(type)
  BY DEF WellFormed
<1>2. ASSUME NEW k \in DOMAIN Shape(type)
      PROVE  output[k] \in FieldType[Shape(type)[k]] \cup {"absent"}
             /\ (k \in DOMAIN Required[type] => output[k] # "absent")
  <2>1. output[k] \in May(type, k)
    BY BoxKeys DEF WellFormed
  <2>2. "absent" \notin FieldType[Shape(type)[k]]
    BY ShapeTypes, KeyTypesKnown, FieldsPresent
  <2>3. ~(k \in DOMAIN Required[type] /\ k \in DOMAIN Optional[type])
    BY ShapeTypes
  <2> QED BY <2>1, <2>2, <2>3 DEF May
<1>3. \A k \in DOMAIN Required[type] : output[k] # "absent"
  BY <1>0, <1>2
<1>4. \A k \in DOMAIN Shape(type) : output[k] \in FieldType[Shape(type)[k]] \cup {"absent"}
  BY <1>2
<1> QED BY <1>1, <1>3, <1>4 DEF OutputShapeOk

(* No gate is too strict: a transaction nobody edited is refused at neither door
   and by neither the envelope gate nor the output schema, though the HTTP door
   takes it through JSON (jsonToTx, validateTx).                                   *)
THEOREM ClientsPass == TxSpec => []ClientsGetThrough
<1>1. ASSUME TxInit PROVE ClientInv /\ ClientsGetThrough
  BY <1>1, CandidatesWellFormed DEF TxInit, ClientInv, ClientsGetThrough
<1>2. ASSUME GateInv, ClientInv, ClientsGetThrough, OnlyNullOutputsThrow', [TxNext]_txVars
      PROVE  ClientInv' /\ ClientsGetThrough'
  <2>1. CASE Send
    <3>1. stage = "client" /\ stage' = "wire" /\ UNCHANGED <<door, edits, env, type>>
          /\ output' = IF door = "http" THEN Wire(output) ELSE output
      BY <2>1 DEF Send, Wire
    <3>2. edits = 0 => env = Plain /\ WellFormed(type, output)
      BY <1>2, <3>1 DEF ClientInv
    <3>3. edits \in Nat
      BY <1>2 DEF ClientInv
    <3>4. WellFormed(type', output)  <=> WellFormed(type, output)
      BY <3>1
    <3> QED BY <3>1, <3>2, <3>3, <3>4 DEF ClientInv, ClientsGetThrough
  <2>2. CASE JsonToTx
    <3>1. stage = "wire" /\ door = "http" /\ UNCHANGED <<door, edits, type>>
      BY <2>2 DEF JsonToTx
    <3>2. edits \in Nat
      BY <1>2 DEF ClientInv
    <3>3. CASE edits # 0
      BY <3>1, <3>2, <3>3 DEF ClientInv, ClientsGetThrough
    <3>4. CASE edits = 0
      <4>1. PICK w : WellFormed(type, w) /\ output = Wire(w)
        BY <1>2, <3>1, <3>4 DEF ClientInv
      <4>2. env = Plain
        BY <1>2, <3>4 DEF ClientInv
      <4>3. \A k \in Key : Coercible(k, output[k]) /\ Converted(k, output[k]) = w[k]
        BY <1>2, <4>1, ThereAndBack DEF GateInv
      <4>4. ~EdgeRefuses
        BY <4>2, <4>3 DEF EdgeRefuses, Plain
      <4>5. stage' = "decoded" /\ env' = [k \in EnvKey |-> Normalised(k, env[k])]
            /\ output' = [k \in Key |-> Converted(k, output[k])]
        BY <2>2, <4>4 DEF JsonToTx
      <4>6. env' = Plain
        BY <4>2, <4>5, PlainPasses
      <4>7. output' = [k \in Key |-> w[k]]
        BY <4>3, <4>5
      <4>8. output' = w
        BY <4>1, <4>7 DEF WellFormed
      <4> QED BY <3>1, <3>2, <4>1, <4>5, <4>6, <4>8 DEF ClientInv, ClientsGetThrough
    <3> QED BY <3>3, <3>4
  <2>3. CASE Funnel
    <3>1. stage = "wire" /\ door = "block" /\ UNCHANGED <<door, edits, env, type, output>>
          /\ stage' \in {"skipped", "threw", "decoded"}
      BY <2>3 DEF Funnel
    <3>2. edits = 0 => stage' = "decoded"
      BY <1>2, <2>3, PlainPasses DEF Funnel, ClientInv, Plain
    <3> QED BY <1>2, <3>1, <3>2 DEF ClientInv, ClientsGetThrough, WellFormed
  <2>4. ASSUME NEW k \in EnvKey, NEW h \in HeldBy[k], EditEnvelope(k, h)
        PROVE  ClientInv' /\ ClientsGetThrough'
    <3>1. edits \in Nat /\ edits' = edits + 1
      BY <1>2, <2>4 DEF EditEnvelope, ClientInv
    <3> QED BY <3>1 DEF ClientInv, ClientsGetThrough
  <2>5. ASSUME NEW k \in Key, NEW v \in Value, EditOutput(k, v)
        PROVE  ClientInv' /\ ClientsGetThrough'
    <3>1. edits \in Nat /\ edits' = edits + 1
      BY <1>2, <2>5 DEF EditOutput, ClientInv
    <3> QED BY <3>1 DEF ClientInv, ClientsGetThrough
  <2>6. CASE /\ UNCHANGED <<door, edits, env, type, output>>
             /\ ~(stage = "wire" /\ door = "http") /\ stage' # "wire"
             /\ edits = 0 => stage' \notin {"malformed", "skipped", "threw"}
    <3>1. WellFormed(type, output)' <=> WellFormed(type, output)
      BY <2>6 DEF WellFormed
    <3> QED BY <1>2, <2>6, <3>1 DEF ClientInv, ClientsGetThrough
  <2>7. CASE CheckTxEnvelope
    <3>1. edits = 0 => stage' = "gated"
      BY <1>2, <2>7, PlainPasses DEF CheckTxEnvelope, ClientInv
    <3> QED BY <2>6, <2>7, <3>1 DEF CheckTxEnvelope
  <2>8. CASE CheckOutputShape
    <3>1. ASSUME edits = 0 PROVE stage' = "shaped"
      <4>1. env["outputs"] = "boxes"
        BY <1>2, <3>1 DEF ClientInv, Plain
      <4>2. WellFormed(type, output)
        BY <1>2, <2>8, <3>1 DEF ClientInv, CheckOutputShape
      <4>3. OutputShapeOk
        BY <1>2, <4>2, WellFormedFits DEF GateInv
      <4> QED BY <2>8, <4>1, <4>3 DEF CheckOutputShape
    <3> QED BY <2>6, <2>8, <3>1 DEF CheckOutputShape
  <2>9. CASE ReadInputs \/ CheckRules \/ InsertBox
    <3>1. /\ UNCHANGED <<door, edits, env, type, output>>
          /\ ~(stage = "wire" /\ door = "http") /\ stage' \notin {"wire", "malformed", "skipped"}
      BY <2>9 DEF ReadInputs, CheckRules, InsertBox
    <3>2. edits = 0 => stage' # "threw"
      BY <1>2, <3>1 DEF ClientInv, OnlyNullOutputsThrow, Plain
    <3> QED BY <2>6, <3>1, <3>2
  <2>10. CASE UNCHANGED txVars
    BY <1>2, <2>10 DEF txVars, ClientInv, ClientsGetThrough, WellFormed
  <2> QED
    BY <1>2, <2>1, <2>2, <2>3, <2>4, <2>5, <2>7, <2>8, <2>9, <2>10 DEF TxNext
<1> QED BY <1>1, <1>2, GatesHold, ValidationTotal, PTL DEF TxSpec
=============================================================================
