--------------------------- MODULE PostLifecycle ---------------------------
(***************************************************************************)
(* Posts on their way through several nodes: created over HTTP, gossiped as *)
(* sub-blocks, listed by an ordering block, fetched by the content sweep    *)
(* where only the block arrived, pruned, and thrown back by a reorg.        *)
(*                                                                         *)
(* A node's tables are one record, db[n]: every handler runs to its end      *)
(* without an await between two writes, and a block or a reorg is one        *)
(* SQLite transaction.  Blocks reach a node from a peer's present chain.     *)
(* Karma, likes and the state root are the business of other modules: of a   *)
(* transaction only its row in the mempool and whether the chain has it matter *)
(* here.  A mempool entry does not expire (720 blocks is past every bound).    *)
(***************************************************************************)
EXTENDS Integers, Sequences, FiniteSets

CONSTANTS
  Node,        \* the nodes
  Post,        \* posts a client may sign; a post's id is its content's hash
  Tx,          \* transactions; what spends the same boxes is one of them
  User,        \* authors
  Author,      \* Author[p]: who signed p
  Parent,      \* Parent[p]: the first parent ref of p, None for a thread
  Zero,        \* the author column of a placeholder row
  Misnaming,   \* nodes whose producer may fill subBlockRefs with any post ids
  PoolCap,     \* config.maxMempoolEntries
  MaxHeight,   \* bound on the chain
  None

ASSUME PostAssumption ==
  /\ Author \in [Post -> User] /\ Zero \notin User
  /\ Parent \in [Post -> Post \cup {None}] /\ None \notin Post
  /\ None \notin [author : User \cup {Zero}, height : Nat] /\ IsFiniteSet(Post)
  /\ Misnaming \subseteq Node /\ PoolCap \in Nat /\ MaxHeight \in Nat \ {0}

VARIABLES
  signed,   \* posts that exist: signed by their author and given to a node
  relayed,  \* posts whose sub-block was published on the gossip topic
  db,       \* db[n]: the tables of node n
  misnamed  \* history: posts that a block lists in its refs or its entries only

vars == <<signed, relayed, db, misnamed>>

-----------------------------------------------------------------------------
(* Data *)

(* dag_posts: is the content there, and the status column ("absent": no row) *)
Row    == [content : BOOLEAN, status : {"absent", "pending", "confirmed", "pruned"}]
(* block_topology *)
Topo   == [author : User \cup {Zero}, height : 1 .. MaxHeight]
(* A PruneEntry: its root and the subtree its author signed *)
Prune  == [root : Post, ids : SUBSET Post]
(* An ordering block: subBlockRefs, the author each of its subBlockEntries      *)
(* claims, the transactions it applies (its journal's appliedUtxoTxs) and its   *)
(* prune entries.  The chain before it is its prevBlockHash; by makes blocks    *)
(* of two nodes different.                                                    *)
Block  == [by : Node \cup {None}, refs : Seq(Post),
           entries : UNION {[S -> User \cup {Zero}] : S \in SUBSET Post},
           txs : Seq(Tx), prunes : Seq(Prune)]
(* A row of the mempool; the table is in rowid order and may hold one twice.   *)
PoolRow == [type : {"subblock"}, of : Post] \cup [type : {"utxo_tx"}, of : Tx]
             \cup [type : {"prune"}, of : Prune]
Tables == [row : [Post -> Row], topo : [Post -> Topo \cup {None}],
           stumps : SUBSET Post, pool : Seq(PoolRow), chain : Seq(Block)]

Genesis == [by |-> None, refs |-> << >>, entries |-> [p \in {} |-> Zero],
            txs |-> << >>, prunes |-> << >>]

Members(s) == {s[i] : i \in DOMAIN s}

Listed(c) == UNION {DOMAIN c[i].entries : i \in DOMAIN c}
Spent(c)  == UNION {Members(c[i].txs) : i \in DOMAIN c}

(* Nothing but an author's software keeps refs and entries in step: the         *)
(* structure check compares their lengths.                                    *)
OneSided(b) == (Members(b.refs) \ DOMAIN b.entries) \cup (DOMAIN b.entries \ Members(b.refs))

(* The rows without those at the positions in I, and the ids of those at I      *)
Without(rows, I) ==
  LET left[i \in 0 .. Len(rows)] ==
        IF i = 0 THEN << >> ELSE IF i \in I THEN left[i - 1] ELSE Append(left[i - 1], rows[i])
  IN  left[Len(rows)]

PoolRows(type, ids) == [i \in DOMAIN ids |-> [type |-> type, of |-> ids[i]]]
Picked(rows, I) ==
  LET kept == Without(rows, DOMAIN rows \ I) IN [i \in DOMAIN kept |-> kept[i].of]
PostsIn(rows) == {rows[i].of : i \in {j \in DOMAIN rows : rows[j].type = "subblock"}}

Path[p \in Post] == IF Parent[p] = None THEN {p} ELSE {p} \cup Path[Parent[p]]

(* The recursive walk down from r through the posts S the table knows *)
Subtree(r, S) == {p \in S : r \in Path[p] /\ {r} \cup (Path[p] \ Path[r]) \subseteq S}

Rows(d)   == {p \in Post : d.row[p].status # "absent"}
Topics(d) == {p \in Post : d.topo[p] # None}

(* getPost: a placeholder row is a Post like any other, with a zero author;   *)
(* a pruned row answers with the stump of its root, if it is one.             *)
GetPost(d, p) ==
  IF d.row[p].status \in {"pending", "confirmed"} THEN "post"
  ELSE IF p \in d.stumps THEN "stump" ELSE "none"

Live(d, p) == GetPost(d, p) = "post" /\ d.row[p].content

(* Mutant: one row too many. *)
FullLate(d) == Len(d.pool) > PoolCap

(* assertCapacity: every row counts *)
Full(d) == Len(d.pool) >= PoolCap

(* A parent ref is checked by existence only: live, placeholder or stump *)
ParentKnown(d, p) == Parent[p] # None => GetPost(d, Parent[p]) # "none"

-----------------------------------------------------------------------------
(* Store primitives *)

(* insertPost: a placeholder row is upgraded, keeping "confirmed" and turning *)
(* any other status into "pending"; a new post is pending.                    *)
Filled(row) == [content |-> TRUE,
                status  |-> IF row.status = "confirmed" THEN "confirmed" ELSE "pending"]

InsertPost(d, p) == [d EXCEPT !.row[p] = Filled(@)]

(* A row with content makes insertPost throw on its primary key *)
Insertable(d, p) == ~d.row[p].content

(* insertSubBlock, insertUtxoTx or insertMempoolPrune, where a full pool drops  *)
(* the entry                                                                  *)
Pooled(d, type, x) ==
  IF Full(d) THEN d ELSE [d EXCEPT !.pool = Append(@, [type |-> type, of |-> x])]

(* Mutant: the placeholder replaces the row that is there. *)
ConfirmedRowReplaced(row) == [content |-> FALSE, status |-> "confirmed"]

(* insertPostPlaceholder, which ignores an existing row, then confirmPost,     *)
(* whatever status the row had                                                *)
ConfirmedRow(row) == [row EXCEPT !.status = "confirmed"]

(* Mutant: INSERT OR REPLACE. *)
RecordedReplaced(old, author, h) == [author |-> author, height |-> h]

(* insertBlockTopology: the first block to confirm a post wins *)
Recorded(old, author, h) == IF old = None THEN [author |-> author, height |-> h] ELSE old

-----------------------------------------------------------------------------
(* Applying and reverting blocks *)

(* Sections 7 and 8b: the posts of the entries get a row and a topology entry;  *)
(* those of the refs leave the mempool.                                       *)
Confirm(d, b, h) ==
  LET ps == DOMAIN b.entries
  IN  [d EXCEPT
        !.row  = [p \in Post |-> IF p \in ps THEN ConfirmedRow(@[p]) ELSE @[p]],
        !.topo = [p \in Post |-> IF p \in ps THEN Recorded(@[p], b.entries[p], h) ELSE @[p]],
        !.pool = Without(@, {i \in DOMAIN @ : @[i].type = "subblock"
                                               /\ @[i].of \in Members(b.refs)})]

(* Section 8c, step 6: the stumps, and every row below a pruned root, whether *)
(* or not a block ever confirmed it                                           *)
Marked(d, es) ==
  LET roots == {e.root : e \in Members(es)}
      gone  == UNION {Subtree(r, Rows(d)) : r \in roots}
  IN  [d EXCEPT
        !.stumps = @ \cup roots,
        !.row = [p \in Post |-> IF p \in gone THEN [@[p] EXCEPT !.status = "pruned"]
                                ELSE @[p]]]

(* Entry-vs-post verification where the content is at hand (H-3), and the    *)
(* checks of a prune entry against block_topology.                           *)
EntriesMatch(d, b) == \A p \in DOMAIN b.entries : Live(d, p) => b.entries[p] = Author[p]

PrunesMatch(d, b) ==
  \A e \in Members(b.prunes) :
                      /\ d.topo[e.root] # None
                      /\ d.topo[e.root].author = Author[e.root]
                      /\ e.ids = Subtree(e.root, Topics(d))

Accepts(d, b) ==
  LET h == Len(d.chain) + 1
  IN  EntriesMatch(d, b) /\ PrunesMatch(Confirm(d, b, h), b)

(* Section 11: each transaction removes the first row that holds it. *)
Settled(rows, txs) ==
  Without(rows, {i \in DOMAIN rows : /\ rows[i].type = "utxo_tx" /\ rows[i].of \in Members(txs)
                                     /\ \A j \in 1 .. i - 1 : rows[j] # rows[i]})

Apply(d, b) ==
  LET h == Len(d.chain) + 1
  IN  [Marked(Confirm(d, b, h), b.prunes)
         EXCEPT !.pool = Settled(@, b.txs), !.chain = Append(@, b)]

(* Mutant: the statuses are left alone. *)
RevertKeepsStatus(d) ==
  LET h == Len(d.chain)
  IN  [d EXCEPT
        !.topo  = [p \in Post |-> IF @[p] # None /\ @[p].height = h THEN None ELSE @[p]],
        !.chain = SubSeq(@, 1, h - 1)]

(* revertBlock: the posts the tip's refs name are pending again, its topology   *)
(* rows go, stumps stay, and prune marks but for those posts.                 *)
Revert(d) ==
  LET h  == Len(d.chain)
      ps == Members(d.chain[h].refs) \cap Rows(d)
  IN  [d EXCEPT
        !.row   = [p \in Post |-> IF p \in ps THEN [@[p] EXCEPT !.status = "pending"] ELSE @[p]],
        !.topo  = [p \in Post |-> IF @[p] # None /\ @[p].height = h THEN None ELSE @[p]],
        !.chain = SubSeq(@, 1, h - 1)]

RevertedTo(d, f) ==
  LET at[h \in f .. Len(d.chain)] == IF h = Len(d.chain) THEN d ELSE Revert(at[h + 1])
  IN  at[f]

(* The blocks of c above height f in order; None once one is rejected *)
Applied(d, c, f) ==
  LET at[h \in f .. Len(c)] ==
        IF h = f THEN d
        ELSE IF at[h - 1] = None \/ ~Accepts(at[h - 1], c[h]) THEN None
        ELSE Apply(at[h - 1], c[h])
  IN  at[Len(c)]

Fork(c1, c2) ==
  CHOOSE f \in 0 .. Len(c1) :
    /\ f <= Len(c2) /\ SubSeq(c1, 1, f) = SubSeq(c2, 1, f)
    /\ f < Len(c1) /\ f < Len(c2) => c1[f + 1] # c2[f + 1]

-----------------------------------------------------------------------------
(* Handlers *)

(* createPost.  insertPost runs before the karma-lock transaction is checked, *)
(* so a refused submission leaves its row behind; the mempool insert of the    *)
(* post or that of its transaction may find the pool full, and only a full     *)
(* success is gossiped.                                                       *)
(* A parent that is a placeholder has no raw bytes to decode: no reply.       *)
CreatePost(n, p) ==
  LET d == InsertPost(db[n], p)
  IN  /\ p \notin signed
      /\ ParentKnown(db[n], p) /\ (Parent[p] # None => db[n].row[Parent[p]].content)
      /\ signed' = signed \cup {p}
      /\ UNCHANGED misnamed
      /\ \/ /\ db' = [db EXCEPT ![n] = d]
            /\ UNCHANGED relayed
         \/ \E t \in Tx \ Spent(d.chain) :
              LET e == Pooled(d, "subblock", p)
              IN  /\ db' = [db EXCEPT ![n] = Pooled(e, "utxo_tx", t)]
                  /\ relayed' \in {relayed} \cup (IF Full(e) THEN {} ELSE {relayed \cup {p}})

(* POST /txs and onTx: whatever validateTx passes is pooled, once more if need  *)
(* be, and a block's transactions have spent their boxes.                     *)
RelayTx(n, t) ==
  /\ t \notin Spent(db[n].chain) /\ ~Full(db[n])
  /\ db' = [db EXCEPT ![n] = Pooled(@, "utxo_tx", t)]
  /\ UNCHANGED <<signed, relayed, misnamed>>

(* onSubBlock: stored, then pooled unless the pool is full, even when a block *)
(* has already confirmed the post.                                            *)
RelaySubBlock(n, p) ==
  /\ p \in relayed
  /\ ParentKnown(db[n], p) /\ Insertable(db[n], p)
  /\ db' = [db EXCEPT ![n] = Pooled(InsertPost(@, p), "subblock", p)]
  /\ UNCHANGED <<signed, relayed, misnamed>>

(* sweepPlaceholders for one id: every empty row, whatever its status, is     *)
(* asked of peers, which serve live posts only.                               *)
SweepPost(n, p) ==
  /\ p \in Rows(db[n]) /\ ~db[n].row[p].content
  /\ \E m \in Node \ {n} : Live(db[m], p)
  /\ ParentKnown(db[n], p)
  /\ db' = [db EXCEPT ![n] = InsertPost(@, p)]
  /\ UNCHANGED <<signed, relayed, misnamed>>

(* executePrune: the author's signed intent over the reply tree this node     *)
(* sees.  A placeholder in it has no recomputable id, so the sets differ.     *)
RequestPrune(n, r) ==
  LET ids == Subtree(r, Rows(db[n]))
  IN  /\ Live(db[n], r)
      /\ \A p \in ids : db[n].row[p].content
      /\ ~Full(db[n])
      /\ db' = [db EXCEPT ![n] = Pooled(@, "prune", [root |-> r, ids |-> ids])]
      /\ UNCHANGED <<signed, relayed, misnamed>>

(* createOrderingBlock's body: every pooled sub-block getPost answers with a   *)
(* Post, its author read off that row, the transactions that apply and all     *)
(* queued prunes.                                                             *)
Template(n) ==
  LET d    == db[n]
      At(type) == {i \in DOMAIN d.pool : d.pool[i].type = type}
      subs == {i \in At("subblock") : GetPost(d, d.pool[i].of) = "post"}
      txs  == {i \in At("utxo_tx") : /\ d.pool[i].of \notin Spent(d.chain)
                                     /\ \A j \in 1 .. i - 1 : d.pool[j] # d.pool[i]}
  IN  [by |-> n, refs |-> Picked(d.pool, subs), txs |-> Picked(d.pool, txs),
       prunes |-> Picked(d.pool, At("prune")),
       entries |-> [p \in {d.pool[i].of : i \in subs} |->
                      IF d.row[p].content THEN Author[p] ELSE Zero]]

(* Other software may name other posts, as many as there are entries.           *)
Bodies(n) ==
  {Template(n)} \cup
  {[Template(n) EXCEPT !.refs = r] :
     r \in IF n \in Misnaming THEN [DOMAIN Template(n).refs -> Post] ELSE {}}

(* A body the node's own speculative run rejects is not mined, and its         *)
(* entries are evicted; otherwise the block is applied.  Either way the pool  *)
(* rows fetched are removed, those skipped for want of content included.       *)
Produce(n) ==
  \E b \in Bodies(n) :
    LET d == [db[n] EXCEPT !.pool = Without(@, {i \in DOMAIN @ : @[i].type = "prune"})]
    IN  /\ Len(d.chain) < MaxHeight
        /\ db' = [db EXCEPT ![n] = [IF Accepts(d, b) THEN Apply(d, b) ELSE d
                                    EXCEPT !.pool = << >>]]
        /\ misnamed' = misnamed \cup (IF Accepts(d, b) THEN OneSided(b) ELSE {})
        /\ UNCHANGED <<signed, relayed>>

(* onOrderingBlock and the pull path, when the block extends the tip *)
ReceiveBlock(n, m) ==
  LET c == db[m].chain
      h == Len(db[n].chain)
  IN  /\ h < Len(c) /\ SubSeq(c, 1, h) = db[n].chain
      /\ Accepts(db[n], c[h + 1])
      /\ db' = [db EXCEPT ![n] = Apply(@, c[h + 1])]
      /\ UNCHANGED <<signed, relayed, misnamed>>

(* Phase 2 of reorg: rows go back to the pool in order until it is full.        *)
Reinserted(pool, rows) ==
  LET room == PoolCap - Len(pool)
  IN  pool \o SubSeq(rows, 1, IF Len(rows) <= room THEN Len(rows) ELSE room)

(* parts[l] \o ... \o parts[f + 1]: the tip's journal is the first one          *)
Downwards(parts, f, l) ==
  LET at[h \in f .. l] == IF h = l THEN << >> ELSE at[h + 1] \o parts[h + 1] IN at[f]

(* Mutant: only the journal of the first reverted block is used. *)
ThrownTop(c, f) ==
  PoolRows("utxo_tx", c[Len(c)].txs) \o PoolRows("subblock", c[Len(c)].refs)

(* Each journal's transactions, then its confirmedSubBlockIds                   *)
Thrown(c, f) ==
  Downwards([h \in DOMAIN c |-> PoolRows("utxo_tx", c[h].txs) \o PoolRows("subblock", c[h].refs)],
            f, Len(c))

ThrownPrunes(c, f) == Downwards([h \in DOMAIN c |-> PoolRows("prune", c[h].prunes)], f, Len(c))

(* The prune entries come last, once their like is removed from the pool.       *)
Refilled(pool, c, f) ==
  LET p  == Reinserted(pool, Thrown(c, f))
      es == ThrownPrunes(c, f)
  IN  Reinserted(Without(p, {i \in DOMAIN p : p[i] \in Members(es)}), es)

(* reorg onto a peer's longer chain; a rejected block rolls all of it back.    *)
Reorg(n, m) ==
  LET d == db[n]
      c == db[m].chain
      f == Fork(d.chain, c)
      e == [RevertedTo(d, f) EXCEPT !.pool = Refilled(@, d.chain, f)]
  IN  /\ Len(c) > Len(d.chain)
      /\ f < Len(d.chain)
      /\ Applied(e, c, f) # None
      /\ db' = [db EXCEPT ![n] = Applied(e, c, f)]
      /\ UNCHANGED <<signed, relayed, misnamed>>

-----------------------------------------------------------------------------
(* The specification *)

(* Every node has the first block, so two chains always share one. *)
Init ==
  /\ signed = {} /\ relayed = {} /\ misnamed = {}
  /\ db = [n \in Node |-> [row |-> [p \in Post |-> [content |-> FALSE, status |-> "absent"]],
                           topo |-> [p \in Post |-> None],
                           stumps |-> {}, pool |-> << >>, chain |-> <<Genesis>>]]

Next ==
  \/ \E n \in Node, p \in Post :
       CreatePost(n, p) \/ RelaySubBlock(n, p) \/ SweepPost(n, p) \/ RequestPrune(n, p)
  \/ \E n \in Node, t \in Tx : RelayTx(n, t)
  \/ \E n \in Node : Produce(n)
  \/ \E n, m \in Node : ReceiveBlock(n, m) \/ Reorg(n, m)

Spec == Init /\ [][Next]_vars

-----------------------------------------------------------------------------
(* Properties *)

(* The tables have their types, the pool keeps its cap, and a node holds        *)
(* content only of posts that were signed.                                    *)
TypeOK ==
  /\ signed \subseteq Post /\ relayed \subseteq signed /\ misnamed \subseteq Post
  /\ \A n \in Node :
       /\ db[n] \in Tables /\ Len(db[n].pool) <= PoolCap
       /\ Len(db[n].chain) \in 1 .. MaxHeight
       /\ {p \in Post : db[n].row[p].content} \subseteq signed \cap Rows(db[n])

(* block_topology is what the node's chain says, entry by entry: the author    *)
(* and height of the first block that lists the post, whichever blocks were   *)
(* applied, listed again and reverted on the way (topology.ts: "the table is   *)
(* identical on every node").                                                 *)
TopologyOfChain ==
  \A n \in Node, p \in Post :
    LET c  == db[n].chain
        hs == {h \in DOMAIN c : p \in DOMAIN c[h].entries}
    IN  IF hs = {} THEN db[n].topo[p] = None
        ELSE LET h == CHOOSE h \in hs : \A g \in hs : h <= g
             IN  db[n].topo[p] = [author |-> c[h].entries[p], height |-> h]

(* A post shown as confirmed is listed by a block of the present chain: no     *)
(* fork leaves a post confirmed that no block confirms (confirmPost,           *)
(* unconfirmPost).  The exceptions are posts some block had in its entries     *)
(* without naming them in its refs: those a revert does not find.             *)
ConfirmedIsListed ==
  \A n \in Node, p \in Post :
    db[n].row[p].status = "confirmed" => p \in Listed(db[n].chain) \cup misnamed

(* A node that has a post's content keeps it, whatever blocks, placeholders    *)
(* and reorgs do to the row (insertPostPlaceholder, insertPost).               *)
ContentKept ==
  [][\A n \in Node, p \in Post :
       db[n].row[p].content => db'[n].row[p].content]_vars

(* A reorg loses a post only for want of room: what the reverted blocks named   *)
(* is listed by the new chain or waits in the mempool again, unless it and the  *)
(* transactions thrown back with it did not fit (reorg, phase 2; "peers still   *)
(* hold the txs").  A misnamed post may be lost: refs take it out of the pool.  *)
ReorgKeepsPosts ==
  [][\A n \in Node :
       LET c    == db[n].chain
           f    == Fork(c, db'[n].chain)
           back == UNION {Members(c[h].refs) : h \in f + 1 .. Len(c)}
       IN  Len(db[n].pool) + Len(Thrown(c, f)) <= PoolCap =>
             back \subseteq Listed(db'[n].chain) \cup PostsIn(db'[n].pool) \cup misnamed]_vars

(* An honest producer's entries match the content other nodes verify them     *)
(* against (createOrderingBlock; every node here is honest).                  *)
ProducerHonest ==
  \A n \in Node : \A h \in DOMAIN db[n].chain :
    \A p \in DOMAIN db[n].chain[h].entries : db[n].chain[h].entries[p] = Author[p]

(* Two nodes on one chain agree whether a block may like a post: it must be    *)
(* confirmed (block_topology) and live (getPost), and content that arrived    *)
(* early, late or never makes no difference.                                  *)
MayLike(d, p) == d.topo[p] # None /\ GetPost(d, p) = "post"

LikeVerdictAgrees ==
  \A n, m \in Node, p \in Post :
    db[n].chain = db[m].chain => (MayLike(db[n], p) <=> MayLike(db[m], p))

=============================================================================
