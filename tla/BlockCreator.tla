---------------------------- MODULE BlockCreator ----------------------------
(***************************************************************************)
(* One node's mempool and the block creator that lives on it: posts,          *)
(* transactions and prune entries wait in rowid order, a body is assembled at *)
(* every interval, tried out, and mined at once (internal mode) or offered to *)
(* external miners as a template.                                            *)
(*                                                                         *)
(* Nothing but its cap guards the pool: an entry may be there twice, or be one  *)
(* a block would reject.  Which bodies those are is left open, since it is a    *)
(* matter of chain state: refused holds the bodies the mutation phase rejects   *)
(* on top of the tip, and any member of Verdicts may be next after a block.     *)
(* Reorgs and their re-insertions are PostLifecycle's.                        *)
(***************************************************************************)
EXTENDS Integers, Sequences, FiniteSets

CONSTANTS
  Posts, Txs, Prunes,  \* entries of the three kinds
  Target,              \* Target[e]: the post a prune entry removes
  Verdicts,            \* what the mutation phase may refuse: sets of bodies
  Cap,                 \* config.maxMempoolEntries
  Limit,               \* config.maxSubBlocksPerBlock
  PruneLimit,          \* MAX_PRUNES_PER_BLOCK
  ScanLimit,           \* the rows applyMutationPhase looks for its transactions in
  Expiry,              \* MEMPOOL_EXPIRY_BLOCKS
  MaxHeight,           \* bound on the chain
  None

Entries == Posts \cup Txs \cup Prunes

(* An empty body is never refused: a block of its coinbase alone applies.       *)
ASSUME CreatorAssumption ==
  /\ Target \in [Prunes -> Posts] /\ None \notin Entries
  /\ {Cap, Limit, PruneLimit, ScanLimit, Expiry, MaxHeight} \subseteq Nat \ {0}
  /\ Verdicts # {} /\ \A v \in Verdicts : v \subseteq (SUBSET Entries) \ {{}}

VARIABLES
  external,   \* config.miningMode
  height,     \* getCurrentHeight()
  pool,       \* the mempool table, in rowid order
  template,   \* currentTemplate
  mining,     \* an external miner searches a nonce for this very template
  refused,    \* bodies the mutation phase rejects on top of the tip
  tip,        \* posts and transactions the last block listed
  pruned      \* posts getPost has only a stump for

vars  == <<external, height, pool, template, mining, refused, tip, pruned>>
chain == <<height, refused, tip, pruned>>

(* A row is taken while its rowid is in confirmedRowids.                       *)
Row      == [entry : Entries, expires : Nat, taken : BOOLEAN]
Template == [height : 1 .. MaxHeight, body : SUBSET Entries]

Rows(p)   == {p[i] : i \in DOMAIN p}
Pooled(p) == {p[i].entry : i \in DOMAIN p}

(* The table without the rows at the positions in I: DELETE by rowid            *)
Without[p \in Seq(Row)] == [I \in SUBSET Nat |->
  LET left[i \in 0 .. Len(p)] ==
        IF i = 0 THEN << >> ELSE IF i \in I THEN left[i - 1] ELSE Append(left[i - 1], p[i])
  IN  left[Len(p)]]

(* confirmedRowids becomes the rowids at the positions in I                     *)
Taking(p, I) == [i \in DOMAIN p |-> [p[i] EXCEPT !.taken = i \in I]]

-----------------------------------------------------------------------------
(* The mempool *)

(* assertCapacity *)
Room == Len(pool) < Cap

(* insertSubBlock, insertUtxoTx and insertMempoolPrune, reached from HTTP or    *)
(* gossip: a full pool refuses, and that is all that is asked here.           *)
Insert(e) ==
  /\ Room
  /\ pool' = Append(pool, [entry |-> e, expires |-> height + Expiry, taken |-> FALSE])
  /\ UNCHANGED <<external, chain, template, mining>>

(* Mutant: one block too early. *)
PurgedEarly(p) == Without[p][{i \in DOMAIN p : p[i].expires <= height}]

(* purgeExpired *)
Purged(p) == Without[p][{i \in DOMAIN p : p[i].expires < height}]

-----------------------------------------------------------------------------
(* Applying a block *)

(* Mutant: the template survives. *)
ClearedNever == template

(* clearTemplate, called for every block that reaches its mutation phase *)
Cleared == None

Applied(body) ==
  /\ height' = height + 1
  /\ tip' = body \ Prunes
  /\ pruned' = pruned \cup {Target[e] : e \in body \cap Prunes}
  /\ refused' \in Verdicts

(* computePostBlockStateRoot and applyOrderingBlock: the mutation phase         *)
(* rejects the body.                                                          *)
Rejected(body) == body \in refused

(* removeSubBlockEntries deletes every row of a listed post; a transaction       *)
(* deletes the first of its rows, if it is among those fetched before; the      *)
(* rows of prune entries stay.                                                *)
PostRows(p, body) == {i \in DOMAIN p : p[i].entry \in body \cap Posts}
TxRows(p, body)   == {i \in DOMAIN p : /\ i <= ScanLimit /\ p[i].entry \in body \cap Txs
                                      /\ \A j \in 1 .. i - 1 : p[j].entry # p[i].entry}
Unlisted(p, body) ==
  LET q == Without[p][PostRows(p, body)] IN Without[q][TxRows(q, body)]

(* A block of another node.  One rejected in the mutation phase has cleared the  *)
(* template; a transaction whose inputs are not there is skipped, and not in     *)
(* the body meant here.                                                       *)
ForeignBlock(body) ==
  /\ height < MaxHeight
  /\ IF Rejected(body) THEN UNCHANGED <<chain, pool>>
     ELSE Applied(body) /\ pool' = Unlisted(pool, body)
  /\ template' = Cleared /\ mining' = (mining /\ template' = template)
  /\ UNCHANGED external

-----------------------------------------------------------------------------
(* The creator *)

(* getPendingEntries(Limit), of which confirmedRowids takes all but the prune    *)
(* rows, and drainMempoolPrunes(PruneLimit)                                   *)
Fetch(p) == {i \in DOMAIN p : i <= Limit /\ p[i].entry \notin Prunes}
Drain(p) == {i \in DOMAIN p : /\ p[i].entry \in Prunes
                             /\ Cardinality({j \in 1 .. i : p[j].entry \in Prunes}) <= PruneLimit}

(* The body: the posts that still have content, transactions, prune entries.     *)
(* What is listed twice counts once: the inputs of the second copy are gone, so  *)
(* it is skipped, and confirming a post twice confirms it.                    *)
EntriesAt(p, I) == {p[i].entry : i \in I}
Body(p) == (EntriesAt(p, Fetch(p)) \ pruned) \cup EntriesAt(p, Drain(p))

(* Mutant: only the posts of a rejected body are removed. *)
EvictedPosts(p) == Without[p][{i \in Fetch(p) : p[i].entry \in Posts} \cup Drain(p)]

(* A rejected body goes as a whole. *)
Evicted(p) == Without[p][Fetch(p) \cup Drain(p)]

(* The table after the purge, with confirmedRowids empty again                  *)
Ready == Taking(Purged(pool), {})

(* createOrderingBlock: purge, fetch, drain and the speculative run.  The       *)
(* drained prune entries are gone from the table whatever comes of the body.  *)
Interval ==
  \E p \in {Ready} : \E b \in {Body(p)} :
      /\ height < MaxHeight
      /\ mining' = FALSE
      /\ UNCHANGED external
      /\ \/ /\ template' = None
            /\ UNCHANGED chain
            /\ Rejected(b)
            /\ pool' = Evicted(p)
         \/ /\ external
            /\ UNCHANGED chain
            /\ ~Rejected(b)
            /\ template' = [height |-> height + 1, body |-> b]
            /\ pool' = Without[Taking(p, Fetch(p))][Drain(p)]
         \/ /\ ~external
            /\ template' = None
            /\ ~Rejected(b)
            /\ Applied(b)
            /\ pool' = Unlisted(Without[p][Fetch(p) \cup Drain(p)], b)

(* GET /mining/template *)
FetchTemplate ==
  /\ template # None
  /\ mining' = TRUE
  /\ UNCHANGED <<external, chain, pool, template>>

(* POST /mining/submit: the nonce is checked against the present template, so   *)
(* one found for an earlier template does nothing.  finalizeBlock removes the  *)
(* rows the template took even when the block is rejected.                    *)
SubmitMinedBlock ==
  LET b == template.body
      p == IF Rejected(b) THEN pool ELSE Unlisted(pool, b)
  IN  /\ mining /\ template.height > height
      /\ IF Rejected(b) THEN UNCHANGED chain ELSE Applied(b)
      /\ pool' = Without[p][{i \in DOMAIN p : p[i].taken}]
      /\ template' = None /\ mining' = FALSE
      /\ UNCHANGED external

(* The process restarts: the table survives, the template does not. *)
Restart ==
  /\ template # None
  /\ pool' = Taking(pool, {})
  /\ template' = None /\ mining' = FALSE
  /\ UNCHANGED <<external, chain>>

-----------------------------------------------------------------------------
(* The specification *)

Init ==
  /\ external \in BOOLEAN
  /\ height = 0 /\ pool = << >> /\ template = None /\ mining = FALSE
  /\ refused \in Verdicts /\ tip = {} /\ pruned = {}

Next ==
  \/ \E e \in Entries : Insert(e)
  \/ \E body \in SUBSET Entries : ForeignBlock(body)
  \/ Interval \/ FetchTemplate \/ SubmitMinedBlock \/ Restart

(* setInterval fires; nothing obliges a miner to submit. *)
Spec == Init /\ [][Next]_vars /\ WF_vars(Interval)

-----------------------------------------------------------------------------
(* Properties *)

(* Types and the cap.                                                         *)
TypeOK ==
  /\ external \in BOOLEAN /\ height \in 0 .. MaxHeight
  /\ pool \in Seq(Row) /\ Len(pool) <= Cap
  /\ template \in Template \cup {None} /\ mining \in BOOLEAN
  /\ refused \in Verdicts /\ tip \subseteq Posts \cup Txs /\ pruned \subseteq Posts

(* A template on offer is for the next height and its body is one this node     *)
(* will apply: no miner works on a block its own node rejects                 *)
(* (computePostBlockStateRoot, clearTemplate).                                *)
TemplateSound ==
  template # None => template.height = height + 1 /\ ~Rejected(template.body)

(* A post or transaction whose last row goes is listed by the very block this    *)
(* step applies, or every row of it has expired, or it is a post that lost its   *)
(* content, or it was in a body the mutation phase rejected.                  *)
BadBody == Rejected(Body(Ready))

EntriesKept ==
  [][\A e \in Pooled(pool) \ (Pooled(pool') \cup Prunes) :
       \/ height' = height + 1 /\ e \in tip'
       \/ \A r \in Rows(pool) : r.entry = e => r.expires < height
       \/ e \in pruned
       \/ height' = height /\ e \in EntriesAt(Ready, Fetch(Ready)) /\ BadBody]_vars

(* A body that is rejected is never rebuilt from the same rows: the interval     *)
(* leaves fewer rows than it found, so between two insertions at most Cap        *)
(* bodies are rejected, however many of the entries are bad and whether alone   *)
(* or together (the eviction in createOrderingBlock).                         *)
RejectionsEnd == [][Interval /\ BadBody => Len(pool') < Len(pool)]_vars

(* However bad the entries in the pool are, once no more come in a body this     *)
(* node accepts is offered or mined again: the chain does not stop.           *)
NothingComesIn == [][Len(pool') <= Len(pool)]_vars

TemplateComes == <>NothingComesIn => []<>(template # None \/ height = MaxHeight)

=============================================================================
