------------------------- MODULE BlockCreatorProofs -------------------------
(***************************************************************************)
(* What a miner is offered and what becomes of a pooled entry, for every      *)
(* mempool, cap, limit, expiry and whatever the mutation phase may refuse.    *)
(***************************************************************************)
EXTENDS BlockCreator, WellFoundedInduction, TLAPS

-----------------------------------------------------------------------------
(* Deleting rows of the mempool table *)

LEMMA LeastIn ==
  ASSUME NEW T, T \subseteq Nat, T # {}
  PROVE  \E x \in T : \A y \in T : x <= y
<1>1. PICK x \in T : \A y \in T : <<y, x>> \notin OpToRel(<, Nat)
  BY NatLessThanWellFounded, WFMin
<1>2. \A y \in T : ~(y < x)
  BY <1>1, Zenon DEF OpToRel
<1>3. x \in Nat /\ \A y \in T : y \in Nat
  OBVIOUS
<1> QED BY <1>2, <1>3

(* g is the recursive function of Without, up to the l-th row                  *)
Leaving(p, I, l, g) ==
  g = [i \in 0 .. l |->
         IF i = 0 THEN << >> ELSE IF i \in I THEN g[i - 1] ELSE Append(g[i - 1], p[i])]

Leaves(p, I) == CHOOSE g : Leaving(p, I, Len(p), g)

LEMMA WithoutChosen ==
  ASSUME NEW p \in Seq(Row), NEW I \in SUBSET Nat
  PROVE  Without[p][I] = Leaves(p, I)[Len(p)]
BY DEF Without, Leaves, Leaving

LEMMA LeavingExists ==
  ASSUME NEW p \in Seq(Row), NEW I PROVE Leaving(p, I, Len(p), Leaves(p, I))
<1> DEFINE Bad == {l \in Nat : l <= Len(p) /\ ~\E g : Leaving(p, I, l, g)}
<1>1. Bad = {}
  <2> SUFFICES ASSUME Bad # {} PROVE FALSE
    OBVIOUS
  <2>1. PICK l \in Bad : \A j \in Bad : l <= j
    <3>1. Bad \subseteq Nat
      OBVIOUS
    <3> HIDE DEF Bad
    <3> QED BY <3>1, LeastIn
  <2>2. l \in Nat /\ l <= Len(p) /\ ~\E g : Leaving(p, I, l, g)
    BY <2>1
  <2>3. CASE l = 0
    <3> DEFINE g == [i \in 0 .. 0 |-> << >>]
    <3>1. g = [i \in 0 .. 0 |-> IF i = 0 THEN << >>
                ELSE IF i \in I THEN g[i - 1] ELSE Append(g[i - 1], p[i])]
      OBVIOUS
    <3> HIDE DEF g
    <3> QED BY <2>2, <2>3, <3>1 DEF Leaving
  <2>4. CASE l # 0
    <3>1. l - 1 \in Nat /\ l - 1 <= Len(p) /\ ~(l <= l - 1) /\ l - 1 \notin Bad
      BY <2>1, <2>2, <2>4
    <3>2. PICK g : Leaving(p, I, l - 1, g)
      BY <3>1
    <3> DEFINE Step(f, i) == IF i = 0 THEN << >>
                             ELSE IF i \in I THEN f[i - 1] ELSE Append(f[i - 1], p[i])
               k == [i \in 0 .. l |-> IF i = l THEN Step(g, i) ELSE g[i]]
    <3>3. ASSUME NEW i \in 0 .. l PROVE k[i] = Step(k, i)
      <4>1. \A j \in 0 .. l - 1 : g[j] = Step(g, j)
        BY <3>2 DEF Leaving
      <4>2. i # l => i \in 0 .. l - 1
        BY <2>2
      <4>3. i # 0 => i - 1 \in 0 .. l /\ i - 1 # l
        BY <2>2
      <4> QED BY <4>1, <4>2, <4>3
    <3>4. k = [i \in 0 .. l |-> Step(k, i)]
      <4>1. k = [i \in 0 .. l |-> k[i]]
        OBVIOUS
      <4> HIDE DEF k, Step
      <4> QED BY <3>3, <4>1
    <3> HIDE DEF k
    <3> QED BY <2>2, <3>4 DEF Leaving
  <2> QED BY <2>3, <2>4
<1>2. Len(p) \in Nat /\ Len(p) <= Len(p)
  OBVIOUS
<1>3. \E g : Leaving(p, I, Len(p), g)
  BY <1>1, <1>2
<1> QED BY <1>3 DEF Leaves

(* q are the rows of p at positions outside I, up to the l-th                   *)
Remains(p, I, l, q) ==
  /\ q \in Seq(Row) /\ Len(q) <= l
  /\ \A r : (\E i \in DOMAIN q : q[i] = r) <=> \E i \in 1 .. l : i \notin I /\ p[i] = r
  /\ (\E i \in 1 .. l : i \in I) => Len(q) < l

LEMMA RemainsNext ==
  ASSUME NEW p \in Seq(Row), NEW I, NEW l \in Nat, l < Len(p), NEW q, Remains(p, I, l, q)
  PROVE  Remains(p, I, l + 1, IF l + 1 \in I THEN q ELSE Append(q, p[l + 1]))
<1> DEFINE r == p[l + 1]
           n == Len(q)
           k == Append(q, r)
<1>1. /\ r \in Row /\ q \in Seq(Row) /\ n \in Nat /\ n <= l /\ DOMAIN q = 1 .. n
      /\ l + 1 \notin 1 .. l /\ 1 .. l + 1 = (1 .. l) \cup {l + 1}
  BY DEF Remains
<1>2. CASE l + 1 \in I
  <2>1. q \in Seq(Row) /\ Len(q) <= l + 1 /\ Len(q) < l + 1
    BY <1>1
  <2>2. \A s : (\E i \in 1 .. l + 1 : i \notin I /\ p[i] = s)
                <=> \E i \in 1 .. l : i \notin I /\ p[i] = s
    BY <1>1, <1>2
  <2>3. Remains(p, I, l + 1, q)
    BY <2>1, <2>2 DEF Remains
  <2> QED BY <1>2, <2>3
<1>3. CASE l + 1 \notin I
  <2>1. /\ k \in Seq(Row) /\ Len(k) = n + 1 /\ DOMAIN k = (1 .. n) \cup {n + 1} /\ k[n + 1] = r
        /\ \A i \in 1 .. n : k[i] = q[i]
    BY <1>1
  <2> HIDE DEF k, n, r
  <2>2. ASSUME NEW s
        PROVE  (\E i \in DOMAIN k : k[i] = s) <=> \E i \in 1 .. l + 1 : i \notin I /\ p[i] = s
    BY <1>1, <1>3, <2>1 DEF Remains, r
  <2>3. (\E i \in 1 .. l + 1 : i \in I) => n < l
    BY <1>1, <1>3 DEF Remains, n
  <2>4. Len(k) <= l + 1 /\ (n < l => Len(k) < l + 1)
    BY <1>1, <2>1
  <2> QED BY <1>3, <2>1, <2>2, <2>3, <2>4 DEF Remains, k, r
<1> QED BY <1>2, <1>3

LEMMA WithoutRemains ==
  ASSUME NEW p \in Seq(Row), NEW I \in SUBSET Nat PROVE Remains(p, I, Len(p), Without[p][I])
<1> DEFINE at == Leaves(p, I)
           L == Len(p)
           Bad == {l \in Nat : l <= L /\ ~Remains(p, I, l, at[l])}
<1>1. /\ L \in Nat
      /\ \A i \in 0 .. L : at[i] = IF i = 0 THEN << >>
             ELSE IF i \in I THEN at[i - 1] ELSE Append(at[i - 1], p[i])
  <2>1. Leaving(p, I, L, at)
    BY LeavingExists
  <2>2. L \in Nat
    OBVIOUS
  <2> HIDE DEF at, L
  <2>3. \A i \in 0 .. L : at[i] = IF i = 0 THEN << >>
             ELSE IF i \in I THEN at[i - 1] ELSE Append(at[i - 1], p[i])
    BY <2>1 DEF Leaving
  <2> QED BY <2>2, <2>3
<1>2. Bad = {}
  <2> SUFFICES ASSUME Bad # {} PROVE FALSE
    OBVIOUS
  <2>1. PICK l \in Bad : \A j \in Bad : l <= j
    <3>1. Bad \subseteq Nat
      OBVIOUS
    <3> HIDE DEF Bad
    <3> QED BY <3>1, LeastIn
  <2>2. l \in Nat /\ l <= L /\ ~Remains(p, I, l, at[l])
    BY <2>1
  <2> HIDE DEF at, L
  <2>3. CASE l = 0
    <3>1. at[l] = << >>
      BY <1>1, <2>3
    <3>2. Remains(p, I, 0, << >>)
      BY DEF Remains
    <3> QED BY <2>2, <2>3, <3>1, <3>2
  <2>4. CASE l # 0
    <3>1. /\ l - 1 \in Nat /\ l - 1 <= L /\ ~(l <= l - 1) /\ l - 1 < L /\ l - 1 + 1 = l
          /\ l \in 0 .. L
      BY <1>1, <2>2, <2>4
    <3>2. Remains(p, I, l - 1, at[l - 1])
      BY <2>1, <3>1
    <3>3. at[l] = IF l \in I THEN at[l - 1] ELSE Append(at[l - 1], p[l])
      BY <1>1, <2>4, <3>1
    <3> HIDE DEF Bad
    <3>4. Remains(p, I, l - 1 + 1,
            IF l - 1 + 1 \in I THEN at[l - 1] ELSE Append(at[l - 1], p[l - 1 + 1]))
      BY <3>1, <3>2, RemainsNext DEF L
    <3> QED BY <2>2, <3>1, <3>3, <3>4
  <2> QED BY <2>3, <2>4
<1>3. Remains(p, I, L, at[L])
  BY <1>1, <1>2
<1> QED BY <1>3, WithoutChosen

-----------------------------------------------------------------------------
(* Tables within the cap *)

TableOK(p) == p \in Seq(Row) /\ Len(p) <= Cap

LEMMA TableTyped ==
  ASSUME NEW p, TableOK(p)
  PROVE  /\ p \in Seq(Row) /\ Len(p) \in Nat /\ DOMAIN p = 1 .. Len(p) /\ DOMAIN p \subseteq Nat
         /\ \A i \in DOMAIN p : p[i] \in Row /\ p[i].entry \in Entries
<1>1. p \in Seq(Row) /\ Len(p) \in Nat /\ DOMAIN p = 1 .. Len(p)
  BY DEF TableOK
<1>2. \A i \in DOMAIN p : p[i] \in Row
  BY <1>1
<1>3. \A r \in Row : r.entry \in Entries
  BY DEF Row
<1> QED BY <1>1, <1>2, <1>3

(* A table without the rows at the positions in I                               *)
LEMMA WithoutGood ==
  ASSUME NEW p, TableOK(p), NEW I, I \subseteq DOMAIN p
  PROVE  /\ TableOK(Without[p][I]) /\ Len(Without[p][I]) <= Len(p)
         /\ Rows(Without[p][I]) = {p[i] : i \in DOMAIN p \ I}
         /\ Pooled(Without[p][I]) = {p[i].entry : i \in DOMAIN p \ I}
         /\ I # {} => Len(Without[p][I]) < Len(p)
<1> DEFINE q == Without[p][I]
<1>1. /\ p \in Seq(Row) /\ Len(p) \in Nat /\ DOMAIN p = 1 .. Len(p) /\ I \in SUBSET Nat
  BY TableTyped
<1>2. Remains(p, I, Len(p), q)
  BY <1>1, WithoutRemains
<1> HIDE DEF q
<1>3. /\ q \in Seq(Row) /\ Len(q) <= Len(p) /\ Len(q) \in Nat
      /\ \A r : (\E i \in DOMAIN q : q[i] = r) <=> \E i \in DOMAIN p : i \notin I /\ p[i] = r
      /\ I # {} => Len(q) < Len(p)
  <2>1. /\ q \in Seq(Row) /\ Len(q) <= Len(p)
        /\ \A r : (\E i \in DOMAIN q : q[i] = r) <=> \E i \in 1 .. Len(p) : i \notin I /\ p[i] = r
        /\ (\E i \in 1 .. Len(p) : i \in I) => Len(q) < Len(p)
    BY <1>2 DEF Remains
  <2>2. Len(q) \in Nat
    BY <2>1
  <2>3. I # {} => \E i \in 1 .. Len(p) : i \in I
    BY <1>1
  <2> QED BY <1>1, <2>1, <2>2, <2>3, Zenon
<1>4. TableOK(q)
  <2>1. Len(p) <= Cap /\ Cap \in Nat
    BY CreatorAssumption DEF TableOK
  <2> QED BY <1>1, <1>3, <2>1 DEF TableOK
<1>5. Rows(q) = {p[i] : i \in DOMAIN p \ I}
  BY <1>3, Zenon DEF Rows
<1>6. Pooled(q) = {r.entry : r \in Rows(q)}
  BY DEF Pooled, Rows
<1>7. {r.entry : r \in {p[i] : i \in DOMAIN p \ I}} = {p[i].entry : i \in DOMAIN p \ I}
  OBVIOUS
<1> QED BY <1>3, <1>4, <1>5, <1>6, <1>7 DEF q

LEMMA WithoutKeeps ==
  ASSUME NEW p, TableOK(p), NEW I, I \subseteq DOMAIN p
  PROVE  /\ \A e \in Pooled(p) \ Pooled(Without[p][I]) : e \in EntriesAt(p, I)
         /\ Rows(Without[p][I]) \subseteq Rows(p) /\ Pooled(Without[p][I]) \subseteq Pooled(p)
<1> DEFINE q == Without[p][I]
<1>1. /\ Rows(q) = {p[i] : i \in DOMAIN p \ I}
      /\ Pooled(q) = {p[i].entry : i \in DOMAIN p \ I}
  BY WithoutGood
<1> HIDE DEF q
<1>2. Rows(q) \subseteq Rows(p) /\ Pooled(q) \subseteq Pooled(p)
  BY <1>1 DEF Rows, Pooled
<1>3. ASSUME NEW e \in Pooled(p) \ Pooled(q)
      PROVE  e \in EntriesAt(p, I)
  BY <1>1, <1>3 DEF Pooled, EntriesAt
<1> QED BY <1>2, <1>3 DEF q

(* A table with other rowids in confirmedRowids                                 *)
LEMMA TakingGood ==
  ASSUME NEW p, TableOK(p), NEW I
  PROVE  /\ TableOK(Taking(p, I)) /\ DOMAIN Taking(p, I) = DOMAIN p /\ Len(Taking(p, I)) = Len(p)
         /\ \A i \in DOMAIN p : /\ Taking(p, I)[i].entry = p[i].entry
                                /\ Taking(p, I)[i].taken = (i \in I)
         /\ Pooled(Taking(p, I)) = Pooled(p)
<1> DEFINE q == Taking(p, I)
<1>1. /\ p \in Seq(Row) /\ Len(p) \in Nat /\ DOMAIN p = 1 .. Len(p) /\ Len(p) <= Cap
  BY TableTyped DEF TableOK
<1>2. DOMAIN q = DOMAIN p
  BY DEF Taking
<1>3. ASSUME NEW i \in DOMAIN p
      PROVE  q[i] \in Row /\ q[i].entry = p[i].entry /\ q[i].taken = (i \in I)
  <2>1. p[i] \in Row /\ q[i] = [p[i] EXCEPT !.taken = i \in I] /\ (i \in I) \in BOOLEAN
    BY <1>1, TableTyped DEF Taking
  <2> QED BY <2>1 DEF Row
<1>4. q = [i \in 1 .. Len(p) |-> q[i]]
  BY <1>1 DEF Taking
<1> HIDE DEF q
<1>5. q \in Seq(Row) /\ Len(q) = Len(p)
  BY <1>1, <1>2, <1>3, <1>4
<1>6. Pooled(q) = Pooled(p)
  BY <1>2, <1>3 DEF Pooled
<1> QED BY <1>1, <1>2, <1>3, <1>5, <1>6 DEF TableOK, q

(* What a block does not list keeps its rows.                                  *)
LEMMA UnlistedGood ==
  ASSUME NEW p, TableOK(p), NEW body
  PROVE  /\ TableOK(Unlisted(p, body)) /\ Rows(Unlisted(p, body)) \subseteq Rows(p)
         /\ \A e \in Pooled(p) \ Pooled(Unlisted(p, body)) : e \in body
<1> DEFINE q == Without[p][PostRows(p, body)]
<1>1. PostRows(p, body) \subseteq DOMAIN p
  BY DEF PostRows
<1>2. /\ TableOK(q) /\ Rows(q) \subseteq Rows(p)
      /\ \A e \in Pooled(p) \ Pooled(q) : e \in EntriesAt(p, PostRows(p, body))
  BY <1>1, WithoutGood, WithoutKeeps
<1>3. \A e \in EntriesAt(p, PostRows(p, body)) : e \in body
  BY DEF EntriesAt, PostRows
<1> HIDE DEF q
<1>4. TxRows(q, body) \subseteq DOMAIN q
  BY DEF TxRows
<1>5. /\ TableOK(Without[q][TxRows(q, body)]) /\ Rows(Without[q][TxRows(q, body)]) \subseteq Rows(q)
      /\ \A e \in Pooled(q) \ Pooled(Without[q][TxRows(q, body)]) :
            e \in EntriesAt(q, TxRows(q, body))
  BY <1>2, <1>4, WithoutGood, WithoutKeeps
<1>6. \A e \in EntriesAt(q, TxRows(q, body)) : e \in body
  BY DEF EntriesAt, TxRows
<1>7. Unlisted(p, body) = Without[q][TxRows(q, body)]
  BY DEF Unlisted, q
<1> HIDE DEF TxRows, PostRows, EntriesAt
<1> QED BY <1>2, <1>3, <1>5, <1>6, <1>7

LEMMA PurgedGood ==
  ASSUME NEW p, TableOK(p), height \in Nat
  PROVE  /\ TableOK(Purged(p)) /\ Len(Purged(p)) <= Len(p)
         /\ \A e \in Pooled(p) \ Pooled(Purged(p)) : \A r \in Rows(p) : r.entry = e => r.expires < height
<1> DEFINE I == {i \in DOMAIN p : p[i].expires < height}
<1>1. I \subseteq DOMAIN p /\ Purged(p) = Without[p][I]
  BY DEF Purged
<1>2. /\ TableOK(Purged(p)) /\ Len(Purged(p)) <= Len(p)
      /\ Pooled(Purged(p)) = {p[i].entry : i \in DOMAIN p \ I}
  <2>1. /\ TableOK(Without[p][I]) /\ Len(Without[p][I]) <= Len(p)
        /\ Pooled(Without[p][I]) = {p[i].entry : i \in DOMAIN p \ I}
    <3> HIDE DEF I
    <3> QED BY <1>1, WithoutGood
  <2> QED BY <1>1, <2>1
<1>3. ASSUME NEW e \in Pooled(p) \ Pooled(Purged(p)), NEW r \in Rows(p), r.entry = e
      PROVE  r.expires < height
  <2>1. PICK i \in DOMAIN p : r = p[i]
    BY DEF Rows
  <2>2. i \in I
    BY <1>2, <1>3, <2>1
  <2> QED BY <2>1, <2>2
<1> QED BY <1>2, <1>3

(* What the creator reads off a table                                          *)
LEMMA BodyIs ==
  ASSUME NEW p, TableOK(p)
  PROVE  /\ Fetch(p) \subseteq DOMAIN p /\ Drain(p) \subseteq DOMAIN p
         /\ EntriesAt(p, Fetch(p)) \subseteq Body(p) \cup pruned
         /\ EntriesAt(p, Drain(p)) \subseteq Prunes
         /\ Body(p) \subseteq EntriesAt(p, Fetch(p) \cup Drain(p)) /\ Body(p) \subseteq Entries
<1>1. /\ Fetch(p) \subseteq DOMAIN p /\ Drain(p) \subseteq DOMAIN p
      /\ EntriesAt(p, Drain(p)) \subseteq Prunes
  BY DEF Fetch, Drain, EntriesAt
<1>2. Body(p) \subseteq EntriesAt(p, Fetch(p) \cup Drain(p))
  BY DEF Body, EntriesAt
<1>3. EntriesAt(p, Fetch(p) \cup Drain(p)) \subseteq Entries
  BY <1>1, TableTyped DEF EntriesAt
<1> QED BY <1>1, <1>2, <1>3 DEF Body

-----------------------------------------------------------------------------
(* The invariant *)

(* The template on offer fits the chain it was built on and is below the bound,*)
(* a nonce is only searched for a template, and the rows a template takes out  *)
(* of the pool are in its body or have lost their content.                     *)
Inv ==
  /\ TypeOK /\ TemplateSound
  /\ template # None =>
       /\ height < MaxHeight
       /\ \A r \in Rows(pool) : r.taken => r.entry \in template.body \cup pruned
  /\ mining => template # None

(* EntriesKept, of one step                                                    *)
LossExcused ==
  \A e \in Pooled(pool) \ (Pooled(pool') \cup Prunes) :
    \/ height' = height + 1 /\ e \in tip'
    \/ \A r \in Rows(pool) : r.entry = e => r.expires < height
    \/ e \in pruned
    \/ height' = height /\ e \in EntriesAt(Ready, Fetch(Ready)) /\ BadBody

(* What every step must establish *)
Good == Inv' /\ LossExcused

LEMMA InvImplies ==
  ASSUME Inv
  PROVE  /\ TableOK(pool) /\ height \in 0 .. MaxHeight /\ height \in Nat /\ MaxHeight \in Nat
         /\ external \in BOOLEAN /\ mining \in BOOLEAN /\ template \in Template \cup {None}
         /\ refused \in Verdicts /\ tip \subseteq Posts \cup Txs /\ pruned \subseteq Posts
BY CreatorAssumption DEF Inv, TypeOK, TableOK

LEMMA TypeNext ==
  ASSUME TableOK(pool'), height' \in 0 .. MaxHeight, external' \in BOOLEAN, mining' \in BOOLEAN,
         template' \in Template \cup {None}, refused' \in Verdicts, tip' \subseteq Posts \cup Txs,
         pruned' \subseteq Posts
  PROVE  TypeOK'
BY DEF TypeOK, TableOK

(* What a block leaves of the rest of the state                                *)
LEMMA AppliedTyped ==
  ASSUME Inv, NEW body \in SUBSET Entries, Applied(body), height < MaxHeight
  PROVE  /\ height' \in 0 .. MaxHeight /\ height' = height + 1 /\ refused' \in Verdicts
         /\ tip' \subseteq Posts \cup Txs /\ tip' = body \ Prunes /\ pruned' \subseteq Posts
<1>1. /\ height' = height + 1 /\ tip' = body \ Prunes /\ refused' \in Verdicts
      /\ pruned' = pruned \cup {Target[e] : e \in body \cap Prunes}
  BY DEF Applied
<1>2. {Target[e] : e \in body \cap Prunes} \subseteq Posts
  BY CreatorAssumption
<1>3. body \ Prunes \subseteq Posts \cup Txs
  BY DEF Entries
<1> QED BY <1>1, <1>2, <1>3, InvImplies

(* A fresh node offers nothing. *)
LEMMA InitInv == Init => Inv
<1> SUFFICES ASSUME Init PROVE Inv
  OBVIOUS
<1>1. MaxHeight \in Nat /\ Cap \in Nat
  BY CreatorAssumption
<1>2. pool \in Seq(Row) /\ Len(pool) = 0
  BY DEF Init
<1>3. TypeOK
  <2>1. /\ external \in BOOLEAN /\ template \in Template \cup {None} /\ mining \in BOOLEAN
        /\ pruned \subseteq Posts /\ refused \in Verdicts /\ tip \subseteq Posts \cup Txs
    BY Zenon DEF Init
  <2>2. height \in 0 .. MaxHeight /\ Len(pool) <= Cap
    BY <1>1, <1>2 DEF Init
  <2> QED BY <1>2, <2>1, <2>2 DEF TypeOK
<1> QED BY <1>3 DEF Init, Inv, TemplateSound

LEMMA InsertGood == ASSUME Inv, NEW e \in Entries, Insert(e) PROVE Good
<1> DEFINE r == [entry |-> e, expires |-> height + Expiry, taken |-> FALSE]
<1>1. /\ pool' = Append(pool, r) /\ Len(pool) < Cap
      /\ UNCHANGED <<external, height, refused, tip, pruned, template, mining>>
  BY DEF Insert, Room, chain
<1>2. /\ pool \in Seq(Row) /\ Cap \in Nat /\ r \in Row /\ r.taken = FALSE
  BY InvImplies, CreatorAssumption DEF TableOK, Row
<1> HIDE DEF r
<1>3. /\ pool' \in Seq(Row) /\ Len(pool') = Len(pool) + 1 /\ pool'[Len(pool) + 1] = r
      /\ DOMAIN pool' = 1 .. Len(pool) + 1 /\ Len(pool) \in Nat /\ DOMAIN pool = 1 .. Len(pool)
      /\ \A i \in 1 .. Len(pool) : pool'[i] = pool[i]
      /\ 1 .. Len(pool) + 1 = (1 .. Len(pool)) \cup {Len(pool) + 1}
  BY <1>1, <1>2
<1>4. TableOK(pool')
  BY <1>1, <1>2, <1>3 DEF TableOK
<1>5. Pooled(pool) \subseteq Pooled(pool') /\ Rows(pool') = Rows(pool) \cup {r}
  BY <1>3 DEF Rows, Pooled
<1>6. TypeOK'
  BY <1>1, <1>4, InvImplies, TypeNext
<1>7. LossExcused
  BY <1>5 DEF LossExcused
<1> QED BY <1>1, <1>2, <1>5, <1>6, <1>7 DEF Good, Inv, TemplateSound, Rejected

LEMMA ForeignGood == ASSUME Inv, NEW body \in SUBSET Entries, ForeignBlock(body) PROVE Good
<1>1. /\ template' = None /\ height < MaxHeight /\ external' = external
      /\ mining' = (mining /\ template' = template)
  BY DEF ForeignBlock, Cleared
<1>2. mining' = FALSE
  BY <1>1 DEF Inv
<1>3. CASE Rejected(body)
  <2>1. UNCHANGED <<height, refused, tip, pruned, pool>>
    BY <1>3 DEF ForeignBlock, chain
  <2>2. TypeOK'
    BY <1>1, <1>2, <2>1, InvImplies, TypeNext
  <2>3. LossExcused
    BY <2>1 DEF LossExcused
  <2> QED BY <1>1, <1>2, <2>2, <2>3 DEF Good, Inv, TemplateSound
<1>4. CASE ~Rejected(body)
  <2>1. Applied(body) /\ pool' = Unlisted(pool, body)
    BY <1>4 DEF ForeignBlock
  <2>2. TableOK(pool') /\ \A e \in Pooled(pool) \ Pooled(pool') : e \in body
    BY <2>1, InvImplies, UnlistedGood
  <2>3. TypeOK'
    BY <1>1, <1>2, <2>1, <2>2, InvImplies, AppliedTyped, TypeNext
  <2>4. height' = height + 1 /\ tip' = body \ Prunes
    BY <1>1, <2>1, AppliedTyped
  <2>5. LossExcused
    BY <2>2, <2>4 DEF LossExcused
  <2> QED BY <1>1, <1>2, <2>3, <2>5 DEF Good, Inv, TemplateSound
<1> QED BY <1>3, <1>4

(* The table an interval works on                                              *)
LEMMA ReadyGood ==
  ASSUME Inv
  PROVE  /\ TableOK(Ready) /\ Len(Ready) <= Len(pool)
         /\ \A e \in Pooled(pool) \ Pooled(Ready) :
               \A r \in Rows(pool) : r.entry = e => r.expires < height
<1>1. /\ TableOK(Purged(pool)) /\ Len(Purged(pool)) <= Len(pool)
      /\ \A e \in Pooled(pool) \ Pooled(Purged(pool)) :
            \A r \in Rows(pool) : r.entry = e => r.expires < height
  BY InvImplies, PurgedGood
<1>2. /\ TableOK(Ready) /\ Len(Ready) = Len(Purged(pool)) /\ Pooled(Ready) = Pooled(Purged(pool))
  BY <1>1, TakingGood DEF Ready
<1> QED BY <1>1, <1>2

LEMMA IntervalGood == ASSUME Inv, Interval PROVE Good
<1> DEFINE p == Ready
           b == Body(p)
           rest == Without[p][Fetch(p) \cup Drain(p)]
<1>1. mining' = FALSE /\ external' = external /\ height < MaxHeight
  BY DEF Interval
<1>2. /\ TableOK(p) /\ pruned \subseteq Posts
      /\ \A e \in Pooled(pool) \ Pooled(p) :
            \A r \in Rows(pool) : r.entry = e => r.expires < height
  BY InvImplies, ReadyGood
<1>3. /\ Fetch(p) \subseteq DOMAIN p /\ Drain(p) \subseteq DOMAIN p
      /\ EntriesAt(p, Fetch(p)) \subseteq b \cup pruned
      /\ EntriesAt(p, Drain(p)) \subseteq Prunes /\ b \subseteq Entries
  BY <1>2, BodyIs
<1>4. /\ TableOK(rest)
      /\ \A e \in Pooled(p) \ Pooled(rest) :
            e \in EntriesAt(p, Fetch(p)) \/ e \in EntriesAt(p, Drain(p))
  <2>1. Fetch(p) \cup Drain(p) \subseteq DOMAIN p
    BY <1>3
  <2>2. TableOK(rest) /\ \A e \in Pooled(p) \ Pooled(rest) : e \in EntriesAt(p, Fetch(p) \cup Drain(p))
    BY <1>2, <2>1, WithoutGood, WithoutKeeps
  <2>3. EntriesAt(p, Fetch(p) \cup Drain(p)) = EntriesAt(p, Fetch(p)) \cup EntriesAt(p, Drain(p))
    BY DEF EntriesAt
  <2> QED BY <2>2, <2>3
<1>5. \/ /\ template' = None /\ UNCHANGED chain /\ Rejected(b) /\ pool' = rest
      \/ /\ UNCHANGED chain /\ ~Rejected(b)
         /\ template' = [height |-> height + 1, body |-> b]
         /\ pool' = Without[Taking(p, Fetch(p))][Drain(p)]
      \/ /\ template' = None /\ Applied(b) /\ pool' = Unlisted(rest, b)
  BY DEF Interval, Evicted
<1>6. BadBody <=> Rejected(b)
  BY DEF BadBody
<1> HIDE DEF p, b, rest
<1>7. CASE template' = None /\ UNCHANGED chain /\ Rejected(b) /\ pool' = rest
  <2>1. TypeOK'
    BY <1>1, <1>4, <1>7, InvImplies, TypeNext DEF chain
  <2>2. LossExcused
    BY <1>2, <1>3, <1>4, <1>6, <1>7 DEF LossExcused, chain, p
  <2> QED BY <1>1, <1>7, <2>1, <2>2 DEF Good, Inv, TemplateSound
<1>8. CASE /\ UNCHANGED chain /\ ~Rejected(b)
           /\ template' = [height |-> height + 1, body |-> b]
           /\ pool' = Without[Taking(p, Fetch(p))][Drain(p)]
  <2> DEFINE q == Taking(p, Fetch(p))
  <2>1. /\ TableOK(q) /\ DOMAIN q = DOMAIN p /\ Pooled(q) = Pooled(p)
        /\ \A i \in DOMAIN p : q[i].entry = p[i].entry /\ q[i].taken = (i \in Fetch(p))
    BY <1>2, TakingGood
  <2> HIDE DEF q
  <2>2. Drain(p) \subseteq DOMAIN q
    BY <1>3, <2>1
  <2>3. pool' = Without[q][Drain(p)]
    BY <1>8 DEF q
  <2>4. /\ TableOK(pool') /\ Rows(pool') \subseteq Rows(q)
        /\ \A e \in Pooled(q) \ Pooled(pool') : e \in EntriesAt(q, Drain(p))
    BY <2>1, <2>2, <2>3, WithoutGood, WithoutKeeps
  <2>5. EntriesAt(q, Drain(p)) = EntriesAt(p, Drain(p))
    BY <1>3, <2>1 DEF EntriesAt
  <2>6. LossExcused
    BY <1>2, <1>3, <2>1, <2>4, <2>5 DEF LossExcused
  <2>7. ASSUME NEW r \in Rows(pool'), r.taken PROVE r.entry \in b \cup pruned
    <3>1. PICK i \in DOMAIN p : r = q[i]
      BY <2>1, <2>4 DEF Rows
    <3>2. i \in Fetch(p) /\ r.entry = p[i].entry
      BY <2>1, <2>7, <3>1
    <3> QED BY <1>3, <3>2 DEF EntriesAt
  <2>8. template' \in Template /\ template'.height = height + 1 /\ template'.body = b
    <3>1. height + 1 \in 1 .. MaxHeight
      BY <1>1, InvImplies
    <3> QED BY <1>3, <1>8, <3>1 DEF Template
  <2>9. TypeOK'
    BY <1>1, <1>8, <2>4, <2>8, InvImplies, TypeNext DEF chain
  <2> QED BY <1>1, <1>8, <2>6, <2>7, <2>8, <2>9 DEF Good, Inv, TemplateSound, chain, Rejected
<1>9. CASE template' = None /\ Applied(b) /\ pool' = Unlisted(rest, b)
  <2>1. TableOK(pool') /\ \A e \in Pooled(rest) \ Pooled(pool') : e \in b
    BY <1>4, <1>9, UnlistedGood
  <2>2. /\ height' \in 0 .. MaxHeight /\ height' = height + 1 /\ refused' \in Verdicts
        /\ tip' \subseteq Posts \cup Txs /\ tip' = b \ Prunes /\ pruned' \subseteq Posts
    BY <1>1, <1>3, <1>9, AppliedTyped
  <2>3. TypeOK'
    BY <1>1, <1>9, <2>1, <2>2, InvImplies, TypeNext
  <2>4. LossExcused
    BY <1>2, <1>3, <1>4, <2>1, <2>2 DEF LossExcused
  <2> QED BY <1>1, <1>9, <2>3, <2>4 DEF Good, Inv, TemplateSound
<1> QED BY <1>5, <1>7, <1>8, <1>9

LEMMA SubmitGood == ASSUME Inv, SubmitMinedBlock PROVE Good
<1> DEFINE b == template.body
           p == Unlisted(pool, b)
           I == {i \in DOMAIN p : p[i].taken}
<1>1. /\ template' = None /\ mining' = FALSE /\ external' = external /\ template # None
  BY DEF SubmitMinedBlock, Inv
<1>2. /\ template \in Template /\ height < MaxHeight /\ ~Rejected(b) /\ b \in SUBSET Entries
      /\ \A r \in Rows(pool) : r.taken => r.entry \in b \cup pruned
  BY <1>1, InvImplies DEF Inv, TemplateSound, Template
<1>3. Applied(b) /\ pool' = Without[p][I]
  BY <1>2 DEF SubmitMinedBlock
<1>4. /\ TableOK(p) /\ Rows(p) \subseteq Rows(pool)
      /\ \A e \in Pooled(pool) \ Pooled(p) : e \in b
  BY InvImplies, UnlistedGood
<1> HIDE DEF b, p
<1>5. /\ TableOK(pool') /\ \A e \in Pooled(p) \ Pooled(pool') : e \in EntriesAt(p, I)
  BY <1>3, <1>4, WithoutGood, WithoutKeeps
<1>6. ASSUME NEW e \in EntriesAt(p, I) PROVE e \in b \cup pruned
  BY <1>2, <1>4 DEF EntriesAt, Rows
<1> HIDE DEF I
<1>7. /\ height' \in 0 .. MaxHeight /\ height' = height + 1 /\ refused' \in Verdicts
      /\ tip' \subseteq Posts \cup Txs /\ tip' = b \ Prunes /\ pruned' \subseteq Posts
  BY <1>2, <1>3, AppliedTyped
<1>8. TypeOK'
  BY <1>1, <1>5, <1>7, InvImplies, TypeNext
<1>9. LossExcused
  BY <1>4, <1>5, <1>6, <1>7 DEF LossExcused
<1> QED BY <1>1, <1>8, <1>9 DEF Good, Inv, TemplateSound

LEMMA RestartGood == ASSUME Inv, Restart PROVE Good
<1>1. /\ template' = None /\ mining' = FALSE /\ pool' = Taking(pool, {})
      /\ UNCHANGED <<external, height, refused, tip, pruned>>
  BY DEF Restart, chain
<1>2. TableOK(pool') /\ Pooled(pool') = Pooled(pool)
  BY <1>1, InvImplies, TakingGood
<1>3. TypeOK'
  BY <1>1, <1>2, InvImplies, TypeNext
<1>4. LossExcused
  BY <1>2 DEF LossExcused
<1> QED BY <1>1, <1>3, <1>4 DEF Good, Inv, TemplateSound

(* Every step keeps the offer sound and loses no entry without a reason.       *)
LEMMA NextInv == ASSUME Inv, [Next]_vars PROVE Good
<1>1. ASSUME NEW e \in Entries, Insert(e) PROVE Good
  BY <1>1, InsertGood
<1>2. ASSUME NEW body \in SUBSET Entries, ForeignBlock(body) PROVE Good
  BY <1>2, ForeignGood
<1>3. CASE Interval
  BY <1>3, IntervalGood
<1>4. CASE FetchTemplate
  <2>1. TypeOK'
    BY <1>4, InvImplies, TypeNext DEF FetchTemplate, chain
  <2> QED BY <1>4, <2>1 DEF FetchTemplate, Good, Inv, TemplateSound, LossExcused, chain, Rejected
<1>5. CASE SubmitMinedBlock
  BY <1>5, SubmitGood
<1>6. CASE Restart
  BY <1>6, RestartGood
<1>7. CASE UNCHANGED vars
  <2>1. TypeOK'
    BY <1>7, InvImplies, TypeNext DEF vars
  <2> QED BY <1>7, <2>1 DEF vars, Good, Inv, TemplateSound, LossExcused, Rejected
<1> QED BY <1>1, <1>2, <1>3, <1>4, <1>5, <1>6, <1>7 DEF Next

LEMMA InvHolds == Spec => []Inv
<1>1. Inv /\ [Next]_vars => Inv'
  BY NextInv DEF Good
<1> QED BY InitInv, <1>1, PTL DEF Spec

-----------------------------------------------------------------------------
(* The theorems *)

(* The mempool never exceeds its cap and templates are well formed, whatever     *)
(* is inserted, however often, purged, drained or removed (assertCapacity).    *)
THEOREM CreatorTypeCorrect == Spec => []TypeOK
<1>1. Inv => TypeOK
  BY DEF Inv
<1> QED BY InvHolds, <1>1, PTL

(* No miner is ever offered a block that its own node would reject, whatever   *)
(* enters the pool, whatever bodies the next tip makes bad, and whatever is     *)
(* mined elsewhere meanwhile (computePostBlockStateRoot, clearTemplate).      *)
THEOREM OffersSound == Spec => []TemplateSound
<1>1. Inv => TemplateSound
  BY DEF Inv
<1> QED BY InvHolds, <1>1, PTL

(* The last row of a post or transaction leaves the mempool only because the    *)
(* block just applied lists it, all its rows have expired, it has lost its      *)
(* content, or it was in a body that was rejected, also when a template built   *)
(* long before is mined and however many rows an entry has                     *)
(* (removeSubBlockEntries, purgeExpired, finalizeBlock).                      *)
THEOREM PooledEntriesKept == Spec => EntriesKept
<1>1. Inv /\ [Next]_vars
      => [\A e \in Pooled(pool) \ (Pooled(pool') \cup Prunes) :
            \/ height' = height + 1 /\ e \in tip'
            \/ \A r \in Rows(pool) : r.entry = e => r.expires < height
            \/ e \in pruned
            \/ height' = height /\ e \in EntriesAt(Ready, Fetch(Ready)) /\ BadBody]_vars
  BY NextInv DEF Good, LossExcused
<1> QED BY InvHolds, <1>1, PTL DEF Spec, EntriesKept

-----------------------------------------------------------------------------
(* Rejected bodies *)

LEMMA RejectionShrinks ==
  ASSUME Inv, Interval, BadBody PROVE Len(pool') < Len(pool)
<1> DEFINE p == Ready
           I == Fetch(p) \cup Drain(p)
<1>1. TableOK(p) /\ Len(p) <= Len(pool) /\ TableOK(pool)
  BY InvImplies, ReadyGood
<1>2. pool' = Without[p][I]
  BY DEF Interval, BadBody, Evicted
<1>3. I \subseteq DOMAIN p /\ Body(p) \subseteq EntriesAt(p, I)
  BY <1>1, BodyIs
<1>4. Body(p) # {}
  <2>1. refused \in Verdicts /\ Body(p) \in refused
    BY InvImplies DEF BadBody, Rejected
  <2> QED BY <2>1, CreatorAssumption
<1> HIDE DEF p, I
<1>5. I # {}
  BY <1>3, <1>4 DEF EntriesAt
<1>6. Len(pool') < Len(p) /\ TableOK(pool')
  BY <1>1, <1>2, <1>3, <1>5, WithoutGood
<1> QED BY <1>1, <1>6, TableTyped

(* A rejected body takes rows out of the pool and puts none in, whichever of     *)
(* its entries made it bad, and whether alone or together: as the pool holds    *)
(* Cap rows at most, Cap intervals at most can reject before another entry       *)
(* comes in (createOrderingBlock).                                            *)
THEOREM RejectedBodiesEnd == Spec => RejectionsEnd
<1>1. Inv /\ [Next]_vars => [Interval /\ BadBody => Len(pool') < Len(pool)]_vars
  BY RejectionShrinks
<1> QED BY InvHolds, <1>1, PTL DEF Spec, RejectionsEnd
=============================================================================
