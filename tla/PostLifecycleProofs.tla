------------------------ MODULE PostLifecycleProofs ------------------------
(***************************************************************************)
(* Proofs about PostLifecycle.  What holds of one node's tables is stated   *)
(* of a record d, so that the middle states of a reorg, which are no states *)
(* of the specification, have it too.                                       *)
(***************************************************************************)
EXTENDS PostLifecycle, WellFoundedInduction, TLAPS

-----------------------------------------------------------------------------
(* Least elements *)

LEMMA LeastIn ==
  ASSUME NEW T, T \subseteq Nat, T # {}
  PROVE  \E x \in T : \A y \in T : x <= y
<1>1. PICK x \in T : \A y \in T : <<y, x>> \notin OpToRel(<, Nat)
  BY NatLessThanWellFounded, WFMin
<1>2. \A y \in T : ~(y < x)
  BY <1>1, Zenon DEF OpToRel
<1>3. x \in Nat /\ \A y \in T : y \in Nat
  OBVIOUS
<1> QED BY <1>2, <1>3

-----------------------------------------------------------------------------
(* Rows of the mempool *)

(* g is the recursive function of Without, up to the l-th row                  *)
Leaving(p, I, l, g) ==
  g = [i \in 0 .. l |->
         IF i = 0 THEN << >> ELSE IF i \in I THEN g[i - 1] ELSE Append(g[i - 1], p[i])]

Leaves(p, I) == CHOOSE g : Leaving(p, I, Len(p), g)

LEMMA WithoutChosen ==
  ASSUME NEW R, NEW p \in Seq(R), NEW I
  PROVE  Without(p, I) = Leaves(p, I)[Len(p)]
BY DEF Without, Leaves, Leaving

LEMMA LeavingExists ==
  ASSUME NEW R, NEW p \in Seq(R), NEW I PROVE Leaving(p, I, Len(p), Leaves(p, I))
<1> DEFINE Bad == {l \in Nat : l <= Len(p) /\ ~\E g : Leaving(p, I, l, g)}
<1>1. Bad = {}
  <2> SUFFICES ASSUME Bad # {} PROVE FALSE
    OBVIOUS
  <2>1. PICK l \in Bad : \A j \in Bad : l <= j
    <3>1. Bad \subseteq Nat
      OBVIOUS
    <3> HIDE DEF Bad
    <3> QED BY <3>1, LeastIn
  <2>2. l \in Nat /\ l <= Len(p) /\ ~\E g : Leaving(p, I, l, g)
    BY <2>1
  <2>3. CASE l = 0
    <3> DEFINE g == [i \in 0 .. 0 |-> << >>]
    <3>1. g = [i \in 0 .. 0 |-> IF i = 0 THEN << >>
                ELSE IF i \in I THEN g[i - 1] ELSE Append(g[i - 1], p[i])]
      OBVIOUS
    <3> HIDE DEF g
    <3> QED BY <2>2, <2>3, <3>1 DEF Leaving
  <2>4. CASE l # 0
    <3>1. l - 1 \in Nat /\ l - 1 <= Len(p) /\ ~(l <= l - 1) /\ l - 1 \notin Bad
      BY <2>1, <2>2, <2>4
    <3>2. PICK g : Leaving(p, I, l - 1, g)
      BY <3>1
    <3> DEFINE Step(f, i) == IF i = 0 THEN << >>
                             ELSE IF i \in I THEN f[i - 1] ELSE Append(f[i - 1], p[i])
               k == [i \in 0 .. l |-> IF i = l THEN Step(g, i) ELSE g[i]]
    <3>3. ASSUME NEW i \in 0 .. l PROVE k[i] = Step(k, i)
      <4>1. \A j \in 0 .. l - 1 : g[j] = Step(g, j)
        BY <3>2 DEF Leaving
      <4>2. i # l => i \in 0 .. l - 1
        BY <2>2
      <4>3. i # 0 => i - 1 \in 0 .. l /\ i - 1 # l
        BY <2>2
      <4> QED BY <4>1, <4>2, <4>3
    <3>4. k = [i \in 0 .. l |-> Step(k, i)]
      <4>1. k = [i \in 0 .. l |-> k[i]]
        OBVIOUS
      <4> HIDE DEF k, Step
      <4> QED BY <3>3, <4>1
    <3> HIDE DEF k
    <3> QED BY <2>2, <3>4 DEF Leaving
  <2> QED BY <2>3, <2>4
<1>2. Len(p) \in Nat /\ Len(p) <= Len(p)
  OBVIOUS
<1>3. \E g : Leaving(p, I, Len(p), g)
  BY <1>1, <1>2
<1> QED BY <1>3 DEF Leaves

(* q are the rows of p at positions outside I, up to the l-th                   *)
Remains(R, p, I, l, q) ==
  /\ q \in Seq(R) /\ Len(q) <= l
  /\ \A r : (\E i \in DOMAIN q : q[i] = r) <=> \E i \in 1 .. l : i \notin I /\ p[i] = r
  /\ (\E i \in 1 .. l : i \in I) => Len(q) < l

LEMMA RemainsNext ==
  ASSUME NEW R, NEW p \in Seq(R), NEW I, NEW l \in Nat, l < Len(p), NEW q, Remains(R, p, I, l, q)
  PROVE  Remains(R, p, I, l + 1, IF l + 1 \in I THEN q ELSE Append(q, p[l + 1]))
<1> DEFINE r == p[l + 1]
           n == Len(q)
           k == Append(q, r)
<1>1. /\ r \in R /\ q \in Seq(R) /\ n \in Nat /\ n <= l /\ DOMAIN q = 1 .. n
      /\ l + 1 \notin 1 .. l /\ 1 .. l + 1 = (1 .. l) \cup {l + 1}
  BY DEF Remains
<1>2. CASE l + 1 \in I
  <2>1. q \in Seq(R) /\ Len(q) <= l + 1 /\ Len(q) < l + 1
    BY <1>1
  <2>2. \A s : (\E i \in 1 .. l + 1 : i \notin I /\ p[i] = s)
                <=> \E i \in 1 .. l : i \notin I /\ p[i] = s
    BY <1>1, <1>2
  <2>3. Remains(R, p, I, l + 1, q)
    BY <2>1, <2>2 DEF Remains
  <2> QED BY <1>2, <2>3
<1>3. CASE l + 1 \notin I
  <2>1. /\ k \in Seq(R) /\ Len(k) = n + 1 /\ DOMAIN k = (1 .. n) \cup {n + 1} /\ k[n + 1] = r
        /\ \A i \in 1 .. n : k[i] = q[i]
    BY <1>1
  <2> HIDE DEF k, n, r
  <2>2. ASSUME NEW s
        PROVE  (\E i \in DOMAIN k : k[i] = s) <=> \E i \in 1 .. l + 1 : i \notin I /\ p[i] = s
    BY <1>1, <1>3, <2>1 DEF Remains, r
  <2>3. (\E i \in 1 .. l + 1 : i \in I) => n < l
    BY <1>1, <1>3 DEF Remains, n
  <2>4. Len(k) <= l + 1 /\ (n < l => Len(k) < l + 1)
    BY <1>1, <2>1
  <2> QED BY <1>3, <2>1, <2>2, <2>3, <2>4 DEF Remains, k, r
<1> QED BY <1>2, <1>3

LEMMA WithoutRemains ==
  ASSUME NEW R, NEW p \in Seq(R), NEW I PROVE Remains(R, p, I, Len(p), Without(p, I))
<1> DEFINE at == Leaves(p, I)
           L == Len(p)
           Bad == {l \in Nat : l <= L /\ ~Remains(R, p, I, l, at[l])}
<1>1. /\ L \in Nat
      /\ \A i \in 0 .. L : at[i] = IF i = 0 THEN << >>
             ELSE IF i \in I THEN at[i - 1] ELSE Append(at[i - 1], p[i])
  <2>1. Leaving(p, I, L, at)
    BY LeavingExists
  <2>2. L \in Nat
    OBVIOUS
  <2> HIDE DEF at, L
  <2>3. \A i \in 0 .. L : at[i] = IF i = 0 THEN << >>
             ELSE IF i \in I THEN at[i - 1] ELSE Append(at[i - 1], p[i])
    BY <2>1 DEF Leaving
  <2> QED BY <2>2, <2>3
<1>2. Bad = {}
  <2> SUFFICES ASSUME Bad # {} PROVE FALSE
    OBVIOUS
  <2>1. PICK l \in Bad : \A j \in Bad : l <= j
    <3>1. Bad \subseteq Nat
      OBVIOUS
    <3> HIDE DEF Bad
    <3> QED BY <3>1, LeastIn
  <2>2. l \in Nat /\ l <= L /\ ~Remains(R, p, I, l, at[l])
    BY <2>1
  <2> HIDE DEF at, L
  <2>3. CASE l = 0
    <3>1. at[l] = << >>
      BY <1>1, <2>3
    <3>2. Remains(R, p, I, 0, << >>)
      BY DEF Remains
    <3> QED BY <2>2, <2>3, <3>1, <3>2
  <2>4. CASE l # 0
    <3>1. /\ l - 1 \in Nat /\ l - 1 <= L /\ ~(l <= l - 1) /\ l - 1 < L /\ l - 1 + 1 = l
          /\ l \in 0 .. L
      BY <1>1, <2>2, <2>4
    <3>2. Remains(R, p, I, l - 1, at[l - 1])
      BY <2>1, <3>1
    <3>3. at[l] = IF l \in I THEN at[l - 1] ELSE Append(at[l - 1], p[l])
      BY <1>1, <2>4, <3>1
    <3> HIDE DEF Bad
    <3>4. Remains(R, p, I, l - 1 + 1,
            IF l - 1 + 1 \in I THEN at[l - 1] ELSE Append(at[l - 1], p[l - 1 + 1]))
      BY <3>1, <3>2, RemainsNext DEF L
    <3> QED BY <2>2, <3>1, <3>3, <3>4
  <2> QED BY <2>3, <2>4
<1>3. Remains(R, p, I, L, at[L])
  BY <1>1, <1>2
<1> QED BY <1>3, WithoutChosen

(* The rows of p at positions outside I, no more than they were                 *)
LeftOf(R, p, I, q) ==
  /\ q \in Seq(R) /\ Len(q) <= Len(p)
  /\ \A r : (\E i \in DOMAIN q : q[i] = r) <=> \E i \in DOMAIN p : i \notin I /\ p[i] = r

LEMMA WithoutIs ==
  ASSUME NEW R, NEW p \in Seq(R), NEW I PROVE LeftOf(R, p, I, Without(p, I))
<1> DEFINE q == Without(p, I)
<1>1. Remains(R, p, I, Len(p), q)
  BY WithoutRemains
<1> HIDE DEF q
<1>2. DOMAIN p = 1 .. Len(p)
  OBVIOUS
<1>3. /\ q \in Seq(R) /\ Len(q) <= Len(p)
      /\ \A r : (\E i \in DOMAIN q : q[i] = r) <=> \E i \in 1 .. Len(p) : i \notin I /\ p[i] = r
  BY <1>1 DEF Remains
<1>4. LeftOf(R, p, I, q)
  BY <1>2, <1>3, Zenon DEF LeftOf
<1> QED BY <1>4 DEF q

LEMMA PickedIs ==
  ASSUME NEW R, NEW p \in Seq(R), NEW I, I \subseteq DOMAIN p, NEW T,
         \A i \in I : p[i].of \in T
  PROVE  Picked(p, I) \in Seq(T) /\ Members(Picked(p, I)) = {p[i].of : i \in I}
<1> DEFINE kept == Without(p, DOMAIN p \ I)
           x == [i \in DOMAIN kept |-> kept[i].of]
<1>1. /\ kept \in Seq(R)
      /\ \A r : (\E i \in DOMAIN kept : kept[i] = r)
                 <=> \E i \in DOMAIN p : i \notin DOMAIN p \ I /\ p[i] = r
  <2>1. LeftOf(R, p, DOMAIN p \ I, kept)
    BY WithoutIs
  <2> HIDE DEF kept
  <2> QED BY <2>1, Zenon DEF LeftOf
<1>2. Picked(p, I) = x
  BY DEF Picked
<1> HIDE DEF kept
<1>3. \A r : (\E i \in DOMAIN kept : kept[i] = r) <=> \E i \in I : p[i] = r
  BY <1>1
<1>4. DOMAIN kept = 1 .. Len(kept) /\ Len(kept) \in Nat
  BY <1>1
<1>5. \A i \in DOMAIN kept : \E j \in I : kept[i] = p[j]
  BY <1>3
<1>6. \A j \in I : \E i \in DOMAIN kept : kept[i] = p[j]
  BY <1>3
<1>7. x \in Seq(T)
  <2>1. \A i \in 1 .. Len(kept) : kept[i].of \in T
    BY <1>4, <1>5
  <2>2. [i \in 1 .. Len(kept) |-> kept[i].of] \in Seq(T)
    BY <1>4, <2>1
  <2> QED BY <1>4, <2>2
<1>8. DOMAIN x = DOMAIN kept /\ \A i \in DOMAIN kept : x[i] = kept[i].of
  OBVIOUS
<1> HIDE DEF x
<1>9. Members(x) = {p[i].of : i \in I}
  BY <1>5, <1>6, <1>8 DEF Members
<1> QED BY <1>2, <1>7, <1>9

LEMMA PoolRowsAre ==
  ASSUME NEW type, NEW T, NEW ids \in Seq(T), \A x \in T : [type |-> type, of |-> x] \in PoolRow
  PROVE  /\ PoolRows(type, ids) \in Seq(PoolRow)
         /\ \A x \in Members(ids) :
              \E i \in DOMAIN PoolRows(type, ids) :
                PoolRows(type, ids)[i] = [type |-> type, of |-> x]
<1>1. DOMAIN ids = 1 .. Len(ids) /\ Len(ids) \in Nat /\ \A i \in DOMAIN ids : ids[i] \in T
  OBVIOUS
<1>2. PoolRows(type, ids) = [i \in 1 .. Len(ids) |-> [type |-> type, of |-> ids[i]]]
  BY <1>1 DEF PoolRows
<1>3. [i \in 1 .. Len(ids) |-> [type |-> type, of |-> ids[i]]] \in Seq(PoolRow)
  BY <1>1
<1>4. ASSUME NEW x \in Members(ids)
      PROVE  \E i \in DOMAIN PoolRows(type, ids) :
               PoolRows(type, ids)[i] = [type |-> type, of |-> x]
  <2>1. PICK i \in DOMAIN ids : x = ids[i]
    BY DEF Members
  <2>2. i \in DOMAIN PoolRows(type, ids) /\ PoolRows(type, ids)[i] = [type |-> type, of |-> x]
    BY <1>1, <1>2, <2>1
  <2> QED BY <2>2
<1> QED BY <1>2, <1>3, <1>4

(* A post's row in a table, and what PostsIn says of it                        *)
Holds(rows, p) == \E i \in DOMAIN rows : rows[i] = [type |-> "subblock", of |-> p]

LEMMA HoldsIsIn ==
  ASSUME NEW rows, NEW p, Holds(rows, p) PROVE p \in PostsIn(rows)
BY DEF Holds, PostsIn

LEMMA RowOfPost ==
  ASSUME NEW p \in Post PROVE [type |-> "subblock", of |-> p] \in PoolRow
BY DEF PoolRow

-----------------------------------------------------------------------------
(* The tables of one node *)

(* t is what block_topology says of p when c is the chain: the author and the *)
(* height of the first block that lists p                                     *)
FirstEntry(c, p, t) ==
  IF t = None THEN p \notin Listed(c)
  ELSE /\ t.height \in DOMAIN c /\ p \in DOMAIN c[t.height].entries
       /\ t.author = c[t.height].entries[p]
       /\ \A g \in DOMAIN c : p \in DOMAIN c[g].entries => t.height <= g

(* Chains start with the first block; what the chain lists and what has        *)
(* content has a row; S are the posts that were signed, M those misnamed.      *)
Rooted(d)    == Len(d.chain) \in 1 .. MaxHeight /\ d.chain[1] = Genesis
HasRows(d)   == Listed(d.chain) \subseteq Rows(d)
HasSigned(d, S) == {p \in Post : d.row[p].content} \subseteq S \cap Rows(d)
Confirms(d, M) ==
  \A p \in Post : d.row[p].status = "confirmed" => p \in Listed(d.chain) \cup M
Sides(d, M)  == \A g \in DOMAIN d.chain : OneSided(d.chain[g]) \subseteq M
Records(d)   == \A p \in Post : FirstEntry(d.chain, p, d.topo[p])

Sound(d, S, M) ==
  /\ d \in Tables /\ Rooted(d) /\ HasRows(d) /\ HasSigned(d, S) /\ Records(d)
  /\ Confirms(d, M) /\ Sides(d, M) /\ Len(d.pool) <= PoolCap

PostInv ==
  /\ misnamed \subseteq Post /\ signed \subseteq Post /\ relayed \subseteq signed
  /\ db \in [Node -> Tables]
  /\ \A n \in Node : Sound(db[n], signed, misnamed)

-----------------------------------------------------------------------------
(* Topology *)

LEMMA NoneIsNoRow == \A t \in Topo : t # None
BY PostAssumption DEF Topo

LEMMA ListedIff ==
  ASSUME NEW c, NEW p
  PROVE  p \in Listed(c) <=> \E g \in DOMAIN c : p \in DOMAIN c[g].entries
BY DEF Listed

(* The form the specification states TopologyOfChain in                        *)
LEMMA FirstEntryIsLeast ==
  ASSUME NEW d \in Tables, Records(d), NEW p \in Post
  PROVE  LET c  == d.chain
             hs == {h \in DOMAIN c : p \in DOMAIN c[h].entries}
         IN  IF hs = {} THEN d.topo[p] = None
             ELSE LET h == CHOOSE h \in hs : \A g \in hs : h <= g
                  IN  d.topo[p] = [author |-> c[h].entries[p], height |-> h]
<1> DEFINE c  == d.chain
           t  == d.topo[p]
           hs == {h \in DOMAIN c : p \in DOMAIN c[h].entries}
           least == CHOOSE h \in hs : \A g \in hs : h <= g
<1>1. FirstEntry(c, p, t) /\ t \in Topo \cup {None} /\ DOMAIN c \subseteq Nat
  BY DEF Records, Tables
<1>2. CASE hs = {}
  <2>1. p \notin Listed(c)
    BY <1>2, ListedIff
  <2>2. t = None
    BY <1>1, <1>2 DEF FirstEntry
  <2> QED BY <1>2, <2>2
<1>3. CASE hs # {}
  <2>1. p \in Listed(c)
    BY <1>3, ListedIff
  <2>2. t # None /\ t \in Topo
    BY <1>1, <2>1 DEF FirstEntry
  <2>3. t.height \in hs /\ t.author = c[t.height].entries[p] /\ \A g \in hs : t.height <= g
    BY <1>1, <2>2 DEF FirstEntry
  <2>4. hs \subseteq Nat
    BY <1>1
  <2>5. least \in hs /\ \A g \in hs : least <= g
    <3> HIDE DEF hs
    <3> QED BY <2>3
  <2>6. least = t.height
    <3> HIDE DEF hs, least
    <3>1. least <= t.height /\ t.height <= least /\ least \in Nat /\ t.height \in Nat
      BY <2>3, <2>4, <2>5
    <3> QED BY <3>1
  <2>7. t = [author |-> t.author, height |-> t.height]
    BY <2>2 DEF Topo
  <2>8. d.topo[p] = [author |-> c[least].entries[p], height |-> least]
    <3> HIDE DEF least, hs
    <3> QED BY <2>3, <2>6, <2>7
  <2> QED BY <1>3, <2>8
<1> QED BY <1>2, <1>3

LEMMA PostInvImplies == PostInv => TypeOK /\ TopologyOfChain /\ ConfirmedIsListed
<1> SUFFICES ASSUME PostInv PROVE TypeOK /\ TopologyOfChain /\ ConfirmedIsListed
  OBVIOUS
<1>1. TypeOK
  BY DEF PostInv, TypeOK, Sound, Rooted, HasRows, HasSigned
<1>2. \A n \in Node : db[n] \in Tables /\ Records(db[n])
  BY DEF PostInv, Sound
<1>3. TopologyOfChain
  BY <1>2, FirstEntryIsLeast DEF TopologyOfChain
<1>4. ConfirmedIsListed
  BY DEF PostInv, Sound, Confirms, ConfirmedIsListed
<1> QED BY <1>1, <1>3, <1>4

-----------------------------------------------------------------------------
(* What the store primitives keep *)

LEMMA MoreSigned ==
  ASSUME NEW S, NEW U, S \subseteq U, NEW M, NEW N, M \subseteq N, NEW d, Sound(d, S, M)
  PROVE  Sound(d, U, N)
BY DEF Sound, HasSigned, Confirms, Sides

(* A change of the pools alone                                                *)
LEMMA PoolsSound ==
  ASSUME NEW S, NEW M, NEW d, Sound(d, S, M), NEW e, e \in Tables,
         e.row = d.row, e.topo = d.topo, e.chain = d.chain, Len(e.pool) <= PoolCap
  PROVE  Sound(e, S, M)
<1>1. Rows(e) = Rows(d)
  BY DEF Rows
<1> QED BY <1>1 DEF Sound, Rooted, HasRows, HasSigned, Confirms, Records, Sides

LEMMA InsertSound ==
  ASSUME NEW S, NEW M, NEW d, Sound(d, S, M), NEW p \in Post, p \in S
  PROVE  /\ Sound(InsertPost(d, p), S, M) /\ p \in Rows(InsertPost(d, p))
         /\ InsertPost(d, p).chain = d.chain /\ InsertPost(d, p).pool = d.pool
         /\ \A q \in Post : d.row[q].content => InsertPost(d, p).row[q].content
<1> DEFINE e == InsertPost(d, p)
           new == [d.row EXCEPT ![p] = Filled(d.row[p])]
<1>1. d \in Tables /\ d.row \in [Post -> Row]
  BY DEF Sound, Tables
<1>2. Filled(d.row[p]) \in Row /\ Filled(d.row[p]).content /\ Filled(d.row[p]).status # "absent"
      /\ (Filled(d.row[p]).status = "confirmed" => d.row[p].status = "confirmed")
  BY DEF Filled, Row
<1>3. /\ new \in [Post -> Row] /\ new[p] = Filled(d.row[p])
      /\ \A q \in Post \ {p} : new[q] = d.row[q]
  BY <1>1, <1>2
<1>4. /\ e.row = new /\ e.topo = d.topo /\ e.chain = d.chain /\ e.pool = d.pool
      /\ e \in Tables
  BY <1>1, <1>3 DEF InsertPost, Tables
<1> HIDE DEF e, new
<1>5. Rows(e) = Rows(d) \cup {p}
  BY <1>2, <1>3, <1>4 DEF Rows
<1>6. Sound(e, S, M)
  <2>1. HasSigned(e, S)
    BY <1>3, <1>4, <1>5 DEF Sound, HasSigned
  <2>2. Confirms(e, M)
    BY <1>2, <1>3, <1>4 DEF Sound, Confirms
  <2> QED BY <1>4, <1>5, <2>1, <2>2 DEF Sound, Rooted, HasRows, Records, Sides
<1> QED BY <1>2, <1>3, <1>4, <1>5, <1>6 DEF e

LEMMA PooledSound ==
  ASSUME NEW S, NEW M, NEW d, Sound(d, S, M), NEW type, NEW x, [type |-> type, of |-> x] \in PoolRow
  PROVE  /\ Sound(Pooled(d, type, x), S, M) /\ Pooled(d, type, x).chain = d.chain
         /\ Pooled(d, type, x).row = d.row
<1>1. CASE Full(d)
  BY <1>1 DEF Pooled
<1>2. CASE ~Full(d)
  <2> DEFINE new == Append(d.pool, [type |-> type, of |-> x])
             e == [d EXCEPT !.pool = new]
  <2>1. /\ d \in Tables /\ d.pool \in Seq(PoolRow) /\ Len(d.pool) \in Nat /\ PoolCap \in Nat
        /\ ~(Len(d.pool) >= PoolCap)
    BY <1>2, PostAssumption DEF Sound, Tables, Full
  <2>2. new \in Seq(PoolRow) /\ Len(new) = Len(d.pool) + 1
    BY <2>1
  <2>3. Pooled(d, type, x) = e
    BY <1>2 DEF Pooled
  <2> HIDE DEF new
  <2>4. /\ e \in Tables /\ e.row = d.row /\ e.topo = d.topo /\ e.chain = d.chain
        /\ e.pool = new
    BY <2>1, <2>2 DEF Tables
  <2> HIDE DEF e
  <2>5. Len(e.pool) <= PoolCap
    BY <2>1, <2>2, <2>4
  <2>6. Sound(e, S, M)
    BY <2>4, <2>5, PoolsSound
  <2> QED BY <2>3, <2>4, <2>6
<1> QED BY <1>1, <1>2

-----------------------------------------------------------------------------
(* Applying a block *)

LEMMA BlockTyped ==
  ASSUME NEW b \in Block
  PROVE  /\ DOMAIN b.entries \subseteq Post /\ b.prunes \in Seq(Prune)
         /\ b.refs \in Seq(Post) /\ b.txs \in Seq(Tx)
         /\ \A p \in DOMAIN b.entries : b.entries[p] \in User \cup {Zero}
BY DEF Block

(* What Confirm and Marked make of the tables d, field by field                *)
Extends(d, b, e) ==
  /\ e \in Tables /\ e.chain = Append(d.chain, b)
  /\ Len(e.pool) <= Len(d.pool)
  /\ \A p \in Post \ Members(b.refs) : Holds(d.pool, p) => Holds(e.pool, p)
  /\ \A p \in Post :
       /\ e.topo[p] = IF p \in DOMAIN b.entries
                      THEN Recorded(d.topo[p], b.entries[p], Len(d.chain) + 1) ELSE d.topo[p]
       /\ e.row[p].content = d.row[p].content
       /\ e.row[p].status = "absent" => d.row[p].status = "absent" /\ p \notin DOMAIN b.entries
       /\ e.row[p].status = "confirmed" => d.row[p].status = "confirmed" \/ p \in DOMAIN b.entries

LEMMA ApplyExtends ==
  ASSUME NEW d \in Tables, Len(d.chain) < MaxHeight, NEW b \in Block
  PROVE  Extends(d, b, Apply(d, b))
<1> DEFINE h == Len(d.chain) + 1
           ps == DOMAIN b.entries
           I1 == {i \in DOMAIN d.pool : d.pool[i].type = "subblock"
                                          /\ d.pool[i].of \in Members(b.refs)}
           pool1 == Without(d.pool, I1)
           I2 == {i \in DOMAIN pool1 :
                    /\ pool1[i].type = "utxo_tx" /\ pool1[i].of \in Members(b.txs)
                    /\ \A j \in 1 .. i - 1 : pool1[j] # pool1[i]}
           pool2 == Without(pool1, I2)
           x == Confirm(d, b, h)
           row1 == [p \in Post |-> IF p \in ps THEN ConfirmedRow(d.row[p]) ELSE d.row[p]]
           topo1 == [p \in Post |-> IF p \in ps THEN Recorded(d.topo[p], b.entries[p], h)
                                    ELSE d.topo[p]]
           roots == {r.root : r \in Members(b.prunes)}
           gone == UNION {Subtree(r, Rows(x)) : r \in roots}
           row2 == [p \in Post |-> IF p \in gone THEN [row1[p] EXCEPT !.status = "pruned"]
                                   ELSE row1[p]]
           e == Apply(d, b)
<1>1. /\ d.row \in [Post -> Row] /\ d.topo \in [Post -> Topo \cup {None}]
      /\ d.chain \in Seq(Block) /\ h \in 1 .. MaxHeight /\ d.pool \in Seq(PoolRow)
      /\ ps \subseteq Post /\ \A p \in ps : b.entries[p] \in User \cup {Zero}
      /\ roots \subseteq Post
  <2>1. /\ d.row \in [Post -> Row] /\ d.topo \in [Post -> Topo \cup {None}] /\ d.chain \in Seq(Block)
        /\ d.pool \in Seq(PoolRow)
    BY DEF Tables
  <2>2. h \in 1 .. MaxHeight
    BY <2>1, PostAssumption
  <2>3. roots \subseteq Post
    <3>1. \A r \in Members(b.prunes) : r \in Prune
      BY BlockTyped DEF Members
    <3> QED BY <3>1 DEF Prune
  <2> QED BY <2>1, <2>2, <2>3, BlockTyped
<1> HIDE DEF h
<1>2. row1 \in [Post -> Row]
  BY <1>1 DEF ConfirmedRow, Row
<1>3. topo1 \in [Post -> Topo \cup {None}]
  BY <1>1 DEF Recorded, Topo
<1>4. x = [d EXCEPT !.row = row1, !.topo = topo1, !.pool = pool1]
  BY DEF Confirm, Tables
<1>4a. /\ pool1 \in Seq(PoolRow) /\ pool2 \in Seq(PoolRow) /\ Len(pool2) <= Len(d.pool)
      /\ \A p \in Post \ Members(b.refs) : Holds(d.pool, p) => Holds(pool2, p)
  <2>1. /\ pool1 \in Seq(PoolRow) /\ Len(pool1) <= Len(d.pool)
        /\ \A r : (\E i \in DOMAIN pool1 : pool1[i] = r)
                   <=> \E i \in DOMAIN d.pool : i \notin I1 /\ d.pool[i] = r
    <3> HIDE DEF I1
    <3>1. LeftOf(PoolRow, d.pool, I1, pool1)
      BY <1>1, WithoutIs
    <3> HIDE DEF pool1
    <3> QED BY <3>1, Zenon DEF LeftOf
  <2>2. \A p \in Post \ Members(b.refs) : Holds(d.pool, p) => Holds(pool1, p)
    <3> SUFFICES ASSUME NEW p \in Post \ Members(b.refs), Holds(d.pool, p) PROVE Holds(pool1, p)
      OBVIOUS
    <3>1. PICK i \in DOMAIN d.pool : d.pool[i] = [type |-> "subblock", of |-> p]
      BY DEF Holds
    <3>2. i \notin I1
      BY <3>1
    <3> HIDE DEF I1, pool1
    <3> QED BY <2>1, <3>1, <3>2 DEF Holds
  <2> HIDE DEF pool1
  <2>3. /\ pool2 \in Seq(PoolRow) /\ Len(pool2) <= Len(pool1)
        /\ \A r : (\E i \in DOMAIN pool2 : pool2[i] = r)
                   <=> \E i \in DOMAIN pool1 : i \notin I2 /\ pool1[i] = r
    <3> HIDE DEF I2
    <3>1. LeftOf(PoolRow, pool1, I2, pool2)
      BY <2>1, WithoutIs
    <3> HIDE DEF pool2
    <3> QED BY <3>1, Zenon DEF LeftOf
  <2>4. \A p \in Post : Holds(pool1, p) => Holds(pool2, p)
    <3> SUFFICES ASSUME NEW p \in Post, Holds(pool1, p) PROVE Holds(pool2, p)
      OBVIOUS
    <3>1. PICK i \in DOMAIN pool1 : pool1[i] = [type |-> "subblock", of |-> p]
      BY DEF Holds
    <3>2. i \notin I2
      BY <3>1
    <3> HIDE DEF I2, pool2
    <3> QED BY <2>3, <3>1, <3>2 DEF Holds
  <2>5. Len(pool2) \in Nat /\ Len(pool1) \in Nat /\ Len(d.pool) \in Nat
    <3> HIDE DEF pool2
    <3> QED BY <1>1, <2>1, <2>3
  <2> HIDE DEF pool2
  <2> QED BY <2>1, <2>2, <2>3, <2>4, <2>5
<1> HIDE DEF row1, topo1, pool1
<1>5. /\ x \in Tables /\ x.row = row1 /\ x.topo = topo1 /\ x.pool = pool1
      /\ x.chain = d.chain /\ x.stumps = d.stumps
  <2> HIDE DEF x, ps
  <2> QED BY <1>2, <1>3, <1>4, <1>4a DEF Tables
<1>6. row2 \in [Post -> Row]
  <2> HIDE DEF gone
  <2> QED BY <1>2 DEF Row
<1>7. e = [x EXCEPT !.stumps = x.stumps \cup roots, !.row = row2, !.pool = pool2,
                    !.chain = Append(x.chain, b)]
  <2> DEFINE y == Marked(x, b.prunes)
  <2>1. y = [x EXCEPT !.stumps = x.stumps \cup roots, !.row = row2]
    BY <1>5 DEF Marked
  <2>2. e = [y EXCEPT !.pool = Settled(y.pool, b.txs), !.chain = Append(y.chain, b)]
    BY DEF Apply, h
  <2> HIDE DEF y
  <2>3. y.pool = pool1 /\ y.chain = x.chain
    <3> HIDE DEF x, row2, roots
    <3> QED BY <1>5, <2>1 DEF Tables
  <2>4. Settled(y.pool, b.txs) = pool2
    BY <2>3 DEF Settled
  <2> HIDE DEF x, row2, roots, e, pool2
  <2> QED BY <1>5, <2>1, <2>2, <2>3, <2>4 DEF Tables
<1> HIDE DEF x, row2, roots, e, ps, pool2
<1>8. /\ e \in Tables /\ e.row = row2 /\ e.topo = topo1 /\ e.pool = pool2
      /\ e.chain = Append(d.chain, b)
  <2>1. /\ Append(x.chain, b) \in Seq(Block) /\ Append(x.chain, b) = Append(d.chain, b)
        /\ x.stumps \cup roots \in SUBSET Post
    BY <1>1, <1>5 DEF Tables
  <2>2. e = [x EXCEPT !.stumps = x.stumps \cup roots, !.row = row2, !.pool = pool2,
                      !.chain = Append(d.chain, b)]
    BY <1>7, <2>1
  <2> QED BY <1>5, <1>6, <1>4a, <2>1, <2>2 DEF Tables
<1>9. ASSUME NEW p \in Post
      PROVE  /\ e.topo[p] = IF p \in ps THEN Recorded(d.topo[p], b.entries[p], h) ELSE d.topo[p]
             /\ e.row[p].content = d.row[p].content
             /\ e.row[p].status = "absent" => d.row[p].status = "absent" /\ p \notin ps
             /\ e.row[p].status = "confirmed" => d.row[p].status = "confirmed" \/ p \in ps
  <2>1. /\ e.topo[p] = topo1[p]
        /\ e.row[p] = IF p \in gone THEN [row1[p] EXCEPT !.status = "pruned"] ELSE row1[p]
    BY <1>8 DEF row2
  <2>2. /\ topo1[p] = IF p \in ps THEN Recorded(d.topo[p], b.entries[p], h) ELSE d.topo[p]
        /\ row1[p] = IF p \in ps THEN [d.row[p] EXCEPT !.status = "confirmed"] ELSE d.row[p]
    BY DEF topo1, row1, ConfirmedRow
  <2>3. d.row[p] \in Row /\ row1[p] \in Row
    BY <1>1, <1>2
  <2> HIDE DEF gone
  <2> QED BY <2>1, <2>2, <2>3 DEF Row
<1> QED BY <1>8, <1>9, <1>4a DEF h, e, ps, Extends

(* What an extended chain lists                                               *)
LEMMA ListedAppend ==
  ASSUME NEW c \in Seq(Block), NEW b
  PROVE  Listed(Append(c, b)) = Listed(c) \cup DOMAIN b.entries
<1> DEFINE n == Len(c)
           e == Append(c, b)
<1>1. /\ n \in Nat /\ DOMAIN c = 1 .. n /\ DOMAIN e = 1 .. n + 1 /\ e[n + 1] = b
      /\ \A i \in 1 .. n : e[i] = c[i]
  OBVIOUS
<1> HIDE DEF n, e
<1>2. ASSUME NEW p, p \in Listed(e) PROVE p \in Listed(c) \cup DOMAIN b.entries
  <2>1. PICK g \in DOMAIN e : p \in DOMAIN e[g].entries
    BY <1>2, ListedIff
  <2>2. CASE g = n + 1
    BY <1>1, <2>1, <2>2
  <2>3. CASE g # n + 1
    <3>1. g \in DOMAIN c /\ p \in DOMAIN c[g].entries
      BY <1>1, <2>1, <2>3
    <3> QED BY <3>1, ListedIff
  <2> QED BY <2>2, <2>3
<1>3. ASSUME NEW p, p \in Listed(c) PROVE p \in Listed(e)
  <2>1. PICK g \in DOMAIN c : p \in DOMAIN c[g].entries
    BY <1>3, ListedIff
  <2>2. g \in DOMAIN e /\ p \in DOMAIN e[g].entries
    BY <1>1, <2>1
  <2> QED BY <2>2, ListedIff
<1>4. ASSUME NEW p, p \in DOMAIN b.entries PROVE p \in Listed(e)
  <2>1. n + 1 \in DOMAIN e /\ p \in DOMAIN e[n + 1].entries
    BY <1>1, <1>4
  <2> QED BY <2>1, ListedIff
<1> QED BY <1>2, <1>3, <1>4 DEF e

LEMMA FirstEntryAppend ==
  ASSUME NEW c \in Seq(Block), NEW b \in Block, NEW p \in Post, NEW t \in Topo \cup {None},
         FirstEntry(c, p, t), Len(c) < MaxHeight
  PROVE  FirstEntry(Append(c, b), p,
           IF p \in DOMAIN b.entries THEN Recorded(t, b.entries[p], Len(c) + 1) ELSE t)
<1> DEFINE n == Len(c)
           e == Append(c, b)
           new == [author |-> b.entries[p], height |-> n + 1]
<1>1. /\ n \in Nat /\ DOMAIN c = 1 .. n /\ DOMAIN e = 1 .. n + 1 /\ e[n + 1] = b
      /\ \A i \in 1 .. n : e[i] = c[i]
  OBVIOUS
<1>2. Listed(e) = Listed(c) \cup DOMAIN b.entries
  BY ListedAppend
<1> HIDE DEF e
<1>3. CASE t # None
  <2>1. Recorded(t, b.entries[p], n + 1) = t
    BY <1>3 DEF Recorded
  <2>2. t.height \in 1 .. n
    BY <1>1, <1>3 DEF FirstEntry
  <2>3. FirstEntry(e, p, t)
    <3>1. /\ t.height \in DOMAIN e /\ p \in DOMAIN e[t.height].entries
          /\ t.author = e[t.height].entries[p]
      BY <1>1, <1>3, <2>2 DEF FirstEntry
    <3>2. ASSUME NEW g \in DOMAIN e, p \in DOMAIN e[g].entries PROVE t.height <= g
      <4>1. CASE g = n + 1
        BY <1>1, <2>2, <4>1
      <4>2. CASE g # n + 1
        <5>1. g \in DOMAIN c /\ p \in DOMAIN c[g].entries
          BY <1>1, <3>2, <4>2
        <5> QED BY <1>3, <5>1 DEF FirstEntry
      <4> QED BY <4>1, <4>2
    <3> QED BY <1>3, <3>1, <3>2 DEF FirstEntry
  <2> QED BY <2>1, <2>3 DEF e, n
<1>4. CASE t = None /\ p \notin DOMAIN b.entries
  BY <1>2, <1>4 DEF FirstEntry, e
<1>5. CASE t = None /\ p \in DOMAIN b.entries
  <2>1. Recorded(t, b.entries[p], n + 1) = new
    BY <1>5 DEF Recorded
  <2>2. new # None
    <3>1. n + 1 \in 1 .. MaxHeight
      BY <1>1, PostAssumption
    <3>2. new \in Topo
      BY <1>5, <3>1, BlockTyped DEF Topo
    <3> QED BY <3>2, NoneIsNoRow
  <2>3. \A g \in DOMAIN c : p \notin DOMAIN c[g].entries
    BY <1>5, ListedIff DEF FirstEntry
  <2>4. \A g \in DOMAIN e : p \in DOMAIN e[g].entries => g = n + 1
    BY <1>1, <2>3
  <2>5. new.height = n + 1 /\ new.author = b.entries[p]
    OBVIOUS
  <2> HIDE DEF new
  <2>6. FirstEntry(e, p, new)
    BY <1>1, <1>5, <2>2, <2>4, <2>5 DEF FirstEntry
  <2> QED BY <1>5, <2>1, <2>6 DEF e, n
<1> QED BY <1>3, <1>4, <1>5

(* Applying a block, listed posts of earlier blocks or not, keeps the tables   *)
(* sound.                                                                     *)
LEMMA ExtendSound ==
  ASSUME NEW S, NEW M, NEW d, Sound(d, S, M), Len(d.chain) < MaxHeight, NEW b \in Block,
         OneSided(b) \subseteq M, NEW e, Extends(d, b, e)
  PROVE  Sound(e, S, M)
<1>1. /\ d \in Tables /\ d.chain \in Seq(Block)
      /\ Listed(d.chain) \subseteq Rows(d) /\ d.topo \in [Post -> Topo \cup {None}]
      /\ e \in Tables /\ e.chain = Append(d.chain, b)
      /\ DOMAIN b.entries \subseteq Post
  BY BlockTyped DEF Sound, Extends, HasRows, Tables
<1>2. Rooted(e)
  BY <1>1, PostAssumption DEF Sound, Rooted
<1>3. Listed(e.chain) = Listed(d.chain) \cup DOMAIN b.entries
  BY <1>1, ListedAppend
<1>4. Rows(d) \cup DOMAIN b.entries \subseteq Rows(e)
  BY <1>1 DEF Extends, Rows
<1>5. HasRows(e)
  BY <1>1, <1>3, <1>4 DEF HasRows
<1>6. HasSigned(e, S)
  BY <1>4 DEF Extends, Sound, HasSigned
<1>7. Confirms(e, M)
  BY <1>3 DEF Extends, Sound, Confirms
<1>8. Records(e)
  <2> SUFFICES ASSUME NEW p \in Post PROVE FirstEntry(e.chain, p, e.topo[p])
    BY DEF Records
  <2>1. FirstEntry(d.chain, p, d.topo[p]) /\ d.topo[p] \in Topo \cup {None}
    BY <1>1 DEF Sound, Records
  <2>2. e.topo[p] = IF p \in DOMAIN b.entries
                    THEN Recorded(d.topo[p], b.entries[p], Len(d.chain) + 1) ELSE d.topo[p]
    BY DEF Extends
  <2> QED BY <1>1, <2>1, <2>2, FirstEntryAppend
<1>9. Sides(e, M)
  <2> SUFFICES ASSUME NEW g \in DOMAIN e.chain PROVE OneSided(e.chain[g]) \subseteq M
    BY DEF Sides
  <2>1. CASE g = Len(d.chain) + 1
    BY <1>1, <2>1
  <2>2. CASE g # Len(d.chain) + 1
    <3>1. g \in DOMAIN d.chain /\ e.chain[g] = d.chain[g]
      BY <1>1, <2>2
    <3> QED BY <3>1 DEF Sound, Sides
  <2> QED BY <2>1, <2>2
<1>10. Len(e.pool) <= PoolCap
  <2>1. d.pool \in Seq(PoolRow) /\ e.pool \in Seq(PoolRow)
    BY <1>1 DEF Tables
  <2>2. Len(e.pool) <= Len(d.pool) /\ Len(d.pool) <= PoolCap
    BY DEF Extends, Sound
  <2> QED BY <2>1, <2>2, PostAssumption
<1> QED BY <1>1, <1>2, <1>5, <1>6, <1>7, <1>8, <1>9, <1>10 DEF Sound

-----------------------------------------------------------------------------
(* Reverting the tip *)

Shortens(d, e) ==
  LET h  == Len(d.chain)
      ps == Members(d.chain[h].refs) \cap Rows(d)
  IN  /\ e \in Tables /\ e.chain = SubSeq(d.chain, 1, h - 1)
      /\ e.pool = d.pool
      /\ \A p \in Post :
           /\ e.topo[p] = IF d.topo[p] # None /\ d.topo[p].height = h THEN None ELSE d.topo[p]
           /\ e.row[p].content = d.row[p].content
           /\ e.row[p].status = IF p \in ps THEN "pending" ELSE d.row[p].status

LEMMA RevertShortens ==
  ASSUME NEW d \in Tables, Len(d.chain) > 1 PROVE Shortens(d, Revert(d))
<1> DEFINE h    == Len(d.chain)
           ps   == Members(d.chain[h].refs) \cap Rows(d)
           row1 == [p \in Post |-> IF p \in ps THEN [d.row[p] EXCEPT !.status = "pending"]
                                   ELSE d.row[p]]
           topo1 == [p \in Post |-> IF d.topo[p] # None /\ d.topo[p].height = h THEN None
                                    ELSE d.topo[p]]
           rest == SubSeq(d.chain, 1, h - 1)
           e == Revert(d)
<1>1. /\ d.row \in [Post -> Row] /\ d.topo \in [Post -> Topo \cup {None}]
      /\ d.chain \in Seq(Block) /\ h \in Nat /\ h > 1
  BY DEF Tables
<1>2. rest \in Seq(Block)
  BY <1>1
<1> HIDE DEF h, ps
<1>3. row1 \in [Post -> Row]
  BY <1>1 DEF Row
<1>4. topo1 \in [Post -> Topo \cup {None}]
  BY <1>1
<1>5. e = [d EXCEPT !.row = row1, !.topo = topo1, !.chain = rest]
  BY DEF Revert, Tables, h, ps
<1> HIDE DEF row1, topo1, rest, e
<1>6. /\ e \in Tables /\ e.row = row1 /\ e.topo = topo1 /\ e.chain = rest
      /\ e.pool = d.pool
  BY <1>2, <1>3, <1>4, <1>5 DEF Tables
<1>7. ASSUME NEW p \in Post
      PROVE  /\ topo1[p] = IF d.topo[p] # None /\ d.topo[p].height = h THEN None ELSE d.topo[p]
             /\ row1[p].content = d.row[p].content
             /\ row1[p].status = IF p \in ps THEN "pending" ELSE d.row[p].status
  <2>1. d.row[p] \in Row
    BY <1>1
  <2> QED BY <2>1 DEF row1, topo1, Row
<1> QED BY <1>6, <1>7 DEF Shortens, h, ps, rest, e

(* A reorg undoes blocks without losing what the tables say of the rest.       *)
LEMMA ShortenSound ==
  ASSUME NEW S, NEW M, NEW d, Sound(d, S, M), Len(d.chain) > 1, NEW e, Shortens(d, e)
  PROVE  Sound(e, S, M)
<1> DEFINE h == Len(d.chain)
           r == e.chain
           b == d.chain[h]
<1>1. /\ d \in Tables /\ d.chain \in Seq(Block)
      /\ h \in Nat /\ h > 1 /\ h <= MaxHeight /\ d.chain[1] = Genesis
      /\ Listed(d.chain) \subseteq Rows(d) /\ d.topo \in [Post -> Topo \cup {None}]
      /\ e \in Tables /\ e.pool = d.pool
      /\ r = SubSeq(d.chain, 1, h - 1)
  BY DEF Sound, Rooted, Shortens, HasRows, Tables
<1>2. /\ r \in Seq(Block) /\ Len(r) = h - 1 /\ DOMAIN r = 1 .. h - 1
      /\ \A i \in 1 .. h - 1 : r[i] = d.chain[i]
      /\ b \in Block /\ DOMAIN d.chain = 1 .. h
  BY <1>1
<1>3. d.chain = Append(r, b)
  <2>1. /\ Append(r, b) \in Seq(Block) /\ Len(Append(r, b)) = h
        /\ \A i \in 1 .. h : Append(r, b)[i] = d.chain[i]
    BY <1>1, <1>2
  <2> QED BY <1>1, <2>1
<1>4. Listed(d.chain) = Listed(r) \cup DOMAIN b.entries
  BY <1>2, <1>3, ListedAppend
<1>5. Rooted(e)
  BY <1>1, <1>2, PostAssumption DEF Rooted
<1>6. Rows(d) \subseteq Rows(e)
  BY DEF Shortens, Rows
<1>7. HasRows(e)
  BY <1>1, <1>4, <1>6 DEF HasRows
<1>8. HasSigned(e, S)
  BY <1>6 DEF Shortens, Sound, HasSigned
<1>9. Confirms(e, M)
  <2> SUFFICES ASSUME NEW p \in Post, e.row[p].status = "confirmed" PROVE p \in Listed(r) \cup M
    BY DEF Confirms
  <2>1. p \notin Members(b.refs) \cap Rows(d) /\ d.row[p].status = "confirmed"
    BY DEF Shortens
  <2>2. p \notin Members(b.refs)
    BY <2>1 DEF Rows
  <2>3. OneSided(b) \subseteq M
    BY <1>1, <1>2 DEF Sound, Sides
  <2> QED BY <1>4, <2>1, <2>2, <2>3 DEF Sound, Confirms, OneSided
<1>10. Records(e)
  <2> SUFFICES ASSUME NEW p \in Post PROVE FirstEntry(r, p, e.topo[p])
    BY DEF Records
  <2> DEFINE t == d.topo[p]
  <2>1. FirstEntry(d.chain, p, t) /\ t \in Topo \cup {None}
    BY <1>1 DEF Sound, Records
  <2>2. e.topo[p] = IF t # None /\ t.height = h THEN None ELSE t
    BY DEF Shortens
  <2>3. CASE t = None
    BY <1>4, <2>1, <2>2, <2>3 DEF FirstEntry
  <2>4. CASE t # None /\ t.height = h
    <3>1. ASSUME NEW g \in DOMAIN r, p \in DOMAIN r[g].entries PROVE FALSE
      <4>1. g \in DOMAIN d.chain /\ p \in DOMAIN d.chain[g].entries /\ ~(h <= g)
        BY <1>1, <1>2, <3>1
      <4> QED BY <2>1, <2>4, <4>1 DEF FirstEntry
    <3> QED BY <2>2, <2>4, <3>1, ListedIff DEF FirstEntry
  <2>5. CASE t # None /\ t.height # h
    <3>1. /\ t.height \in DOMAIN r /\ p \in DOMAIN r[t.height].entries
          /\ t.author = r[t.height].entries[p]
          /\ \A g \in DOMAIN r : p \in DOMAIN r[g].entries => t.height <= g
      <4>1. /\ t.height \in 1 .. h /\ p \in DOMAIN d.chain[t.height].entries
            /\ t.author = d.chain[t.height].entries[p]
            /\ \A g \in 1 .. h : p \in DOMAIN d.chain[g].entries => t.height <= g
        BY <1>2, <2>1, <2>5 DEF FirstEntry
      <4>2. t.height \in 1 .. h - 1 /\ 1 .. h - 1 \subseteq 1 .. h
        <5>1. h \in Nat /\ h > 1 /\ t.height \in 1 .. h /\ t.height # h
          BY <1>1, <2>5, <4>1
        <5> HIDE DEF t, h
        <5> QED BY <5>1
      <4> HIDE DEF t, h, r
      <4> QED BY <1>2, <4>1, <4>2
    <3> QED BY <2>2, <2>5, <3>1 DEF FirstEntry
  <2> QED BY <2>3, <2>4, <2>5
<1>11. Sides(e, M)
  BY <1>1, <1>2 DEF Sound, Sides
<1> QED BY <1>1, <1>5, <1>7, <1>8, <1>9, <1>10, <1>11 DEF Sound

-----------------------------------------------------------------------------
(* Reverting to a fork *)

(* g is the recursive function of RevertedTo                                   *)
Reverting(d, f, g) ==
  g = [h \in f .. Len(d.chain) |-> IF h = Len(d.chain) THEN d ELSE Revert(g[h + 1])]

Reverts(d, f) == CHOOSE g : Reverting(d, f, g)

LEMMA RevertedToIs == ASSUME NEW d, NEW f PROVE RevertedTo(d, f) = Reverts(d, f)[f]
BY DEF RevertedTo, Reverts, Reverting

LEMMA RevertingExists ==
  ASSUME NEW d, NEW f \in Nat, Len(d.chain) \in Nat, f <= Len(d.chain)
  PROVE  Reverting(d, f, Reverts(d, f))
<1> DEFINE L == Len(d.chain)
           Bad == {k \in Nat : k <= L /\ ~\E g : Reverting(d, L - k, g)}
<1>1. Bad = {}
  <2> SUFFICES ASSUME Bad # {} PROVE FALSE
    OBVIOUS
  <2>1. PICK k \in Bad : \A j \in Bad : k <= j
    <3>1. Bad \subseteq Nat
      OBVIOUS
    <3> HIDE DEF Bad
    <3> QED BY <3>1, LeastIn
  <2>2. k \in Nat /\ k <= L /\ ~\E g : Reverting(d, L - k, g)
    BY <2>1
  <2>3. CASE k = 0
    <3> DEFINE g == [h \in L .. L |-> d]
    <3>1. \A h \in L .. L : h = L
      OBVIOUS
    <3>2. g = [h \in L .. L |-> IF h = L THEN d ELSE Revert(g[h + 1])]
      BY <3>1
    <3>3. L - k = L
      BY <2>3
    <3> HIDE DEF g
    <3> QED BY <2>2, <3>2, <3>3 DEF Reverting
  <2>4. CASE k # 0
    <3> DEFINE a == L - k
    <3>1. a \in Nat /\ a < L /\ k - 1 \in Nat /\ k - 1 <= L /\ L - (k - 1) = a + 1 /\ ~(k <= k - 1)
      BY <2>2, <2>4
    <3>2. k - 1 \notin Bad
      BY <2>1, <3>1
    <3>3. PICK g : Reverting(d, a + 1, g)
      BY <3>1, <3>2
    <3> DEFINE k2 == [h \in a .. L |-> IF h = a THEN Revert(g[h + 1]) ELSE g[h]]
    <3>4. ASSUME NEW h \in a .. L
          PROVE  k2[h] = IF h = L THEN d ELSE Revert(k2[h + 1])
      <4>1. \A i \in a + 1 .. L : g[i] = IF i = L THEN d ELSE Revert(g[i + 1])
        BY <3>3 DEF Reverting
      <4>2. h = a => h # L /\ h + 1 \in a .. L /\ h + 1 # a
        BY <3>1
      <4>3. h # a => h \in a + 1 .. L
        BY <3>1
      <4>4. h # L => h + 1 \in a .. L /\ h + 1 # a
        BY <3>1
      <4> HIDE DEF a, L
      <4> QED BY <4>1, <4>2, <4>3, <4>4
    <3>5. k2 = [h \in a .. L |-> IF h = L THEN d ELSE Revert(k2[h + 1])]
      <4>1. k2 = [h \in a .. L |-> k2[h]]
        OBVIOUS
      <4> HIDE DEF k2, a, L
      <4> QED BY <3>4, <4>1
    <3> HIDE DEF k2
    <3> QED BY <2>2, <3>5 DEF Reverting
  <2> QED BY <2>3, <2>4
<1>2. L - f \in Nat /\ L - f <= L /\ L - (L - f) = f
  OBVIOUS
<1>3. \E g : Reverting(d, f, g)
  BY <1>1, <1>2
<1> QED BY <1>3 DEF Reverts

(* Rows stay and keep their content, pools are left alone, the chain is cut.   *)
Cut(d, f, e) ==
  /\ e.chain = SubSeq(d.chain, 1, f) /\ e.pool = d.pool
  /\ Rows(d) \subseteq Rows(e)
  /\ \A p \in Post : e.row[p].content = d.row[p].content

LEMMA RevertedSound ==
  ASSUME NEW S, NEW M, NEW d, Sound(d, S, M), NEW f \in Nat, f >= 1, f <= Len(d.chain)
  PROVE  Sound(RevertedTo(d, f), S, M) /\ Cut(d, f, RevertedTo(d, f))
<1> DEFINE L == Len(d.chain)
           at == Reverts(d, f)
           Bad == {k \in Nat : k <= L - f /\ ~(Sound(at[L - k], S, M) /\ Cut(d, L - k, at[L - k]))}
<1>1. d \in Tables /\ d.chain \in Seq(Block) /\ L \in Nat
  BY DEF Sound, Tables
<1>2. \A h \in f .. L : at[h] = IF h = L THEN d ELSE Revert(at[h + 1])
  BY <1>1, RevertingExists DEF Reverting
<1>3. Bad = {}
  <2> SUFFICES ASSUME Bad # {} PROVE FALSE
    OBVIOUS
  <2>1. PICK k \in Bad : \A j \in Bad : k <= j
    <3>1. Bad \subseteq Nat
      OBVIOUS
    <3> HIDE DEF Bad
    <3> QED BY <3>1, LeastIn
  <2> DEFINE h == L - k
  <2>2. /\ k \in Nat /\ h \in f .. L /\ h \in Nat /\ h >= 1
        /\ ~(Sound(at[h], S, M) /\ Cut(d, h, at[h]))
    BY <1>1, <2>1
  <2>3. CASE k = 0
    <3>1. h = L /\ at[h] = d
      BY <1>1, <1>2, <2>2, <2>3
    <3>2. SubSeq(d.chain, 1, L) = d.chain
      BY <1>1
    <3> QED BY <2>2, <3>1, <3>2 DEF Cut
  <2>4. CASE k # 0
    <3> DEFINE x == at[h + 1]
    <3>1. /\ k - 1 \in Nat /\ k - 1 <= L - f /\ L - (k - 1) = h + 1 /\ ~(k <= k - 1)
          /\ h < L /\ at[h] = Revert(x)
      <4>1. /\ k - 1 \in Nat /\ k - 1 <= L - f /\ L - (k - 1) = h + 1 /\ ~(k <= k - 1)
            /\ h < L
        BY <1>1, <2>2, <2>4
      <4> HIDE DEF at, L, h
      <4>2. at[h] = Revert(at[h + 1])
        BY <1>2, <2>2, <4>1
      <4> QED BY <4>1, <4>2
    <3>2. k - 1 \notin Bad
      BY <2>1, <3>1
    <3>3. Sound(x, S, M) /\ Cut(d, h + 1, x)
      BY <3>1, <3>2
    <3> HIDE DEF at, h, x, Bad
    <3>4. x \in Tables /\ x.chain = SubSeq(d.chain, 1, h + 1) /\ L \in Nat /\ h \in Nat /\ h >= 1
      BY <1>1, <2>2, <3>3 DEF Sound, Cut
    <3>5. Len(x.chain) = h + 1 /\ SubSeq(x.chain, 1, h) = SubSeq(d.chain, 1, h)
      BY <1>1, <3>1, <3>4
    <3>6. Shortens(x, at[h])
      BY <3>1, <3>4, <3>5, RevertShortens
    <3>7. Sound(at[h], S, M)
      BY <3>3, <3>4, <3>5, <3>6, ShortenSound
    <3>8. Cut(d, h, at[h])
      <4>1. Rows(x) \subseteq Rows(at[h])
        BY <3>6 DEF Shortens, Rows
      <4> QED BY <3>3, <3>4, <3>5, <3>6, <4>1 DEF Cut, Shortens
    <3> QED BY <2>2, <3>7, <3>8
  <2> QED BY <2>3, <2>4
<1>4. L - f \in Nat /\ L - (L - f) = f
  BY <1>1
<1>5. Sound(at[f], S, M) /\ Cut(d, f, at[f])
  <2>1. Sound(at[L - (L - f)], S, M) /\ Cut(d, L - (L - f), at[L - (L - f)])
    <3> HIDE DEF at, L
    <3> QED BY <1>3, <1>4
  <2> HIDE DEF at, L
  <2> QED BY <1>4, <2>1
<1> QED BY <1>5, RevertedToIs

-----------------------------------------------------------------------------
(* Applying a peer's blocks *)

(* g is the recursive function of Applied, up to height l                      *)
Follows(c, h, x) == IF x = None \/ ~Accepts(x, c[h]) THEN None ELSE Apply(x, c[h])
Applying(d, c, f, l, g) ==
  g = [h \in f .. l |-> IF h = f THEN d ELSE Follows(c, h, g[h - 1])]

Applies(d, c, f) == CHOOSE g : Applying(d, c, f, Len(c), g)

LEMMA AppliedIs ==
  ASSUME NEW d, NEW c, NEW f PROVE Applied(d, c, f) = Applies(d, c, f)[Len(c)]
BY DEF Applied, Applies, Applying, Follows

LEMMA ApplyingExists ==
  ASSUME NEW d, NEW c, NEW f \in Nat, Len(c) \in Nat, f <= Len(c)
  PROVE  Applying(d, c, f, Len(c), Applies(d, c, f))
<1> DEFINE L == Len(c)
           Bad == {k \in Nat : k <= L - f /\ ~\E g : Applying(d, c, f, f + k, g)}
<1>1. Bad = {}
  <2> SUFFICES ASSUME Bad # {} PROVE FALSE
    OBVIOUS
  <2>1. PICK k \in Bad : \A j \in Bad : k <= j
    <3>1. Bad \subseteq Nat
      OBVIOUS
    <3> HIDE DEF Bad
    <3> QED BY <3>1, LeastIn
  <2>2. k \in Nat /\ k <= L - f /\ ~\E g : Applying(d, c, f, f + k, g)
    BY <2>1
  <2>3. CASE k = 0
    <3> DEFINE g == [h \in f .. f |-> d]
    <3>1. \A h \in f .. f : h = f
      OBVIOUS
    <3>2. g = [h \in f .. f |-> IF h = f THEN d ELSE Follows(c, h, g[h - 1])]
      BY <3>1
    <3>3. f + k = f
      BY <2>3
    <3> HIDE DEF g
    <3> QED BY <2>2, <3>2, <3>3 DEF Applying
  <2>4. CASE k # 0
    <3> DEFINE a == f + k
    <3>1. a \in Nat /\ f < a /\ k - 1 \in Nat /\ k - 1 <= L - f /\ f + (k - 1) = a - 1 /\ ~(k <= k - 1)
      BY <2>2, <2>4
    <3>2. k - 1 \notin Bad
      BY <2>1, <3>1
    <3>3. PICK g : Applying(d, c, f, a - 1, g)
      BY <3>1, <3>2
    <3> DEFINE k2 == [h \in f .. a |-> IF h = a THEN Follows(c, h, g[h - 1]) ELSE g[h]]
    <3>4. ASSUME NEW h \in f .. a
          PROVE  k2[h] = IF h = f THEN d ELSE Follows(c, h, k2[h - 1])
      <4>1. \A i \in f .. a - 1 : g[i] = IF i = f THEN d ELSE Follows(c, i, g[i - 1])
        BY <3>3 DEF Applying
      <4>2. h = a => h # f /\ h - 1 \in f .. a /\ h - 1 # a
        BY <3>1
      <4>3. h # a => h \in f .. a - 1
        BY <3>1
      <4>4. h # f => h - 1 \in f .. a /\ h - 1 # a
        BY <3>1
      <4> HIDE DEF a, L
      <4> QED BY <4>1, <4>2, <4>3, <4>4
    <3>5. k2 = [h \in f .. a |-> IF h = f THEN d ELSE Follows(c, h, k2[h - 1])]
      <4>1. k2 = [h \in f .. a |-> k2[h]]
        OBVIOUS
      <4> HIDE DEF k2, a, L
      <4> QED BY <3>4, <4>1
    <3> HIDE DEF k2
    <3> QED BY <2>2, <3>5 DEF Applying
  <2> QED BY <2>3, <2>4
<1>2. L - f \in Nat /\ L - f <= L - f /\ f + (L - f) = L
  OBVIOUS
<1>3. \E g : Applying(d, c, f, L, g)
  BY <1>1, <1>2
<1> QED BY <1>3 DEF Applies

(* The tables e have followed c from d to height h: no content is lost, and    *)
(* a post whose row left the pool is listed, or misnamed.                     *)
Grown(d, c, h, e, M) ==
  /\ e.chain = SubSeq(c, 1, h)
  /\ \A p \in Post \ M : Holds(d.pool, p) => Holds(e.pool, p) \/ p \in Listed(c)
  /\ \A p \in Post : e.row[p].content = d.row[p].content

LEMMA AppliedSound ==
  ASSUME NEW S, NEW M, NEW d, Sound(d, S, M), NEW c \in Seq(Block), Len(c) <= MaxHeight,
         NEW f \in Nat, f >= 1, f <= Len(c), d.chain = SubSeq(c, 1, f),
         \A g \in DOMAIN c : OneSided(c[g]) \subseteq M,
         Applied(d, c, f) # None
  PROVE  Sound(Applied(d, c, f), S, M) /\ Grown(d, c, Len(c), Applied(d, c, f), M)
<1> DEFINE L == Len(c)
           at == Applies(d, c, f)
           Bad == {k \in Nat : k <= L - f /\ at[f + k] # None
                                /\ ~(Sound(at[f + k], S, M) /\ Grown(d, c, f + k, at[f + k], M))}
<1>1. L \in Nat /\ L <= MaxHeight /\ MaxHeight \in Nat
  BY PostAssumption
<1>2. \A h \in f .. L : at[h] = IF h = f THEN d ELSE Follows(c, h, at[h - 1])
  BY <1>1, ApplyingExists DEF Applying
<1>3. Bad = {}
  <2> SUFFICES ASSUME Bad # {} PROVE FALSE
    OBVIOUS
  <2>1. PICK k \in Bad : \A j \in Bad : k <= j
    <3>1. Bad \subseteq Nat
      OBVIOUS
    <3> HIDE DEF Bad
    <3> QED BY <3>1, LeastIn
  <2> DEFINE h == f + k
  <2>2. /\ k \in Nat /\ h \in f .. L /\ h \in Nat /\ h >= 1 /\ at[h] # None
        /\ ~(Sound(at[h], S, M) /\ Grown(d, c, h, at[h], M))
    BY <1>1, <2>1
  <2>3. CASE k = 0
    <3>1. h = f /\ at[h] = d
      BY <1>1, <1>2, <2>2, <2>3
    <3> QED BY <2>2, <3>1 DEF Grown
  <2>4. CASE k # 0
    <3> DEFINE x == at[h - 1]
    <3>1. /\ k - 1 \in Nat /\ k - 1 <= L - f /\ f + (k - 1) = h - 1 /\ ~(k <= k - 1)
          /\ h # f /\ h <= L /\ h - 1 \in Nat /\ h - 1 < MaxHeight
      BY <1>1, <2>2, <2>4
    <3>2. x # None /\ at[h] = Apply(x, c[h])
      <4> HIDE DEF at, L, h
      <4>1. at[h] = Follows(c, h, at[h - 1])
        BY <1>2, <2>2, <3>1
      <4> QED BY <2>2, <4>1 DEF Follows
    <3>3. k - 1 \notin Bad
      BY <2>1, <3>1
    <3>4. Sound(x, S, M) /\ Grown(d, c, h - 1, x, M)
      <4> HIDE DEF at, L, h
      <4> QED BY <3>1, <3>2, <3>3
    <3> HIDE DEF at, h, x, Bad, L
    <3>5. /\ x \in Tables /\ x.chain = SubSeq(c, 1, h - 1) /\ c[h] \in Block
          /\ h \in DOMAIN c
      BY <1>1, <2>2, <3>1, <3>4 DEF Sound, Grown, L
    <3>6. Len(x.chain) = h - 1 /\ Append(x.chain, c[h]) = SubSeq(c, 1, h)
      <4>1. h \in 1 .. Len(c)
        BY <2>2, <3>1 DEF L
      <4>2. Len(SubSeq(c, 1, h - 1)) = h - 1
        BY <4>1
      <4>3. /\ Append(SubSeq(c, 1, h - 1), c[h]) \in Seq(Block) /\ SubSeq(c, 1, h) \in Seq(Block)
            /\ Len(Append(SubSeq(c, 1, h - 1), c[h])) = h /\ Len(SubSeq(c, 1, h)) = h
            /\ \A i \in 1 .. h : Append(SubSeq(c, 1, h - 1), c[h])[i] = SubSeq(c, 1, h)[i]
        BY <4>1
      <4>4. Append(SubSeq(c, 1, h - 1), c[h]) = SubSeq(c, 1, h)
        BY <4>3
      <4> QED BY <3>5, <4>2, <4>4
    <3>7. Extends(x, c[h], at[h])
      BY <3>1, <3>2, <3>5, <3>6, ApplyExtends
    <3>8. Sound(at[h], S, M)
      BY <3>1, <3>4, <3>5, <3>6, <3>7, ExtendSound
    <3>9. Grown(d, c, h, at[h], M)
      <4>1. DOMAIN c[h].entries \subseteq Listed(c) /\ OneSided(c[h]) \subseteq M
        BY <3>5, ListedIff
      <4>2. Members(c[h].refs) \subseteq Listed(c) \cup M
        BY <4>1 DEF OneSided
      <4> QED BY <3>4, <3>6, <3>7, <4>2 DEF Grown, Extends
    <3> QED BY <2>2, <3>8, <3>9
  <2> QED BY <2>3, <2>4
<1>4. L - f \in Nat /\ f + (L - f) = L
  BY <1>1
<1>5. at[L] # None
  BY AppliedIs
<1>6. Sound(at[L], S, M) /\ Grown(d, c, L, at[L], M)
  <2> HIDE DEF at, L
  <2>1. L - f \notin Bad /\ L - f <= L - f
    BY <1>3, <1>4
  <2> QED BY <1>4, <1>5, <2>1
<1> QED BY <1>6, AppliedIs

-----------------------------------------------------------------------------
(* The fork of two chains *)

Forks(c1, c2, f) ==
  /\ f \in 0 .. Len(c1)
  /\ f <= Len(c2) /\ SubSeq(c1, 1, f) = SubSeq(c2, 1, f)
  /\ f < Len(c1) /\ f < Len(c2) => c1[f + 1] # c2[f + 1]

LEMMA ForkExists ==
  ASSUME NEW c1 \in Seq(Block), NEW c2 \in Seq(Block)
  PROVE  Forks(c1, c2, Fork(c1, c2))
<1> DEFINE L == Len(c1)
           Back == {k \in 0 .. L : L - k <= Len(c2) /\ SubSeq(c1, 1, L - k) = SubSeq(c2, 1, L - k)}
<1>1. L \in Nat /\ Len(c2) \in Nat
  OBVIOUS
<1>2. L \in Back
  <2>1. L - L = 0 /\ SubSeq(c1, 1, 0) = << >> /\ SubSeq(c2, 1, 0) = << >>
    OBVIOUS
  <2> QED BY <1>1, <2>1
<1>3. PICK k \in Back : \A j \in Back : k <= j
  <2>1. Back \subseteq Nat
    OBVIOUS
  <2> HIDE DEF Back
  <2> QED BY <1>2, <2>1, LeastIn
<1> DEFINE f == L - k
<1>4. /\ k \in 0 .. L /\ f \in 0 .. L /\ f <= Len(c2) /\ SubSeq(c1, 1, f) = SubSeq(c2, 1, f)
      /\ f \in Nat
  BY <1>1, <1>3
<1>5. ASSUME f < L, f < Len(c2), c1[f + 1] = c2[f + 1] PROVE FALSE
  <2>1. /\ k - 1 \in 0 .. L /\ L - (k - 1) = f + 1 /\ ~(k <= k - 1) /\ f + 1 <= Len(c2)
    BY <1>1, <1>4, <1>5
  <2>2. SubSeq(c1, 1, f + 1) = SubSeq(c2, 1, f + 1)
    <3> HIDE DEF f
    <3>1. \A i \in 1 .. f : c1[i] = c2[i]
      <4>1. \A i \in 1 .. f : c1[i] = SubSeq(c1, 1, f)[i] /\ c2[i] = SubSeq(c2, 1, f)[i]
        BY <1>1, <1>4, <1>5
      <4> QED BY <1>4, <4>1
    <3>2. \A i \in 1 .. f + 1 : c1[i] = c2[i]
      BY <1>4, <1>5, <3>1
    <3>3. /\ SubSeq(c1, 1, f + 1) \in Seq(Block) /\ SubSeq(c2, 1, f + 1) \in Seq(Block)
          /\ Len(SubSeq(c1, 1, f + 1)) = f + 1 /\ Len(SubSeq(c2, 1, f + 1)) = f + 1
          /\ \A i \in 1 .. f + 1 : /\ SubSeq(c1, 1, f + 1)[i] = c1[i]
                                   /\ SubSeq(c2, 1, f + 1)[i] = c2[i]
      BY <1>1, <1>4, <1>5
    <3> QED BY <3>2, <3>3
  <2>3. k - 1 \in Back
    <3> HIDE DEF f
    <3> QED BY <2>1, <2>2
  <2> HIDE DEF Back
  <2> QED BY <1>3, <2>1, <2>3
<1>6. Forks(c1, c2, f)
  BY <1>4, <1>5 DEF Forks
<1> HIDE DEF f
<1>7. Fork(c1, c2) = CHOOSE x \in 0 .. Len(c1) : Forks(c1, c2, x)
  BY DEF Fork, Forks
<1>8. f \in 0 .. Len(c1)
  BY <1>6 DEF Forks
<1> QED BY <1>6, <1>7, <1>8

(* A chain that grew forks off at its own tip                                  *)
LEMMA ForkOfGrown ==
  ASSUME NEW c1 \in Seq(Block), NEW c2 \in Seq(Block), Len(c1) <= Len(c2),
         \A i \in 1 .. Len(c1) : c1[i] = c2[i]
  PROVE  Fork(c1, c2) = Len(c1)
<1>1. Forks(c1, c2, Fork(c1, c2))
  BY ForkExists
<1>2. Len(c1) \in Nat /\ Len(c2) \in Nat
  OBVIOUS
<1> DEFINE f == Fork(c1, c2)
<1> HIDE DEF f
<1>3. ASSUME f < Len(c1) PROVE FALSE
  <2>1. f + 1 \in 1 .. Len(c1) /\ f < Len(c2)
    BY <1>1, <1>2, <1>3 DEF Forks, f
  <2> QED BY <1>1, <1>3, <2>1 DEF Forks, f
<1> QED BY <1>1, <1>2, <1>3 DEF Forks, f

-----------------------------------------------------------------------------
(* One step of one node *)

KeepsContent(d, e) == \A p \in Post : d.row[p].content => e.row[p].content

(* What the old chain names from the fork on is listed or pooled, if it fits.  *)
KeepsPosts(d, e, M) ==
  LET c    == d.chain
      f    == Fork(c, e.chain)
      back == UNION {Members(c[h].refs) : h \in f + 1 .. Len(c)}
  IN  Len(d.pool) + Len(Thrown(c, f)) <= PoolCap =>
        back \subseteq Listed(e.chain) \cup PostsIn(e.pool) \cup M

(* M are the misnamed posts before the step, T and N the signed and the         *)
(* misnamed ones after it                                                      *)
GoodStep(d, e, T, M, N) == Sound(e, T, N) /\ KeepsContent(d, e) /\ KeepsPosts(d, e, M)

(* The action properties, of one step                                         *)
ContentStep == \A n \in Node : KeepsContent(db[n], db'[n])
PostsStep   == \A n \in Node : KeepsPosts(db[n], db'[n], misnamed)

LEMMA GrownKeepsPosts ==
  ASSUME NEW d, NEW e, d.chain \in Seq(Block), e.chain \in Seq(Block),
         Len(d.chain) <= Len(e.chain), \A i \in 1 .. Len(d.chain) : d.chain[i] = e.chain[i]
  PROVE  \A M : KeepsPosts(d, e, M)
<1>1. Fork(d.chain, e.chain) = Len(d.chain)
  BY ForkOfGrown
<1>2. \A h \in Len(d.chain) + 1 .. Len(d.chain) : FALSE
  OBVIOUS
<1>3. UNION {Members(d.chain[h].refs) : h \in Len(d.chain) + 1 .. Len(d.chain)} = {}
  BY <1>2
<1> QED BY <1>1, <1>3 DEF KeepsPosts

LEMMA SameChainKeepsPosts ==
  ASSUME NEW d \in Tables, NEW e, e.chain = d.chain PROVE \A M : KeepsPosts(d, e, M)
<1>1. d.chain \in Seq(Block)
  BY DEF Tables
<1>2. /\ e.chain \in Seq(Block) /\ Len(d.chain) <= Len(e.chain)
      /\ \A i \in 1 .. Len(d.chain) : d.chain[i] = e.chain[i]
  <2>1. Len(d.chain) \in Nat
    BY <1>1
  <2> QED BY <1>1, <2>1
<1> QED BY <1>1, <1>2, GrownKeepsPosts, Zenon

LEMMA NoStep ==
  ASSUME NEW S, NEW M, NEW d, Sound(d, S, M), NEW N PROVE GoodStep(d, d, S, N, M)
BY SameChainKeepsPosts DEF GoodStep, KeepsContent, Sound

LEMMA OneNode ==
  ASSUME PostInv, NEW n \in Node, NEW e, db' = [db EXCEPT ![n] = e],
         signed \subseteq signed', signed' \subseteq Post, relayed' \subseteq signed',
         misnamed \subseteq misnamed', misnamed' \subseteq Post,
         GoodStep(db[n], e, signed', misnamed, misnamed')
  PROVE  PostInv' /\ ContentStep /\ PostsStep
<1>1. /\ db \in [Node -> Tables] /\ \A m \in Node : Sound(db[m], signed, misnamed)
  BY DEF PostInv
<1>2. e \in Tables
  BY DEF GoodStep, Sound
<1>3. /\ db' \in [Node -> Tables] /\ db'[n] = e /\ \A m \in Node \ {n} : db'[m] = db[m]
  BY <1>1, <1>2
<1>4. ASSUME NEW m \in Node PROVE GoodStep(db[m], db'[m], signed', misnamed, misnamed')
  <2>1. CASE m = n
    BY <1>3, <2>1
  <2>2. CASE m # n
    <3>1. Sound(db[m], signed', misnamed')
      BY <1>1, MoreSigned
    <3> QED BY <1>3, <2>2, <3>1, NoStep
  <2> QED BY <2>1, <2>2
<1> QED BY <1>3, <1>4 DEF PostInv, ContentStep, PostsStep, GoodStep

-----------------------------------------------------------------------------
(* Each action makes a good step of its node *)

LEMMA NodeSound ==
  ASSUME PostInv, NEW n \in Node
  PROVE  /\ Sound(db[n], signed, misnamed) /\ db[n] \in Tables /\ db \in [Node -> Tables]
         /\ misnamed \subseteq Post
         /\ signed \subseteq Post /\ relayed \subseteq signed
BY DEF PostInv, Sound

LEMMA HasContentIsSigned ==
  ASSUME NEW S, NEW M, NEW d, Sound(d, S, M), NEW p \in Post, d.row[p].content PROVE p \in S
BY DEF Sound, HasSigned

LEMMA CreateStep ==
  ASSUME PostInv, NEW n \in Node, NEW p \in Post, CreatePost(n, p)
  PROVE  PostInv' /\ ContentStep /\ PostsStep
<1> DEFINE d == db[n]
           i == InsertPost(d, p)
           e == Pooled(i, "subblock", p)
<1>1. /\ Sound(d, signed, misnamed) /\ d \in Tables /\ signed \subseteq Post /\ relayed \subseteq signed
      /\ signed' = signed \cup {p} /\ misnamed' = misnamed /\ misnamed \subseteq Post
  BY NodeSound DEF CreatePost
<1>2. Sound(d, signed', misnamed')
  BY <1>1, MoreSigned
<1>3. /\ Sound(i, signed', misnamed') /\ i.chain = d.chain
      /\ \A q \in Post : d.row[q].content => i.row[q].content
  BY <1>1, <1>2, InsertSound
<1>4. GoodStep(d, i, signed', misnamed, misnamed')
  BY <1>1, <1>3, SameChainKeepsPosts DEF GoodStep, KeepsContent
<1>5. ASSUME NEW t \in Tx
      PROVE  GoodStep(d, Pooled(e, "utxo_tx", t), signed', misnamed, misnamed')
  <2> HIDE DEF i, d
  <2>1. Sound(e, signed', misnamed') /\ e.chain = d.chain /\ e.row = i.row
    <3>1. [type |-> "subblock", of |-> p] \in PoolRow
      BY RowOfPost
    <3> QED BY <1>3, <3>1, PooledSound
  <2> DEFINE x == Pooled(e, "utxo_tx", t)
  <2>2. [type |-> "utxo_tx", of |-> t] \in PoolRow
    BY DEF PoolRow
  <2> HIDE DEF e
  <2>3. Sound(x, signed', misnamed') /\ x.chain = d.chain /\ x.row = i.row
    BY <2>1, <2>2, PooledSound
  <2> HIDE DEF x
  <2>4. GoodStep(d, x, signed', misnamed, misnamed')
    BY <1>1, <1>3, <2>3, SameChainKeepsPosts DEF GoodStep, KeepsContent
  <2> QED BY <2>4 DEF x
<1>6. /\ relayed' \subseteq signed'
      /\ \/ db' = [db EXCEPT ![n] = i]
         \/ \E t \in Tx : db' = [db EXCEPT ![n] = Pooled(e, "utxo_tx", t)]
  BY <1>1 DEF CreatePost
<1> HIDE DEF i, e
<1> QED BY <1>1, <1>4, <1>5, <1>6, OneNode

LEMMA TxStep ==
  ASSUME PostInv, NEW n \in Node, NEW t \in Tx, RelayTx(n, t)
  PROVE  PostInv' /\ ContentStep /\ PostsStep
<1> DEFINE d == db[n]
           e == Pooled(d, "utxo_tx", t)
<1>1. /\ Sound(d, signed, misnamed) /\ d \in Tables /\ signed \subseteq Post /\ relayed \subseteq signed
      /\ signed' = signed /\ relayed' = relayed /\ misnamed' = misnamed /\ misnamed \subseteq Post
      /\ db' = [db EXCEPT ![n] = e]
  BY NodeSound DEF RelayTx
<1>2. [type |-> "utxo_tx", of |-> t] \in PoolRow
  BY DEF PoolRow
<1> HIDE DEF d
<1>3. Sound(e, signed, misnamed) /\ e.chain = d.chain /\ e.row = d.row
  BY <1>1, <1>2, PooledSound
<1> HIDE DEF e
<1>4. GoodStep(d, e, signed', misnamed, misnamed')
  BY <1>1, <1>3, SameChainKeepsPosts DEF GoodStep, KeepsContent
<1> QED BY <1>1, <1>4, OneNode DEF d

LEMMA RelayStep ==
  ASSUME PostInv, NEW n \in Node, NEW p \in Post, RelaySubBlock(n, p)
  PROVE  PostInv' /\ ContentStep /\ PostsStep
<1> DEFINE d == db[n]
           i == InsertPost(d, p)
           e == Pooled(i, "subblock", p)
<1>1. /\ Sound(d, signed, misnamed) /\ d \in Tables /\ signed \subseteq Post /\ relayed \subseteq signed
      /\ signed' = signed /\ relayed' = relayed /\ p \in signed
      /\ misnamed' = misnamed /\ misnamed \subseteq Post
      /\ db' = [db EXCEPT ![n] = e]
  BY NodeSound DEF RelaySubBlock
<1>2. /\ Sound(i, signed, misnamed) /\ i.chain = d.chain
      /\ \A q \in Post : d.row[q].content => i.row[q].content
  BY <1>1, InsertSound
<1> HIDE DEF i, d
<1>3. Sound(e, signed, misnamed) /\ e.chain = d.chain /\ e.row = i.row
  <2>1. [type |-> "subblock", of |-> p] \in PoolRow
    BY RowOfPost
  <2> QED BY <1>2, <2>1, PooledSound
<1> HIDE DEF e
<1>4. GoodStep(d, e, signed', misnamed, misnamed')
  BY <1>1, <1>2, <1>3, SameChainKeepsPosts DEF GoodStep, KeepsContent
<1> QED BY <1>1, <1>4, OneNode DEF d

LEMMA SweepStep ==
  ASSUME PostInv, NEW n \in Node, NEW p \in Post, SweepPost(n, p)
  PROVE  PostInv' /\ ContentStep /\ PostsStep
<1> DEFINE d == db[n]
           i == InsertPost(d, p)
<1>1. /\ Sound(d, signed, misnamed) /\ d \in Tables /\ signed \subseteq Post /\ relayed \subseteq signed
      /\ signed' = signed /\ relayed' = relayed /\ misnamed' = misnamed /\ misnamed \subseteq Post
      /\ db' = [db EXCEPT ![n] = i]
  BY NodeSound DEF SweepPost
<1>2. p \in signed
  <2>1. PICK m \in Node : db[m].row[p].content
    BY DEF SweepPost, Live
  <2> QED BY <2>1, NodeSound, HasContentIsSigned
<1>3. /\ Sound(i, signed, misnamed) /\ i.chain = d.chain
      /\ \A q \in Post : d.row[q].content => i.row[q].content
  BY <1>1, <1>2, InsertSound
<1>4. GoodStep(d, i, signed', misnamed, misnamed')
  BY <1>1, <1>3, SameChainKeepsPosts DEF GoodStep, KeepsContent
<1> HIDE DEF i
<1> QED BY <1>1, <1>4, OneNode

LEMMA RequestStep ==
  ASSUME PostInv, NEW n \in Node, NEW r \in Post, RequestPrune(n, r)
  PROVE  PostInv' /\ ContentStep /\ PostsStep
<1> DEFINE d == db[n]
           ids == Subtree(r, Rows(d))
           e == Pooled(d, "prune", [root |-> r, ids |-> ids])
<1>1. /\ Sound(d, signed, misnamed) /\ d \in Tables /\ signed \subseteq Post /\ relayed \subseteq signed
      /\ signed' = signed /\ relayed' = relayed /\ misnamed' = misnamed /\ misnamed \subseteq Post
      /\ db' = [db EXCEPT ![n] = e]
  BY NodeSound DEF RequestPrune
<1>2. [type |-> "prune", of |-> [root |-> r, ids |-> ids]] \in PoolRow
  <2>1. ids \in SUBSET Post
    <3>1. Rows(d) \subseteq Post
      BY DEF Rows
    <3> HIDE DEF d
    <3> QED BY <3>1 DEF Subtree
  <2> HIDE DEF ids
  <2> QED BY <2>1 DEF PoolRow, Prune
<1> HIDE DEF d, ids
<1>3. Sound(e, signed, misnamed) /\ e.chain = d.chain /\ e.row = d.row
  BY <1>1, <1>2, PooledSound
<1> HIDE DEF e
<1>4. GoodStep(d, e, signed', misnamed, misnamed')
  BY <1>1, <1>3, SameChainKeepsPosts DEF GoodStep, KeepsContent
<1> QED BY <1>1, <1>4, OneNode DEF d

LEMMA TemplateTyped ==
  ASSUME PostInv, NEW n \in Node PROVE Bodies(n) \subseteq Block
<1> DEFINE d == db[n]
           At(type) == {i \in DOMAIN d.pool : d.pool[i].type = type}
           subs == {i \in At("subblock") : GetPost(d, d.pool[i].of) = "post"}
           txs  == {i \in At("utxo_tx") : /\ d.pool[i].of \notin Spent(d.chain)
                                          /\ \A j \in 1 .. i - 1 : d.pool[j] # d.pool[i]}
           ps == {d.pool[i].of : i \in subs}
           es == [p \in ps |-> IF d.row[p].content THEN Author[p] ELSE Zero]
           refs == Picked(d.pool, subs)
           ts == Picked(d.pool, txs)
           prs == Picked(d.pool, At("prune"))
<1>1. d.pool \in Seq(PoolRow)
  BY NodeSound DEF Tables
<1>2. \A i \in DOMAIN d.pool : d.pool[i] \in PoolRow
  BY <1>1
<1>3. /\ \A i \in subs : d.pool[i].of \in Post
      /\ \A i \in txs : d.pool[i].of \in Tx
      /\ \A i \in At("prune") : d.pool[i].of \in Prune
  BY <1>2 DEF PoolRow
<1>4. Template(n) = [by |-> n, refs |-> refs, txs |-> ts, prunes |-> prs, entries |-> es]
  BY DEF Template
<1>5. refs \in Seq(Post) /\ ts \in Seq(Tx) /\ prs \in Seq(Prune)
  <2>1. subs \subseteq DOMAIN d.pool /\ txs \subseteq DOMAIN d.pool /\ At("prune") \subseteq DOMAIN d.pool
    OBVIOUS
  <2> HIDE DEF subs, txs, At, d
  <2> QED BY <1>1, <1>3, <2>1, PickedIs
<1>6. ps \subseteq Post
  BY <1>3
<1> HIDE DEF refs, ts, prs, ps
<1>7. es \in [ps -> User \cup {Zero}]
  BY <1>6, PostAssumption
<1> HIDE DEF es
<1>8. es \in UNION {[S -> User \cup {Zero}] : S \in SUBSET Post}
  BY <1>6, <1>7
<1>9. Template(n) \in Block
  BY <1>4, <1>5, <1>8 DEF Block
<1>10. ASSUME NEW r \in [DOMAIN Template(n).refs -> Post]
       PROVE  [Template(n) EXCEPT !.refs = r] \in Block
  <2>1. DOMAIN Template(n).refs = 1 .. Len(refs) /\ Len(refs) \in Nat
    BY <1>4, <1>5
  <2>2. r \in Seq(Post)
    BY <2>1
  <2> QED BY <1>9, <2>2 DEF Block
<1> QED BY <1>9, <1>10 DEF Bodies

LEMMA ProduceStep ==
  ASSUME PostInv, NEW n \in Node, Produce(n)
  PROVE  PostInv' /\ ContentStep /\ PostsStep
<1> DEFINE d == db[n]
           pool1 == Without(d.pool, {i \in DOMAIN d.pool : d.pool[i].type = "prune"})
           x == [d EXCEPT !.pool = pool1]
<1>1. PICK b \in Bodies(n) :
        /\ Len(x.chain) < MaxHeight
        /\ db' = [db EXCEPT ![n] = [IF Accepts(x, b) THEN Apply(x, b) ELSE x EXCEPT !.pool = << >>]]
        /\ misnamed' = misnamed \cup (IF Accepts(x, b) THEN OneSided(b) ELSE {})
  BY DEF Produce
<1> DEFINE y == IF Accepts(x, b) THEN Apply(x, b) ELSE x
           e == [y EXCEPT !.pool = << >>]
<1>2. /\ Sound(d, signed, misnamed) /\ d \in Tables /\ signed \subseteq Post /\ relayed \subseteq signed
      /\ signed' = signed /\ relayed' = relayed /\ db' = [db EXCEPT ![n] = e]
      /\ misnamed \subseteq misnamed' /\ misnamed \subseteq Post
  BY <1>1, NodeSound DEF Produce
<1>3. pool1 \in Seq(PoolRow) /\ Len(pool1) <= PoolCap
  <2> DEFINE I == {i \in DOMAIN d.pool : d.pool[i].type = "prune"}
  <2>1. d.pool \in Seq(PoolRow) /\ Len(d.pool) <= PoolCap /\ PoolCap \in Nat
    BY <1>2, PostAssumption DEF Tables, Sound
  <2> HIDE DEF d, I
  <2>2. Without(d.pool, I) \in Seq(PoolRow) /\ Len(Without(d.pool, I)) <= Len(d.pool)
    BY <2>1, WithoutIs DEF LeftOf
  <2> DEFINE q == Without(d.pool, I)
  <2> HIDE DEF q
  <2>3. q \in Seq(PoolRow) /\ Len(q) <= PoolCap
    BY <2>1, <2>2 DEF q
  <2> QED BY <2>3 DEF q, I, d
<1> HIDE DEF pool1
<1>4. /\ x \in Tables /\ x.row = d.row /\ x.topo = d.topo /\ x.chain = d.chain
      /\ x.pool = pool1
  BY <1>2, <1>3 DEF Tables
<1>5. b \in Block /\ Len(d.chain) < MaxHeight
  BY <1>1, <1>4, TemplateTyped
<1> HIDE DEF x, d
<1>6. Sound(x, signed, misnamed)
  BY <1>2, <1>3, <1>4, PoolsSound
<1>7. OneSided(b) \subseteq Post
  <2>1. DOMAIN b.entries \subseteq Post /\ b.refs \in Seq(Post)
    BY <1>5, BlockTyped
  <2> QED BY <2>1 DEF OneSided, Members
<1>8. PoolCap \in Nat /\ Len(<< >>) = 0 /\ << >> \in Seq(PoolRow)
  BY PostAssumption
<1>9. CASE Accepts(x, b)
  <2>1. y = Apply(x, b) /\ Extends(x, b, y)
    BY <1>4, <1>5, <1>9, ApplyExtends
  <2> HIDE DEF y
  <2>2. Sound(x, signed, misnamed') /\ OneSided(b) \subseteq misnamed' /\ misnamed' \subseteq Post
    BY <1>1, <1>2, <1>6, <1>7, <1>9, MoreSigned
  <2>3. Sound(y, signed, misnamed')
    BY <1>4, <1>5, <2>1, <2>2, ExtendSound
  <2>4. /\ e \in Tables /\ e.row = y.row /\ e.topo = y.topo /\ e.chain = y.chain
        /\ e.pool = << >>
    BY <1>8, <2>3 DEF Sound, Tables
  <2> HIDE DEF e
  <2>5. Sound(e, signed, misnamed')
    BY <1>8, <2>3, <2>4, PoolsSound
  <2>6. KeepsContent(d, e)
    BY <1>4, <2>1, <2>4 DEF KeepsContent, Extends
  <2>7. KeepsPosts(d, e, misnamed)
    <3>1. d.chain \in Seq(Block) /\ e.chain = Append(d.chain, b)
      BY <1>2, <1>4, <2>1, <2>4 DEF Extends, Tables
    <3>2. /\ e.chain \in Seq(Block) /\ Len(d.chain) <= Len(e.chain)
          /\ \A i \in 1 .. Len(d.chain) : d.chain[i] = e.chain[i]
      BY <1>5, <3>1
    <3> QED BY <3>1, <3>2, GrownKeepsPosts
  <2> QED BY <1>2, <2>2, <2>5, <2>6, <2>7, OneNode DEF GoodStep, d
<1>10. CASE ~Accepts(x, b)
  <2>1. y = x /\ misnamed' = misnamed
    BY <1>1, <1>10
  <2> HIDE DEF y
  <2>2. /\ e \in Tables /\ e.row = d.row /\ e.topo = d.topo /\ e.chain = d.chain
        /\ e.pool = << >>
    BY <1>4, <1>8, <2>1 DEF Tables
  <2> HIDE DEF e
  <2>3. Sound(e, signed, misnamed)
    BY <1>2, <1>8, <2>2, PoolsSound
  <2>4. GoodStep(d, e, signed', misnamed, misnamed')
    BY <1>2, <2>1, <2>2, <2>3, SameChainKeepsPosts DEF GoodStep, KeepsContent
  <2> QED BY <1>2, <2>1, <2>4, OneNode DEF d
<1> QED BY <1>9, <1>10

LEMMA ReceiveStep ==
  ASSUME PostInv, NEW n \in Node, NEW m \in Node, ReceiveBlock(n, m)
  PROVE  PostInv' /\ ContentStep /\ PostsStep
<1> DEFINE d == db[n]
           c == db[m].chain
           h == Len(d.chain)
           b == c[h + 1]
           e == Apply(d, b)
<1>1. /\ Sound(d, signed, misnamed) /\ d \in Tables /\ signed \subseteq Post /\ relayed \subseteq signed
      /\ signed' = signed /\ relayed' = relayed /\ misnamed' = misnamed /\ misnamed \subseteq Post
      /\ db' = [db EXCEPT ![n] = e]
      /\ h < Len(c) /\ d.chain \in Seq(Block)
  BY NodeSound DEF ReceiveBlock, Tables
<1>2. c \in Seq(Block) /\ Len(c) <= MaxHeight
  BY NodeSound, PostAssumption DEF Tables, Sound, Rooted
<1>3. b \in Block /\ h < MaxHeight
  BY <1>1, <1>2, PostAssumption
<1> HIDE DEF b
<1>4. Extends(d, b, e)
  BY <1>1, <1>3, ApplyExtends
<1> HIDE DEF e
<1>5. Sound(e, signed, misnamed)
  <2>1. OneSided(b) \subseteq misnamed
    <3>1. h + 1 \in DOMAIN c
      BY <1>1, <1>2
    <3> QED BY <3>1, NodeSound DEF b, Sound, Sides
  <2> QED BY <1>1, <1>3, <1>4, <2>1, ExtendSound
<1>6. KeepsContent(d, e)
  BY <1>4 DEF Extends, KeepsContent
<1>7. KeepsPosts(d, e, misnamed)
  <2>1. /\ e.chain \in Seq(Block) /\ Len(d.chain) <= Len(e.chain)
        /\ \A i \in 1 .. Len(d.chain) : d.chain[i] = e.chain[i]
    BY <1>1, <1>3, <1>4 DEF Extends
  <2> QED BY <1>1, <2>1, GrownKeepsPosts
<1> QED BY <1>1, <1>5, <1>6, <1>7, OneNode DEF GoodStep

-----------------------------------------------------------------------------
(* A reorg *)

(* g is the recursive function of Downwards                                    *)
Lining(parts, f, l, g) ==
  g = [h \in f .. l |-> IF h = l THEN << >> ELSE g[h + 1] \o parts[h + 1]]

Lines(parts, f, l) == CHOOSE g : Lining(parts, f, l, g)

LEMMA DownwardsChosen ==
  ASSUME NEW parts, NEW f, NEW l PROVE Downwards(parts, f, l) = Lines(parts, f, l)[f]
BY DEF Downwards, Lines, Lining

LEMMA LiningExists ==
  ASSUME NEW parts, NEW f \in Nat, NEW l \in Nat, f <= l
  PROVE  Lining(parts, f, l, Lines(parts, f, l))
<1> DEFINE Bad == {k \in Nat : k <= l /\ ~\E g : Lining(parts, l - k, l, g)}
<1>1. Bad = {}
  <2> SUFFICES ASSUME Bad # {} PROVE FALSE
    OBVIOUS
  <2>1. PICK k \in Bad : \A j \in Bad : k <= j
    <3>1. Bad \subseteq Nat
      OBVIOUS
    <3> HIDE DEF Bad
    <3> QED BY <3>1, LeastIn
  <2>2. k \in Nat /\ k <= l /\ ~\E g : Lining(parts, l - k, l, g)
    BY <2>1
  <2>3. CASE k = 0
    <3> DEFINE g == [h \in l .. l |-> << >>]
    <3>1. \A h \in l .. l : h = l
      OBVIOUS
    <3>2. g = [h \in l .. l |-> IF h = l THEN << >> ELSE g[h + 1] \o parts[h + 1]]
      BY <3>1
    <3>3. l - k = l
      BY <2>3
    <3> HIDE DEF g
    <3> QED BY <2>2, <3>2, <3>3 DEF Lining
  <2>4. CASE k # 0
    <3> DEFINE a == l - k
    <3>1. a \in Nat /\ a < l /\ k - 1 \in Nat /\ k - 1 <= l /\ l - (k - 1) = a + 1 /\ ~(k <= k - 1)
      BY <2>2, <2>4
    <3>2. k - 1 \notin Bad
      BY <2>1, <3>1
    <3>3. PICK g : Lining(parts, a + 1, l, g)
      BY <3>1, <3>2
    <3> DEFINE Step(x, h) == x[h + 1] \o parts[h + 1]
               k2 == [h \in a .. l |-> IF h = a THEN Step(g, h) ELSE g[h]]
    <3>4. ASSUME NEW h \in a .. l
          PROVE  k2[h] = IF h = l THEN << >> ELSE Step(k2, h)
      <4>1. \A i \in a + 1 .. l : g[i] = IF i = l THEN << >> ELSE Step(g, i)
        BY <3>3 DEF Lining
      <4>2. h = a => h # l /\ h + 1 \in a .. l /\ h + 1 # a
        BY <3>1
      <4>3. h # a => h \in a + 1 .. l
        BY <3>1
      <4>4. h # l => h + 1 \in a .. l /\ h + 1 # a
        BY <3>1
      <4> HIDE DEF a
      <4> QED BY <4>1, <4>2, <4>3, <4>4
    <3>5. k2 = [h \in a .. l |-> IF h = l THEN << >> ELSE Step(k2, h)]
      <4>1. k2 = [h \in a .. l |-> k2[h]]
        OBVIOUS
      <4> HIDE DEF k2, a, Step
      <4> QED BY <3>4, <4>1
    <3> HIDE DEF k2
    <3> QED BY <2>2, <3>5 DEF Lining
  <2> QED BY <2>3, <2>4
<1>2. l - f \in Nat /\ l - f <= l /\ l - (l - f) = f
  OBVIOUS
<1>3. \E g : Lining(parts, f, l, g)
  BY <1>1, <1>2
<1> QED BY <1>3 DEF Lines

Has(q, r) == \E j \in DOMAIN q : q[j] = r

LEMMA HasEither ==
  ASSUME NEW R, NEW q1 \in Seq(R), NEW q2 \in Seq(R)
  PROVE  /\ q1 \o q2 \in Seq(R) /\ Len(q1 \o q2) = Len(q1) + Len(q2)
         /\ \A r : Has(q1, r) \/ Has(q2, r) => Has(q1 \o q2, r)
<1> DEFINE q == q1 \o q2
<1>1. /\ q \in Seq(R) /\ Len(q) = Len(q1) + Len(q2) /\ Len(q1) \in Nat /\ Len(q2) \in Nat
      /\ DOMAIN q = 1 .. Len(q1) + Len(q2) /\ DOMAIN q1 = 1 .. Len(q1) /\ DOMAIN q2 = 1 .. Len(q2)
  OBVIOUS
<1>2. \A i \in DOMAIN q1 : i \in DOMAIN q /\ q[i] = q1[i]
  BY <1>1
<1>3. \A i \in DOMAIN q2 : Len(q1) + i \in DOMAIN q /\ q[Len(q1) + i] = q2[i]
  BY <1>1
<1> HIDE DEF q
<1>4. \A r : Has(q1, r) \/ Has(q2, r) => Has(q, r)
  BY <1>2, <1>3 DEF Has
<1> QED BY <1>1, <1>4 DEF q

(* The parts in one line, from the last down to the one after f                *)
LEMMA DownwardsHolds ==
  ASSUME NEW R, NEW parts, NEW f \in Nat, NEW l \in Nat, f <= l,
         \A h \in f + 1 .. l : parts[h] \in Seq(R)
  PROVE  /\ Downwards(parts, f, l) \in Seq(R)
         /\ \A h \in f + 1 .. l : \A r : Has(parts[h], r) => Has(Downwards(parts, f, l), r)
<1> DEFINE at == Lines(parts, f, l)
           Good(h) == /\ at[h] \in Seq(R)
                      /\ \A i \in h + 1 .. l : \A r : Has(parts[i], r) => Has(at[h], r)
           Bad == {k \in Nat : k <= l - f /\ ~Good(l - k)}
<1>1. \A h \in f .. l : at[h] = IF h = l THEN << >> ELSE at[h + 1] \o parts[h + 1]
  <2>1. Lining(parts, f, l, at)
    BY LiningExists
  <2> HIDE DEF at
  <2> QED BY <2>1 DEF Lining
<1> HIDE DEF at
<1>2. Bad = {}
  <2> SUFFICES ASSUME Bad # {} PROVE FALSE
    OBVIOUS
  <2>1. PICK k \in Bad : \A j \in Bad : k <= j
    <3>1. Bad \subseteq Nat
      OBVIOUS
    <3> HIDE DEF Bad
    <3> QED BY <3>1, LeastIn
  <2> DEFINE h == l - k
  <2>2. k \in Nat /\ h \in f .. l /\ h \in Nat /\ ~Good(h)
    BY <2>1
  <2>3. CASE k = 0
    <3>1. h = l /\ at[h] = << >> /\ \A i \in h + 1 .. l : FALSE
      BY <1>1, <2>2, <2>3
    <3> QED BY <2>2, <3>1
  <2>4. CASE k # 0
    <3>1. /\ k - 1 \in Nat /\ k - 1 <= l - f /\ l - (k - 1) = h + 1 /\ ~(k <= k - 1)
          /\ h # l /\ h + 1 \in f + 1 .. l /\ h + 1 .. l = {h + 1} \cup (h + 1 + 1 .. l)
      BY <2>2, <2>4
    <3>2. k - 1 \notin Bad
      BY <2>1, <3>1
    <3>3. Good(h + 1)
      <4> HIDE DEF Good, h
      <4> QED BY <3>1, <3>2
    <3>4. at[h] = at[h + 1] \o parts[h + 1]
      <4> HIDE DEF h
      <4> QED BY <1>1, <2>2, <3>1
    <3> HIDE DEF h, Bad
    <3> DEFINE q1 == at[h + 1]
               q2 == parts[h + 1]
    <3>5. q1 \in Seq(R) /\ q2 \in Seq(R)
      BY <3>1, <3>3
    <3>6. \A i \in h + 1 + 1 .. l : \A r : Has(parts[i], r) => Has(q1, r)
      BY <3>3
    <3> HIDE DEF q1, q2
    <3>7. /\ q1 \o q2 \in Seq(R)
          /\ \A r : Has(q1, r) \/ Has(q2, r) => Has(q1 \o q2, r)
      BY <3>5, HasEither
    <3>8. \A i \in h + 1 .. l : \A r : Has(parts[i], r) => Has(q1 \o q2, r)
      BY <3>1, <3>6, <3>7, Zenon DEF q2
    <3>9. at[h] = q1 \o q2
      BY <3>4 DEF q1, q2
    <3> QED BY <2>2, <3>7, <3>8, <3>9
  <2> QED BY <2>3, <2>4
<1>3. l - f \in Nat /\ l - (l - f) = f /\ l - f <= l - f
  OBVIOUS
<1>4. Good(l - (l - f))
  <2> HIDE DEF Good
  <2> QED BY <1>2, <1>3
<1>5. Good(f)
  <2> HIDE DEF Good
  <2> QED BY <1>3, <1>4
<1> QED BY <1>5, DownwardsChosen DEF at

LEMMA ReinsertedHolds ==
  ASSUME NEW pool \in Seq(PoolRow), Len(pool) <= PoolCap, NEW rows \in Seq(PoolRow)
  PROVE  /\ Reinserted(pool, rows) \in Seq(PoolRow) /\ Len(Reinserted(pool, rows)) <= PoolCap
         /\ \A r : Has(pool, r) => Has(Reinserted(pool, rows), r)
         /\ Len(pool) + Len(rows) <= PoolCap =>
              \A r : Has(rows, r) => Has(Reinserted(pool, rows), r)
<1> DEFINE room == PoolCap - Len(pool)
           n == IF Len(rows) <= room THEN Len(rows) ELSE room
           q == SubSeq(rows, 1, n)
<1>1. Len(pool) \in Nat /\ Len(rows) \in Nat /\ PoolCap \in Nat
  BY PostAssumption
<1>2. n \in Nat /\ n <= Len(rows) /\ Len(pool) + n <= PoolCap
      /\ (Len(pool) + Len(rows) <= PoolCap => n = Len(rows))
  BY <1>1
<1>3. Reinserted(pool, rows) = pool \o q
  BY DEF Reinserted
<1> HIDE DEF n
<1>4. q \in Seq(PoolRow) /\ Len(q) = n
  BY <1>1, <1>2
<1>5. n = Len(rows) => q = rows
  BY <1>1
<1> HIDE DEF q
<1>6. /\ pool \o q \in Seq(PoolRow) /\ Len(pool \o q) = Len(pool) + Len(q)
      /\ \A r : Has(pool, r) \/ Has(q, r) => Has(pool \o q, r)
  BY <1>4, HasEither
<1>7. Len(pool \o q) <= PoolCap
  BY <1>2, <1>4, <1>6
<1> QED BY <1>2, <1>3, <1>5, <1>6, <1>7

(* What reorg makes of the pool: within the cap, and with every post of the     *)
(* reverted refs if they and the transactions fit                              *)
LEMMA RefilledHolds ==
  ASSUME NEW pool \in Seq(PoolRow), Len(pool) <= PoolCap, NEW c \in Seq(Block),
         NEW f \in Nat, f <= Len(c)
  PROVE  /\ Refilled(pool, c, f) \in Seq(PoolRow) /\ Len(Refilled(pool, c, f)) <= PoolCap
         /\ Len(pool) + Len(Thrown(c, f)) <= PoolCap =>
              \A h \in f + 1 .. Len(c) : \A p \in Members(c[h].refs) : Holds(Refilled(pool, c, f), p)
<1> DEFINE Sub(p) == [type |-> "subblock", of |-> p]
           Rs(h) == PoolRows("subblock", c[h].refs)
           Ts(h) == PoolRows("utxo_tx", c[h].txs)
           Ps(h) == PoolRows("prune", c[h].prunes)
           parts == [h \in DOMAIN c |-> Ts(h) \o Rs(h)]
           prs == [h \in DOMAIN c |-> Ps(h)]
           q == Reinserted(pool, Thrown(c, f))
           es == ThrownPrunes(c, f)
           I == {i \in DOMAIN q : q[i] \in Members(es)}
           q2 == Without(q, I)
<1>1. /\ Len(c) \in Nat /\ DOMAIN c = 1 .. Len(c) /\ \A h \in f + 1 .. Len(c) : h \in DOMAIN c
  OBVIOUS
<1>2. ASSUME NEW h \in DOMAIN c
      PROVE  /\ Ts(h) \in Seq(PoolRow) /\ Rs(h) \in Seq(PoolRow) /\ Ps(h) \in Seq(PoolRow)
             /\ \A p \in Members(c[h].refs) : Has(Rs(h), Sub(p))
             /\ \A i \in DOMAIN Ps(h) : Ps(h)[i].type = "prune"
  <2>1. c[h].refs \in Seq(Post) /\ c[h].txs \in Seq(Tx) /\ c[h].prunes \in Seq(Prune)
    <3>1. c[h] \in Block
      OBVIOUS
    <3> QED BY <3>1, BlockTyped
  <2>2. /\ \A x \in Post : [type |-> "subblock", of |-> x] \in PoolRow
        /\ \A x \in Tx : [type |-> "utxo_tx", of |-> x] \in PoolRow
        /\ \A x \in Prune : [type |-> "prune", of |-> x] \in PoolRow
    BY DEF PoolRow
  <2>3. Ts(h) \in Seq(PoolRow) /\ Rs(h) \in Seq(PoolRow) /\ Ps(h) \in Seq(PoolRow)
    BY <2>1, <2>2, PoolRowsAre
  <2>4. \A p \in Members(c[h].refs) : Has(Rs(h), Sub(p))
    BY <2>1, <2>2, PoolRowsAre DEF Has
  <2>5. \A i \in DOMAIN Ps(h) : Ps(h)[i].type = "prune"
    BY DEF PoolRows
  <2> QED BY <2>3, <2>4, <2>5
<1> HIDE DEF Rs, Ts, Ps
<1>3. ASSUME NEW h \in DOMAIN c
      PROVE  /\ parts[h] \in Seq(PoolRow) /\ \A p \in Members(c[h].refs) : Has(parts[h], Sub(p))
             /\ prs[h] \in Seq({r \in PoolRow : r.type = "prune"})
  <2>1. parts[h] = Ts(h) \o Rs(h) /\ prs[h] = Ps(h)
    OBVIOUS
  <2>2. /\ Ts(h) \o Rs(h) \in Seq(PoolRow)
        /\ \A r : Has(Ts(h), r) \/ Has(Rs(h), r) => Has(Ts(h) \o Rs(h), r)
    BY <1>2, HasEither
  <2>3. Ps(h) \in Seq({r \in PoolRow : r.type = "prune"})
    <3>1. Ps(h) \in Seq(PoolRow) /\ \A i \in DOMAIN Ps(h) : Ps(h)[i].type = "prune"
      BY <1>2
    <3> QED BY <3>1
  <2> QED BY <1>2, <2>1, <2>2, <2>3
<1>4. Thrown(c, f) = Downwards(parts, f, Len(c)) /\ es = Downwards(prs, f, Len(c))
  BY DEF Thrown, ThrownPrunes, Rs, Ts, Ps
<1> HIDE DEF parts, prs, es
<1>5. /\ Thrown(c, f) \in Seq(PoolRow)
      /\ \A h \in f + 1 .. Len(c) : \A r : Has(parts[h], r) => Has(Thrown(c, f), r)
  <2>1. \A h \in f + 1 .. Len(c) : parts[h] \in Seq(PoolRow)
    BY <1>1, <1>3
  <2> QED BY <1>1, <1>4, <2>1, DownwardsHolds
<1>6. es \in Seq({r \in PoolRow : r.type = "prune"})
  <2>1. \A h \in f + 1 .. Len(c) : prs[h] \in Seq({r \in PoolRow : r.type = "prune"})
    BY <1>1, <1>3
  <2> QED BY <1>1, <1>4, <2>1, DownwardsHolds
<1>7. /\ q \in Seq(PoolRow) /\ Len(q) <= PoolCap
      /\ Len(pool) + Len(Thrown(c, f)) <= PoolCap => \A r : Has(Thrown(c, f), r) => Has(q, r)
  BY <1>5, ReinsertedHolds
<1> HIDE DEF q
<1>8. \A r \in Members(es) : r.type = "prune"
  <2>1. \A i \in DOMAIN es : es[i] \in {r \in PoolRow : r.type = "prune"}
    BY <1>6
  <2> QED BY <2>1 DEF Members
<1>9. /\ q2 \in Seq(PoolRow) /\ Len(q2) <= Len(q)
      /\ \A p : Has(q, Sub(p)) => Has(q2, Sub(p))
  <2>1. /\ q2 \in Seq(PoolRow) /\ Len(q2) <= Len(q)
        /\ \A r : (\E i \in DOMAIN q2 : q2[i] = r) <=> \E i \in DOMAIN q : i \notin I /\ q[i] = r
    <3> HIDE DEF I
    <3>1. LeftOf(PoolRow, q, I, q2)
      BY <1>7, WithoutIs
    <3> HIDE DEF q2
    <3> QED BY <3>1, Zenon DEF LeftOf
  <2>2. ASSUME NEW p, Has(q, Sub(p)) PROVE Has(q2, Sub(p))
    <3>1. PICK i \in DOMAIN q : q[i] = Sub(p)
      BY <2>2 DEF Has
    <3>2. i \notin I
      BY <1>8, <3>1
    <3> HIDE DEF q2, I, Sub
    <3> QED BY <2>1, <3>1, <3>2 DEF Has
  <2> QED BY <2>1, <2>2
<1> HIDE DEF q2
<1>10. Len(q2) <= PoolCap /\ es \in Seq(PoolRow)
  <2>1. Len(q2) \in Nat /\ Len(q) \in Nat /\ PoolCap \in Nat
    BY <1>7, <1>9, PostAssumption
  <2>2. es \in Seq(PoolRow)
    BY <1>6
  <2> QED BY <1>7, <1>9, <2>1, <2>2
<1>11. Refilled(pool, c, f) = Reinserted(q2, es)
  BY DEF Refilled, q2, q, es
<1>12. /\ Reinserted(q2, es) \in Seq(PoolRow) /\ Len(Reinserted(q2, es)) <= PoolCap
       /\ \A r : Has(q2, r) => Has(Reinserted(q2, es), r)
  BY <1>9, <1>10, ReinsertedHolds
<1>13. ASSUME Len(pool) + Len(Thrown(c, f)) <= PoolCap,
              NEW h \in f + 1 .. Len(c), NEW p \in Members(c[h].refs)
       PROVE  Holds(Reinserted(q2, es), p)
  <2>1. Has(parts[h], Sub(p))
    BY <1>1, <1>3
  <2> HIDE DEF Sub
  <2>2. Has(Reinserted(q2, es), Sub(p))
    BY <1>5, <1>7, <1>9, <1>12, <1>13, <2>1
  <2> QED BY <2>2 DEF Has, Holds, Sub
<1> QED BY <1>11, <1>12, <1>13

(* A reorg cuts both chains above a block they share: the first one, if no      *)
(* other.                                                                     *)
LEMMA ReorgStep ==
  ASSUME PostInv, NEW n \in Node, NEW m \in Node, Reorg(n, m)
  PROVE  PostInv' /\ ContentStep /\ PostsStep
<1> DEFINE d == db[n]
           c == db[m].chain
           f == Fork(d.chain, c)
           L == Len(d.chain)
           r == RevertedTo(d, f)
           pool == Refilled(r.pool, d.chain, f)
           e == [r EXCEPT !.pool = pool]
           a == Applied(e, c, f)
<1>1. /\ Sound(d, signed, misnamed) /\ d \in Tables /\ signed \subseteq Post /\ relayed \subseteq signed
      /\ d.chain \in Seq(Block) /\ d.chain[1] = Genesis /\ L \in 1 .. MaxHeight
      /\ misnamed \subseteq Post
  BY NodeSound DEF Sound, Tables, Rooted
<1>2. /\ c \in Seq(Block) /\ c[1] = Genesis /\ Len(c) \in 1 .. MaxHeight /\ Len(c) <= MaxHeight
      /\ \A g \in DOMAIN c : OneSided(c[g]) \subseteq misnamed
  BY NodeSound, PostAssumption DEF Tables, Sound, Rooted, Sides
<1>3. /\ Len(c) > L /\ f < L /\ signed' = signed /\ relayed' = relayed /\ misnamed' = misnamed
      /\ a # None /\ db' = [db EXCEPT ![n] = a]
  BY DEF Reorg
<1>4. Forks(d.chain, c, f)
  BY <1>1, <1>2, ForkExists
<1> HIDE DEF f, r, pool
<1>5. f \in Nat /\ f >= 1 /\ f <= L /\ f <= Len(c) /\ SubSeq(d.chain, 1, f) = SubSeq(c, 1, f)
  <2>1. f \in Nat /\ f <= L /\ f <= Len(c) /\ SubSeq(d.chain, 1, f) = SubSeq(c, 1, f)
    BY <1>1, <1>2, <1>4 DEF Forks
  <2>2. f # 0
    <3> SUFFICES ASSUME f = 0 PROVE FALSE
      OBVIOUS
    <3>1. L \in Nat /\ 0 < L /\ 0 < Len(c) /\ Len(c) \in Nat
      BY <1>1, <1>2
    <3>2. d.chain[0 + 1] # c[0 + 1]
      BY <1>4, <3>1 DEF Forks
    <3> QED BY <1>1, <1>2, <3>2
  <2> QED BY <2>1, <2>2
<1>6. Sound(r, signed, misnamed) /\ Cut(d, f, r)
  BY <1>1, <1>5, RevertedSound DEF r
<1>7. /\ pool \in Seq(PoolRow) /\ Len(pool) <= PoolCap
      /\ Len(d.pool) + Len(Thrown(d.chain, f)) <= PoolCap =>
           \A h \in f + 1 .. L : \A p \in Members(d.chain[h].refs) : Holds(pool, p)
  <2>1. r.pool \in Seq(PoolRow) /\ Len(r.pool) <= PoolCap /\ r.pool = d.pool
    BY <1>6 DEF Sound, Tables, Cut
  <2> QED BY <1>1, <1>5, <2>1, RefilledHolds DEF pool
<1>8. /\ e \in Tables /\ e.row = r.row /\ e.topo = r.topo /\ e.chain = r.chain /\ e.pool = pool
  BY <1>6, <1>7 DEF Sound, Tables
<1> HIDE DEF e
<1>9. Sound(e, signed, misnamed)
  BY <1>6, <1>7, <1>8, PoolsSound
<1>10. e.chain = SubSeq(c, 1, f)
  BY <1>5, <1>6, <1>8 DEF Cut
<1>11. Sound(a, signed, misnamed) /\ Grown(e, c, Len(c), a, misnamed)
  BY <1>2, <1>3, <1>5, <1>9, <1>10, AppliedSound
<1> HIDE DEF a, d, c
<1>12. KeepsContent(d, a)
  BY <1>6, <1>8, <1>11 DEF KeepsContent, Cut, Grown
<1>13. KeepsPosts(d, a, misnamed)
  <2>1. a.chain = c
    BY <1>2, <1>11 DEF Grown
  <2>2. Fork(d.chain, a.chain) = f
    BY <2>1 DEF f
  <2>3. ASSUME Len(d.pool) + Len(Thrown(d.chain, f)) <= PoolCap,
               NEW h \in f + 1 .. L, NEW p \in Members(d.chain[h].refs)
        PROVE  p \in Listed(a.chain) \cup PostsIn(a.pool) \cup misnamed
    <3>1. p \in Post
      <4>1. d.chain[h] \in Block
        BY <1>1, <1>5 DEF L
      <4>2. d.chain[h].refs \in Seq(Post)
        BY <4>1, BlockTyped
      <4> QED BY <4>2 DEF Members
    <3>2. Holds(e.pool, p)
      BY <1>7, <1>8, <2>3
    <3>3. p \in misnamed \/ Holds(a.pool, p) \/ p \in Listed(a.chain)
      BY <1>11, <2>1, <3>1, <3>2 DEF Grown
    <3> QED BY <3>3, HoldsIsIn
  <2> QED BY <2>2, <2>3 DEF KeepsPosts
<1>14. GoodStep(d, a, signed', misnamed, misnamed')
  BY <1>3, <1>11, <1>12, <1>13 DEF GoodStep
<1> QED BY <1>1, <1>3, <1>14, OneNode DEF d, a

-----------------------------------------------------------------------------
(* The invariant *)

LEMMA StartsGood == Init => PostInv
<1> SUFFICES ASSUME Init PROVE PostInv
  OBVIOUS
<1> DEFINE d == [row |-> [p \in Post |-> [content |-> FALSE, status |-> "absent"]],
                 topo |-> [p \in Post |-> None],
                 stumps |-> {}, pool |-> << >>, chain |-> <<Genesis>>]
<1>1. signed = {} /\ relayed = {} /\ misnamed = {} /\ db = [n \in Node |-> d]
  BY DEF Init
<1>2. Genesis \in Block /\ DOMAIN Genesis.entries = {} /\ OneSided(Genesis) = {}
  <2>1. [p \in {} |-> Zero] \in [{} -> User \cup {Zero}]
    OBVIOUS
  <2>2. [p \in {} |-> Zero] \in UNION {[S -> User \cup {Zero}] : S \in SUBSET Post}
    BY <2>1
  <2>3. Genesis \in Block
    BY <2>2 DEF Genesis, Block
  <2>4. OneSided(Genesis) = {}
    BY DEF Genesis, OneSided, Members
  <2> QED BY <2>3, <2>4 DEF Genesis
<1>3. d \in Tables
  <2>1. [p \in Post |-> [content |-> FALSE, status |-> "absent"]] \in [Post -> Row]
    BY DEF Row
  <2>2. <<Genesis>> \in Seq(Block)
    BY <1>2
  <2> HIDE DEF Genesis
  <2> QED BY <2>1, <2>2 DEF Tables
<1>4. /\ d.chain = <<Genesis>> /\ d.pool = << >>
      /\ \A p \in Post : /\ d.row[p].content = FALSE /\ d.row[p].status = "absent"
                         /\ d.topo[p] = None
  OBVIOUS
<1> HIDE DEF d
<1>5. Listed(d.chain) = {}
  <2>1. DOMAIN d.chain = {1} /\ d.chain[1] = Genesis
    BY <1>4
  <2> QED BY <1>2, <2>1 DEF Listed
<1>6. Sound(d, {}, {})
  <2>1. Rooted(d)
    BY <1>4, PostAssumption DEF Rooted
  <2>2. Rows(d) = {} /\ HasRows(d) /\ HasSigned(d, {}) /\ Confirms(d, {})
    BY <1>4, <1>5 DEF Rows, HasRows, HasSigned, Confirms
  <2>3. Records(d)
    BY <1>4, <1>5 DEF Records, FirstEntry
  <2>4. Sides(d, {})
    BY <1>2, <1>4 DEF Sides
  <2>5. Len(d.pool) <= PoolCap
    BY <1>4, PostAssumption
  <2> QED BY <1>3, <2>1, <2>2, <2>3, <2>4, <2>5 DEF Sound
<1> QED BY <1>1, <1>3, <1>6 DEF PostInv

LEMMA StepsGood ==
  PostInv /\ [Next]_vars => PostInv' /\ ContentStep /\ PostsStep
<1> SUFFICES ASSUME PostInv, [Next]_vars PROVE PostInv' /\ ContentStep /\ PostsStep
  OBVIOUS
<1>1. ASSUME NEW n \in Node, NEW p \in Post, CreatePost(n, p)
      PROVE  PostInv' /\ ContentStep /\ PostsStep
  BY <1>1, CreateStep
<1>2. ASSUME NEW n \in Node, NEW p \in Post, RelaySubBlock(n, p)
      PROVE  PostInv' /\ ContentStep /\ PostsStep
  BY <1>2, RelayStep
<1>3. ASSUME NEW n \in Node, NEW p \in Post, SweepPost(n, p)
      PROVE  PostInv' /\ ContentStep /\ PostsStep
  BY <1>3, SweepStep
<1>4. ASSUME NEW n \in Node, NEW p \in Post, RequestPrune(n, p)
      PROVE  PostInv' /\ ContentStep /\ PostsStep
  BY <1>4, RequestStep
<1>5. ASSUME NEW n \in Node, Produce(n)
      PROVE  PostInv' /\ ContentStep /\ PostsStep
  BY <1>5, ProduceStep
<1>6. ASSUME NEW n \in Node, NEW m \in Node, ReceiveBlock(n, m)
      PROVE  PostInv' /\ ContentStep /\ PostsStep
  BY <1>6, ReceiveStep
<1>7. ASSUME NEW n \in Node, NEW m \in Node, Reorg(n, m)
      PROVE  PostInv' /\ ContentStep /\ PostsStep
  BY <1>7, ReorgStep
<1>9. ASSUME NEW n \in Node, NEW t \in Tx, RelayTx(n, t)
      PROVE  PostInv' /\ ContentStep /\ PostsStep
  BY <1>9, TxStep
<1>8. CASE UNCHANGED vars
  <2>1. PostInv'
    BY <1>8 DEF vars, PostInv, Sound, Rooted, HasRows, HasSigned, Confirms, Records, Sides, Rows
  <2>2. \A n \in Node : GoodStep(db[n], db'[n], signed, misnamed, misnamed)
    BY <1>8, NodeSound, NoStep DEF vars
  <2> QED BY <2>1, <2>2 DEF ContentStep, PostsStep, GoodStep
<1> QED BY <1>1, <1>2, <1>3, <1>4, <1>5, <1>6, <1>7, <1>8, <1>9 DEF Next

(* PostInv holds of every node of every behaviour.                             *)
THEOREM PostInvHolds == Spec => []PostInv
BY StartsGood, StepsGood, PTL DEF Spec

-----------------------------------------------------------------------------
(* The theorems *)

(* The tables have their types, the mempool keeps its cap through every insert   *)
(* and reorg, and no node holds content that was not signed (posts.ts,          *)
(* mempool.ts).                                                               *)
THEOREM PostsTypeCorrect == Spec => []TypeOK
BY PostInvHolds, PostInvImplies, PTL

(* block_topology is a function of the chain alone: for each post the author    *)
(* and height of the first block that lists it, after any sequence of blocks,   *)
(* duplicate listings, reverts and reorgs (topology.ts).                       *)
THEOREM TopologyFollows == Spec => []TopologyOfChain
BY PostInvHolds, PostInvImplies, PTL

(* A post whose status is "confirmed" is listed by the node's present chain,    *)
(* whatever the producers put in their refs, or some block had it in its        *)
(* entries and not in its refs (confirmPost, unconfirmPost).                   *)
THEOREM ConfirmedFollows == Spec => []ConfirmedIsListed
BY PostInvHolds, PostInvImplies, PTL

(* No handler, block or reorg drops the content of a post a node has            *)
(* (insertPost, insertPostPlaceholder, revertBlock).                           *)
THEOREM ContentStays == Spec => ContentKept
<1>1. PostInv /\ [Next]_vars
      => [\A n \in Node, p \in Post : db[n].row[p].content => db'[n].row[p].content]_vars
  BY StepsGood DEF ContentStep, KeepsContent
<1> QED BY <1>1, PostInvHolds, PTL DEF Spec, ContentKept

(* Whatever the fork and however many blocks are thrown back, a post their refs  *)
(* name is listed by the new chain or pooled again, when the pool has room for   *)
(* all of them and the transactions that go in with them (reorg, phase 2).      *)
THEOREM ReorgsKeepPosts == Spec => ReorgKeepsPosts
<1>1. PostInv /\ [Next]_vars
      => [\A n \in Node :
            LET c    == db[n].chain
                f    == Fork(c, db'[n].chain)
                back == UNION {Members(c[h].refs) : h \in f + 1 .. Len(c)}
            IN  Len(db[n].pool) + Len(Thrown(c, f)) <= PoolCap =>
                  back \subseteq Listed(db'[n].chain) \cup PostsIn(db'[n].pool) \cup misnamed]_vars
  BY StepsGood DEF PostsStep, KeepsPosts
<1> QED BY <1>1, PostInvHolds, PTL DEF Spec, ReorgKeepsPosts

=============================================================================
