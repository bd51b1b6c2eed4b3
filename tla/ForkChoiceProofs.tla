-------------------------- MODULE ForkChoiceProofs --------------------------
(***************************************************************************)
(* What fork choice keeps, for any number of nodes, handlers and blocks:    *)
(* reorgs are bounded, and while a peer answers with the blocks it           *)
(* announced, nodes follow HeaviestChain.                                    *)
(*                                                                         *)
(* A waiting handler acts on what it learned before its awaits.  That this   *)
(* is harmless rests on its fork point being near the height it remembers,   *)
(* and on the peer's chain never becoming shorter than the announced tip.    *)
(***************************************************************************)
EXTENDS ForkChoice, SequenceTheorems, TLAPS

(* b and all its ancestors are blocks of M. *)
Good(b, M) ==
  /\ b \in Seq(Node) /\ Len(b) <= MaxHeight
  /\ \A h \in 1 .. Len(b) : Prefix(b, h) \in M

(* What a waiting handler remembers fits together. *)
Sound(r) ==
  /\ r \in AskedHeaders \cup AskedBlocks \cup {None}
  /\ r # None /\ r.stage = "blocks" =>
       r.fork <= r.height /\ r.height < r.top /\ r.height < r.fork + MaxReorgDepth

(* Of the chains c, that of the peer asked for blocks has as many as announced. *)
Kept(r, c) ==
  ~LostBodies /\ r # None /\ r.stage = "blocks" => r.top <= Len(c[r.peer])

(* Whoever announced the blocks asked for had a chain of mined ones that high.  *)
Announced(r, M) ==
  r # None /\ r.stage = "blocks" => \E b \in M : r.top <= Len(b)

Inv ==
  /\ chain \in [Node -> Seq(Node)]
  /\ run \in [Node -> [Slot -> AskedHeaders \cup AskedBlocks \cup {None}]]
  /\ \A n \in Node : Good(chain[n], mined)
  /\ \A b \in mined : b # << >> /\ Good(b, mined)
  /\ \A n \in Node, s \in Slot :
       Sound(run[n][s]) /\ Kept(run[n][s], chain) /\ Announced(run[n][s], mined)

-----------------------------------------------------------------------------
(* Prefixes of chains *)

(* A prefix has the length asked for and the blocks of the chain. *)
LEMMA PrefixProperties ==
  ASSUME NEW b \in Seq(Node), NEW h \in 0 .. Len(b)
  PROVE  /\ Prefix(b, h) \in Seq(Node) /\ Len(Prefix(b, h)) = h
         /\ \A i \in 1 .. h : Prefix(b, h)[i] = b[i]
<1>1. Len(b) \in Nat
  BY LenProperties
<1>2. \A i \in 1 .. h : b[i] \in Node
  BY <1>1, ElementOfSeq
<1>3. /\ SubSeq(b, 1, h) \in Seq(Node)
      /\ Len(SubSeq(b, 1, h)) = IF 1 <= h THEN h - 1 + 1 ELSE 0
      /\ \A i \in 1 .. h - 1 + 1 : SubSeq(b, 1, h)[i] = b[1 + i - 1]
  BY <1>1, <1>2, SubSeqProperties
<1> QED
  BY <1>1, <1>3 DEF Prefix

(* A prefix of a prefix is a prefix. *)
LEMMA PrefixOfPrefix ==
  ASSUME NEW b \in Seq(Node), NEW h \in 0 .. Len(b), NEW g \in 0 .. h
  PROVE  Prefix(Prefix(b, h), g) = Prefix(b, g)
<1>1. Len(b) \in Nat
  BY LenProperties
<1>2. /\ Prefix(b, h) \in Seq(Node) /\ Len(Prefix(b, h)) = h
      /\ \A i \in 1 .. h : Prefix(b, h)[i] = b[i]
  BY PrefixProperties
<1>3. g \in 0 .. Len(b) /\ g \in 0 .. Len(Prefix(b, h))
  BY <1>1, <1>2
<1>4. /\ Prefix(b, g) \in Seq(Node) /\ Len(Prefix(b, g)) = g
      /\ \A i \in 1 .. g : Prefix(b, g)[i] = b[i]
  BY <1>3, PrefixProperties
<1>5. /\ Prefix(Prefix(b, h), g) \in Seq(Node) /\ Len(Prefix(Prefix(b, h), g)) = g
      /\ \A i \in 1 .. g : Prefix(Prefix(b, h), g)[i] = Prefix(b, h)[i]
  BY <1>2, <1>3, PrefixProperties
<1>6. \A i \in 1 .. g : Prefix(Prefix(b, h), g)[i] = Prefix(b, g)[i]
  BY <1>2, <1>4, <1>5
<1> QED
  BY <1>4, <1>5, <1>6, SeqEqual

(* The whole chain is a prefix of itself. *)
LEMMA PrefixFull ==
  ASSUME NEW b \in Seq(Node)
  PROVE  Prefix(b, Len(b)) = b /\ Len(b) \in 0 .. Len(b)
BY SubSeqFull, LenProperties DEF Prefix

(* Mining leaves the prefixes of a chain alone. *)
LEMMA PrefixOfAppend ==
  ASSUME NEW b \in Seq(Node), NEW n \in Node, NEW h \in 0 .. Len(b)
  PROVE  /\ Append(b, n) \in Seq(Node) /\ Len(Append(b, n)) = Len(b) + 1
         /\ Prefix(Append(b, n), h) = Prefix(b, h)
<1>1. Len(b) \in Nat
  BY LenProperties
<1>2. /\ Append(b, n) \in Seq(Node) /\ Len(Append(b, n)) = Len(b) + 1
      /\ \A i \in 1 .. Len(b) : Append(b, n)[i] = b[i]
  BY <1>1
<1>3. h \in 0 .. Len(Append(b, n))
  BY <1>1, <1>2
<1>4. /\ Prefix(b, h) \in Seq(Node) /\ Len(Prefix(b, h)) = h
      /\ \A i \in 1 .. h : Prefix(b, h)[i] = b[i]
  BY PrefixProperties
<1>5. /\ Prefix(Append(b, n), h) \in Seq(Node) /\ Len(Prefix(Append(b, n), h)) = h
      /\ \A i \in 1 .. h : Prefix(Append(b, n), h)[i] = Append(b, n)[i]
  BY <1>2, <1>3, PrefixProperties
<1>6. \A i \in 1 .. h : Prefix(Append(b, n), h)[i] = Prefix(b, h)[i]
  BY <1>1, <1>2, <1>4, <1>5
<1> QED
  BY <1>2, <1>4, <1>5, <1>6, SeqEqual

(* Prefixes of a chain of mined blocks are chains of mined blocks. *)
LEMMA GoodPrefix ==
  ASSUME NEW b, NEW M, Good(b, M), NEW h \in 0 .. Len(b)
  PROVE  Good(Prefix(b, h), M) /\ Len(Prefix(b, h)) = h
<1>1. b \in Seq(Node) /\ Len(b) \in Nat
  BY LenProperties DEF Good
<1>2. Prefix(b, h) \in Seq(Node) /\ Len(Prefix(b, h)) = h
  BY <1>1, PrefixProperties
<1>3. \A g \in 1 .. h : Prefix(Prefix(b, h), g) = Prefix(b, g)
  BY <1>1, PrefixOfPrefix
<1>4. \A g \in 1 .. h : Prefix(b, g) \in M
  BY <1>1 DEF Good
<1> QED
  BY <1>1, <1>2, <1>3, <1>4, BoundsAssumption DEF Good

(* A chain of mined blocks stays one when more is mined. *)
LEMMA GoodMonotonic ==
  ASSUME NEW b, NEW M, NEW L, M \subseteq L, Good(b, M)
  PROVE  Good(b, L)
BY DEF Good

(* The chain a miner makes is a chain of mined blocks. *)
LEMMA GoodAppend ==
  ASSUME NEW b, NEW M, Good(b, M), Len(b) < MaxHeight, NEW n \in Node
  PROVE  Good(Append(b, n), M \cup {Append(b, n)}) /\ Append(b, n) # << >>
<1>1. b \in Seq(Node) /\ Len(b) \in Nat
  BY LenProperties DEF Good
<1>2. /\ Append(b, n) \in Seq(Node) /\ Len(Append(b, n)) = Len(b) + 1
      /\ \A h \in 0 .. Len(b) : Prefix(Append(b, n), h) = Prefix(b, h)
  BY <1>1, PrefixOfAppend
<1>3. Prefix(Append(b, n), Len(b) + 1) = Append(b, n)
  BY <1>2, PrefixFull
<1>4. ASSUME NEW h \in 1 .. Len(b) + 1
      PROVE  Prefix(Append(b, n), h) \in M \cup {Append(b, n)}
  <2>1. CASE h = Len(b) + 1
    BY <2>1, <1>3
  <2>2. CASE h \in 1 .. Len(b)
    BY <2>2, <1>1, <1>2 DEF Good
  <2> QED
    BY <2>1, <2>2, <1>1
<1>5. Append(b, n) # << >>
  BY <1>1, <1>2, EmptySeq
<1> QED
  BY <1>1, <1>2, <1>4, <1>5, BoundsAssumption DEF Good

(* What a reorg makes of two chains of mined blocks is one of them up to some  *)
(* height: as long as asked for, or ours, or ours up to the fork.             *)
LEMMA ReorganisedGood ==
  ASSUME NEW ours, NEW theirs, NEW M, Good(ours, M), Good(theirs, M),
         NEW fork \in 0 .. Len(ours), NEW upTo \in Nat,
         upTo <= fork \/ upTo <= Len(theirs)
  PROVE  LET c == Reorganised(ours, theirs, fork, upTo)
         IN  /\ Good(c, M)
             /\ upTo > fork => c = ours \/ Len(c) = upTo
             /\ c # ours => fork <= Len(c) /\ Prefix(c, fork) = Prefix(ours, fork)
<1> DEFINE c == Reorganised(ours, theirs, fork, upTo)
<1>1. /\ ours \in Seq(Node) /\ theirs \in Seq(Node)
      /\ Len(ours) \in Nat /\ Len(theirs) \in Nat
  BY LenProperties DEF Good
<1>2. CASE upTo <= fork
  <2>1. c = Prefix(ours, fork)
    BY <1>2 DEF Reorganised
  <2>2. Good(c, M) /\ Len(c) = fork
    BY <2>1, GoodPrefix
  <2>3. Prefix(c, fork) = Prefix(ours, fork)
    BY <2>1, <1>1, PrefixOfPrefix
  <2> QED
    BY <2>2, <2>3, <1>1, <1>2
<1>3. CASE upTo > fork /\ Prefix(theirs, fork) = Prefix(ours, fork)
  <2>1. c = Prefix(theirs, upTo) /\ upTo \in 0 .. Len(theirs) /\ fork \in 0 .. upTo
    BY <1>3, <1>1 DEF Reorganised
  <2>2. Good(c, M) /\ Len(c) = upTo
    BY <2>1, GoodPrefix
  <2>3. Prefix(c, fork) = Prefix(theirs, fork)
    BY <2>1, <1>1, PrefixOfPrefix
  <2> QED
    BY <2>1, <2>2, <2>3, <1>1, <1>3
<1>4. CASE upTo > fork /\ Prefix(theirs, fork) # Prefix(ours, fork)
  <2>1. c = ours
    BY <1>4, <1>1 DEF Reorganised
  <2> QED
    BY <2>1, <1>1, <1>4
<1> QED
  BY <1>1, <1>2, <1>3, <1>4

-----------------------------------------------------------------------------
(* The invariant *)

(* A step that gives one node another chain of mined blocks, and ends runs. *)
LEMMA NewTip ==
  ASSUME Inv, NEW n \in Node, NEW c,
         chain' = [chain EXCEPT ![n] = c], mined \subseteq mined',
         Good(c, mined'), \A b \in mined' : b # << >> /\ Good(b, mined'),
         ~LostBodies => Len(c) >= Len(chain[n]),
         run' \in [Node -> [Slot -> AskedHeaders \cup AskedBlocks \cup {None}]],
         \A m \in Node, s \in Slot : run'[m][s] = run[m][s] \/ run'[m][s] = None
  PROVE  Inv'
<1>1. c \in Seq(Node) /\ Len(c) \in Nat
  BY LenProperties DEF Good
<1>2. chain' \in [Node -> Seq(Node)]
  BY <1>1 DEF Inv
<1>3. ASSUME NEW m \in Node
      PROVE  Good(chain'[m], mined')
  <2>1. CASE m = n
    BY <2>1 DEF Inv
  <2>2. CASE m # n
    <3>1. chain'[m] = chain[m] /\ Good(chain[m], mined)
      BY <2>2 DEF Inv
    <3> QED
      BY <3>1, GoodMonotonic
  <2> QED
    BY <2>1, <2>2
<1>4. ASSUME NEW m \in Node, ~LostBodies
      PROVE  Len(chain'[m]) \in Nat /\ Len(chain[m]) \in Nat
               /\ Len(chain'[m]) >= Len(chain[m])
  <2>1. chain[m] \in Seq(Node) /\ Len(chain[m]) \in Nat
    BY LenProperties DEF Inv
  <2>2. chain'[m] = IF m = n THEN c ELSE chain[m]
    BY DEF Inv
  <2> QED
    BY <2>1, <2>2, <1>1, <1>4
<1>5. ASSUME NEW m \in Node, NEW s \in Slot
      PROVE  Sound(run'[m][s]) /\ Kept(run'[m][s], chain') /\ Announced(run'[m][s], mined')
  <2>1. CASE run'[m][s] = None
    BY <2>1 DEF Sound, Kept, Announced
  <2>2. CASE run'[m][s] = run[m][s]
    <3> DEFINE r == run[m][s]
    <3>1. Sound(r) /\ Kept(r, chain) /\ Announced(r, mined)
      BY DEF Inv
    <3>2. ASSUME ~LostBodies, r # None, r.stage = "blocks"
          PROVE  r.top <= Len(chain'[r.peer])
      <4>1. r \in AskedBlocks
        BY <3>1, <3>2 DEF Sound, AskedHeaders
      <4>2. r.peer \in Node /\ r.top \in Nat
        BY <4>1, BoundsAssumption DEF AskedBlocks, Heights
      <4>3. r.top <= Len(chain[r.peer])
        BY <3>1, <3>2 DEF Kept
      <4> QED
        BY <4>2, <4>3, <3>2, <1>4
    <3>3. Announced(r, mined')
      BY <3>1 DEF Announced
    <3> QED
      BY <2>2, <3>1, <3>2, <3>3 DEF Kept
  <2> QED
    BY <2>1, <2>2
<1> QED
  BY <1>2, <1>3, <1>5 DEF Inv

(* A step that leaves the chains alone and puts sound runs into slots. *)
LEMMA NewRun ==
  ASSUME Inv, UNCHANGED <<chain, mined>>,
         run' \in [Node -> [Slot -> AskedHeaders \cup AskedBlocks \cup {None}]],
         \A m \in Node, s \in Slot :
           \/ run'[m][s] = run[m][s]
           \/ Sound(run'[m][s]) /\ Kept(run'[m][s], chain) /\ Announced(run'[m][s], mined)
  PROVE  Inv'
BY DEF Inv, Kept, Good, Sound, Announced

(* The chains start empty. *)
LEMMA InitInv == Init => Inv
<1> SUFFICES ASSUME Init PROVE Inv
  OBVIOUS
<1>1. << >> \in Seq(Node) /\ Len(<< >>) = 0
  BY EmptySeq
<1>2. Good(<< >>, mined)
  BY <1>1, BoundsAssumption DEF Good
<1> QED
  BY <1>1, <1>2 DEF Init, Inv, Sound, Kept, Announced

(* A node's chain has its length among the heights. *)
LEMMA TipHeight ==
  ASSUME Inv, NEW n \in Node
  PROVE  /\ chain[n] \in Seq(Node) /\ Good(chain[n], mined)
         /\ Height(n) = Len(chain[n]) /\ Height(n) \in Heights
BY LenProperties, BoundsAssumption DEF Inv, Good, Height, Heights

(* A block on our tip makes our chain one longer. *)
LEMMA OnTip ==
  ASSUME Inv, NEW n \in Node, NEW b \in mined, Parent(b) = chain[n]
  PROVE  /\ Good(b, mined) /\ Len(b) = Len(chain[n]) + 1
         /\ Prefix(b, Len(chain[n])) = chain[n]
<1>1. Good(b, mined) /\ b # << >>
  BY DEF Inv
<1>2. b \in Seq(Node) /\ Len(b) \in Nat \ {0}
  BY <1>1, EmptySeq DEF Good
<1>3. Len(b) - 1 \in 0 .. Len(b)
  BY <1>2
<1>4. Len(Prefix(b, Len(b) - 1)) = Len(b) - 1
  BY <1>2, <1>3, PrefixProperties
<1> QED
  BY <1>1, <1>2, <1>4 DEF Parent

(* The blocks that arrive turn our chain into another chain of mined blocks    *)
(* that has ours up to less than MaxReorgDepth below the tip; a longer one,   *)
(* unless bodies get lost, and even then a longer one was mined.              *)
LEMMA Arrival ==
  ASSUME Inv, NEW n \in Node, NEW s \in Slot, BlocksArrive(n, s)
  PROVE  \E c :
           /\ chain' = [chain EXCEPT ![n] = c] /\ Good(c, mined)
           /\ ~LostBodies => c = chain[n] \/ Len(c) > Len(chain[n])
           /\ c = chain[n] \/
                \E f \in Heights : /\ f <= Len(chain[n]) /\ f <= Len(c)
                                   /\ Prefix(c, f) = Prefix(chain[n], f)
                                   /\ Len(chain[n]) < f + MaxReorgDepth
           /\ c = chain[n] \/ \E b \in mined : Len(b) > Len(chain[n])
<1> DEFINE r == run[n][s]
           theirs == chain[r.peer]
<1>1. r # None /\ r.stage = "blocks" /\ Sound(r) /\ Kept(r, chain) /\ Announced(r, mined)
  BY DEF BlocksArrive, Inv
<1>2. r \in AskedBlocks
  BY <1>1 DEF Sound, AskedHeaders
<1>3. r.peer \in Node /\ r.top \in Heights /\ r.height \in Heights /\ r.fork \in Heights
  BY <1>2 DEF AskedBlocks
<1>4. r.fork <= r.height /\ r.height < r.top /\ r.height < r.fork + MaxReorgDepth
  BY <1>1 DEF Sound
<1>5. /\ chain[n] \in Seq(Node) /\ Good(chain[n], mined) /\ Len(chain[n]) \in Heights
      /\ Height(n) = Len(chain[n])
      /\ theirs \in Seq(Node) /\ Good(theirs, mined) /\ Len(theirs) \in Heights
  BY <1>3, TipHeight DEF Height
<1>6. \A h \in Heights : h \in Nat
  BY BoundsAssumption DEF Heights
<1>7. PICK upTo \in Answers(r.fork, Least(r.top, Len(theirs))) :
        chain' = [chain EXCEPT ![n] =
                    IF Height(n) = r.height
                    THEN Reorganised(chain[n], theirs, r.fork, upTo) ELSE chain[n]]
  BY DEF BlocksArrive
<1>8. /\ upTo \in Nat
      /\ upTo = r.fork \/ upTo = Least(r.top, Len(theirs))
      /\ upTo <= r.fork \/ upTo <= Len(theirs)
      /\ ~LostBodies => upTo = r.top
  <2>1. r.fork \in Nat /\ r.top \in Nat /\ Len(theirs) \in Nat
    BY <1>3, <1>5, <1>6
  <2>2. /\ upTo = r.fork \/ upTo = Least(r.top, Len(theirs))
        /\ ~LostBodies => upTo = Least(r.top, Len(theirs))
    BY <1>7 DEF Answers
  <2>3. ~LostBodies => r.top <= Len(theirs)
    BY <1>1 DEF Kept
  <2> HIDE DEF r, theirs
  <2> QED BY <2>1, <2>2, <2>3 DEF Least
<1>9. CASE Height(n) # r.height
  BY <1>5, <1>7, <1>9
<1>10. CASE Height(n) = r.height
  <2> DEFINE c == Reorganised(chain[n], theirs, r.fork, upTo)
  <2>1. chain' = [chain EXCEPT ![n] = c]
    BY <1>7, <1>10
  <2>2. r.fork \in 0 .. Len(chain[n])
    BY <1>3, <1>4, <1>5, <1>6, <1>10
  <2>3. /\ Good(c, mined)
        /\ upTo > r.fork => c = chain[n] \/ Len(c) = upTo
        /\ c # chain[n] => r.fork <= Len(c) /\ Prefix(c, r.fork) = Prefix(chain[n], r.fork)
    BY <2>2, <1>5, <1>8, ReorganisedGood
  <2>4. ~LostBodies => c = chain[n] \/ Len(c) > Len(chain[n])
    <3>1. /\ r.fork \in Nat /\ r.top \in Nat /\ Len(chain[n]) = r.height
          /\ r.fork <= r.height /\ r.height < r.top /\ r.height \in Nat
      BY <1>3, <1>4, <1>5, <1>6, <1>10
    <3> HIDE DEF c, r
    <3> QED BY <2>3, <3>1, <1>8
  <2>5. r.fork <= Len(chain[n]) /\ Len(chain[n]) < r.fork + MaxReorgDepth
    BY <1>3, <1>4, <1>5, <1>6, <1>10
  <2>6. PICK b \in mined : r.top <= Len(b)
    BY <1>1 DEF Announced
  <2>7. Len(b) > Len(chain[n])
    <3>1. Len(b) \in Nat /\ r.top \in Nat /\ r.height \in Nat /\ r.height = Len(chain[n])
          /\ r.height < r.top
      BY <1>3, <1>4, <1>5, <1>6, <1>10, LenProperties DEF Inv, Good
    <3> HIDE DEF r
    <3> QED BY <2>6, <3>1
  <2> HIDE DEF c
  <2> QED
    BY <2>1, <2>3, <2>4, <2>5, <2>7, <1>3
<1> QED
  BY <1>9, <1>10

(* The headers that arrive lead to a sound run or to none. *)
LEMMA Headers ==
  ASSUME Inv, NEW n \in Node, NEW s \in Slot, HeadersArrive(n, s)
  PROVE  \E q : /\ run' = [run EXCEPT ![n][s] = q]
                /\ Sound(q) /\ Kept(q, chain) /\ Announced(q, mined)
<1> DEFINE r == run[n][s]
           theirs == chain[r.peer]
           tip == Least(r.top, Len(theirs))
           C == Common(chain[n], theirs, r.height, tip)
<1>1. r # None /\ r.stage = "headers" /\ r \in AskedHeaders \cup AskedBlocks \cup {None}
  BY DEF HeadersArrive, Inv
<1>2. r \in AskedHeaders
  BY <1>1 DEF AskedBlocks
<1>3. r.peer \in Node /\ r.top \in Heights /\ r.height \in Heights
  BY <1>2 DEF AskedHeaders
<1>4. Len(theirs) \in Heights
  BY <1>3, TipHeight DEF Height
<1>5. tip \in Heights /\ tip <= Len(theirs)
  <2>1. r.top \in 0 .. MaxHeight /\ Len(theirs) \in 0 .. MaxHeight /\ MaxHeight \in Nat
    BY <1>3, <1>4, BoundsAssumption DEF Heights
  <2> HIDE DEF r, theirs
  <2> QED BY <2>1 DEF Least, Heights
<1>6. CASE run' = [run EXCEPT ![n][s] = None]
  BY <1>6 DEF Sound, Kept, Announced
<1>7. CASE /\ tip > 0 /\ Heavier(tip, r.height)
           /\ \E f \in C : run' = [run EXCEPT ![n][s] =
                [stage |-> "blocks", peer |-> r.peer, top |-> tip,
                 height |-> r.height, fork |-> f]]
  <2>1. PICK f \in C : run' = [run EXCEPT ![n][s] =
                [stage |-> "blocks", peer |-> r.peer, top |-> tip,
                 height |-> r.height, fork |-> f]]
    BY <1>7
  <2> DEFINE q == [stage |-> "blocks", peer |-> r.peer, top |-> tip,
                   height |-> r.height, fork |-> f]
  <2>2. f \in 1 .. Least(r.height, tip) /\ f > r.height - MaxReorgDepth
    BY DEF Common
  <2>3. f \in Heights /\ f <= r.height /\ r.height < f + MaxReorgDepth
    <3>1. /\ r.height \in Nat /\ r.height <= MaxHeight /\ tip \in Nat
          /\ MaxReorgDepth \in Nat /\ MaxHeight \in Nat
      BY <1>3, <1>5, BoundsAssumption DEF Heights
    <3> HIDE DEF r, tip
    <3>2. f \in Nat /\ f <= r.height
      BY <2>2, <3>1 DEF Least
    <3> QED BY <2>2, <3>1, <3>2 DEF Heights
  <2>4. r.height < tip
    BY <1>7, <1>3, <1>5, BoundsAssumption DEF Heavier, Heights
  <2>5. q \in AskedBlocks
    BY <2>3, <1>3, <1>5 DEF AskedBlocks
  <2>6. Sound(q) /\ Kept(q, chain)
    BY <2>3, <2>4, <2>5, <1>5 DEF Sound, Kept
  <2>7. Announced(q, mined)
    <3>1. theirs \in Seq(Node) /\ Good(theirs, mined) /\ Len(theirs) \in Nat
      BY <1>3, TipHeight, LenProperties
    <3>2. tip \in Nat /\ tip > 0 /\ tip <= Len(theirs)
      BY <1>5, <1>7, BoundsAssumption DEF Heights
    <3>3. Len(theirs) \in 1 .. Len(theirs)
      BY <3>1, <3>2
    <3>4. theirs \in mined
      BY <3>1, <3>3, PrefixFull DEF Good
    <3>5. q.top = tip
      OBVIOUS
    <3> HIDE DEF q, theirs, tip
    <3> QED BY <3>2, <3>4, <3>5 DEF Announced
  <2> QED
    BY <2>1, <2>6, <2>7
<1> QED
  BY <1>6, <1>7 DEF HeadersArrive, Done

(* Every step keeps the invariant. *)
LEMMA NextInv == Inv /\ [Next]_vars => Inv'
<1> SUFFICES ASSUME Inv, [Next]_vars PROVE Inv'
  OBVIOUS
<1> DEFINE Runs == [Node -> [Slot -> AskedHeaders \cup AskedBlocks \cup {None}]]
<1>1. run \in Runs /\ \A b \in mined : b # << >> /\ Good(b, mined)
  BY DEF Inv
<1>2. CASE UNCHANGED vars
  BY <1>2, <1>1, NewRun DEF vars
<1>3. ASSUME NEW n \in Node, Step(n) PROVE Inv'
  <2>0. Good(chain[n], mined) /\ Len(chain[n]) \in Nat /\ Height(n) = Len(chain[n])
    BY TipHeight, LenProperties
  <2>1. CASE MineBlock(n)
    <3> DEFINE c == Append(chain[n], n)
    <3>1. /\ chain' = [chain EXCEPT ![n] = c] /\ mined' = mined \cup {c}
          /\ run' = run /\ Len(chain[n]) < MaxHeight
      BY <2>0, <2>1 DEF MineBlock
    <3>2. Good(c, mined') /\ c # << >>
      BY <2>0, <3>1, GoodAppend
    <3>3. Len(c) >= Len(chain[n])
      BY <2>0, TipHeight, PrefixOfAppend
    <3> HIDE DEF c
    <3>4. mined \subseteq mined'
      BY <3>1
    <3>5. \A b \in mined : Good(b, mined')
      BY <1>1, <3>4, GoodMonotonic
    <3>6. \A b \in mined' : b # << >> /\ Good(b, mined')
      BY <1>1, <3>1, <3>2, <3>5
    <3> QED
      BY <1>1, <3>1, <3>2, <3>3, <3>4, <3>6, NewTip
  <2>2. ASSUME NEW b \in mined, ApplyBlock(n, b) PROVE Inv'
    <3>1. /\ chain' = [chain EXCEPT ![n] = b] /\ mined' = mined /\ run' = run
          /\ Parent(b) = chain[n]
      BY <2>2 DEF ApplyBlock
    <3>2. Good(b, mined') /\ Len(b) >= Len(chain[n])
      BY <2>0, <3>1, OnTip
    <3>3. \A a \in mined' : a # << >> /\ Good(a, mined')
      BY <1>1, <3>1
    <3> QED
      BY <1>1, <3>1, <3>2, <3>3, NewTip
  <2>3. ASSUME NEW b \in mined, NEW p \in Node, NEW s \in Slot, AskHeaders(n, b, p, s)
        PROVE  Inv'
    <3> DEFINE q == [stage |-> "headers", peer |-> p, top |-> Len(b), height |-> Height(n)]
    <3>1. run' = [run EXCEPT ![n][s] = q] /\ UNCHANGED <<chain, mined>>
      BY <2>3 DEF AskHeaders
    <3>2. Len(b) \in Heights
      BY <1>1, LenProperties, BoundsAssumption DEF Good, Heights
    <3>3. q \in AskedHeaders
      BY <3>2, TipHeight DEF AskedHeaders
    <3>4. Sound(q) /\ Kept(q, chain) /\ Announced(q, mined)
      BY <3>3 DEF Sound, Kept, Announced
    <3> HIDE DEF q
    <3> QED
      BY <1>1, <3>1, <3>3, <3>4, NewRun
  <2>4. ASSUME NEW s \in Slot, HeadersArrive(n, s) PROVE Inv'
    <3>1. PICK q : /\ run' = [run EXCEPT ![n][s] = q]
                   /\ Sound(q) /\ Kept(q, chain) /\ Announced(q, mined)
      BY <2>4, Headers
    <3>2. q \in AskedHeaders \cup AskedBlocks \cup {None}
      BY <3>1 DEF Sound
    <3>3. UNCHANGED <<chain, mined>>
      BY <2>4 DEF HeadersArrive
    <3> QED
      BY <1>1, <3>1, <3>2, <3>3, NewRun
  <2>5. ASSUME NEW s \in Slot, RequestFails(n, s) PROVE Inv'
    <3>1. run' = [run EXCEPT ![n][s] = None] /\ UNCHANGED <<chain, mined>>
      BY <2>5 DEF RequestFails, Done
    <3> QED
      BY <1>1, <3>1, NewRun DEF Sound, Kept, Announced
  <2>6. ASSUME NEW s \in Slot, BlocksArrive(n, s) PROVE Inv'
    <3>1. PICK c : /\ chain' = [chain EXCEPT ![n] = c] /\ Good(c, mined)
                   /\ ~LostBodies => c = chain[n] \/ Len(c) > Len(chain[n])
      BY <2>6, Arrival
    <3>2. run' = [run EXCEPT ![n][s] = None] /\ mined' = mined
      BY <2>6 DEF BlocksArrive, Done
    <3>3. ~LostBodies => Len(c) >= Len(chain[n])
      BY <2>0, <3>1, LenProperties DEF Good
    <3> QED
      BY <1>1, <3>1, <3>2, <3>3, NewTip
  <2>7. CASE Restart(n)
    <3>1. run' = [run EXCEPT ![n] = [s \in Slot |-> None]] /\ UNCHANGED <<chain, mined>>
      BY <2>7 DEF Restart
    <3> QED
      BY <1>1, <3>1, NewRun DEF Sound, Kept, Announced
  <2> QED
    BY <1>3, <2>1, <2>2, <2>3, <2>4, <2>5, <2>6, <2>7 DEF Step
<1> QED
  BY <1>2, <1>3 DEF Next

(* The invariant holds throughout. *)
LEMMA Invariance == Spec => []Inv
BY InitInv, NextInv, PTL DEF Spec

-----------------------------------------------------------------------------
(* Theorems *)

(* Every reachable state is well typed, and a handler that asked for blocks was *)
(* promised a tip above the height it compared with.                          *)
THEOREM ForkTypeCorrect == Spec => []TypeOK
<1>1. Inv => TypeOK
  BY DEF Inv, TypeOK, Good, Sound
<1> QED
  BY <1>1, Invariance, PTL

(* What a step may do to a chain: leave it alone, mine on it, put a block of    *)
(* another node on it, or exchange it above a fork near its tip.              *)
LEMMA ChainStep ==
  ASSUME Inv, [Next]_vars
  PROVE  \/ UNCHANGED <<chain, mined>>
         \/ \E n \in Node : Heaviest!Mine(n)
         \/ \E n \in Node, b \in mined :
              /\ Parent(b) = chain[n] /\ chain' = [chain EXCEPT ![n] = b]
              /\ UNCHANGED mined
         \/ \E n \in Node, s \in Slot : BlocksArrive(n, s)
<1>1. ASSUME NEW n \in Node, MineBlock(n)
      PROVE  Heaviest!Mine(n)
  BY <1>1 DEF MineBlock, Height, Heaviest!Mine
<1>2. ASSUME NEW n \in Node, NEW b \in mined, ApplyBlock(n, b)
      PROVE  /\ Parent(b) = chain[n] /\ chain' = [chain EXCEPT ![n] = b]
             /\ UNCHANGED mined
  BY <1>2 DEF ApplyBlock
<1>3. ASSUME NEW n \in Node, NEW s \in Slot, HeadersArrive(n, s) \/ RequestFails(n, s)
      PROVE  UNCHANGED <<chain, mined>>
  BY <1>3 DEF HeadersArrive, RequestFails
<1>4. ASSUME NEW n \in Node, NEW b \in mined, NEW p \in Node, NEW s \in Slot,
             AskHeaders(n, b, p, s)
      PROVE  UNCHANGED <<chain, mined>>
  BY <1>4 DEF AskHeaders
<1>5. ASSUME NEW n \in Node, Restart(n) PROVE UNCHANGED <<chain, mined>>
  BY <1>5 DEF Restart
<1>6. CASE UNCHANGED vars
  BY <1>6 DEF vars
<1> QED
  BY <1>1, <1>2, <1>3, <1>4, <1>5, <1>6 DEF Next, Step

(* No reorg takes back MaxReorgDepth blocks or more, whatever has happened to   *)
(* the chain during the awaits and whichever blocks the peer has sent          *)
(* (findForkPoint, onOrderingBlock).                                          *)
THEOREM ReorgsBounded == Spec => ReorgBounded
<1> DEFINE Near(n) == \E h \in Heights :
             /\ h <= Height(n) /\ h <= Len(chain'[n])
             /\ Prefix(chain[n], h) = Prefix(chain'[n], h)
             /\ Height(n) - h < MaxReorgDepth
<1>1. ASSUME Inv, [Next]_vars, NEW n \in Node
      PROVE  Near(n)
  <2>1. /\ chain[n] \in Seq(Node) /\ Height(n) = Len(chain[n])
        /\ Len(chain[n]) \in Heights /\ Len(chain[n]) \in Nat
        /\ Prefix(chain[n], Len(chain[n])) = chain[n]
    BY <1>1, TipHeight, PrefixFull, LenProperties
  <2>2. Len(chain[n]) - Len(chain[n]) < MaxReorgDepth
    BY <2>1, BoundsAssumption
  <2>3. CASE chain'[n] = chain[n]
    BY <2>1, <2>2, <2>3
  <2>4. ASSUME NEW m \in Node, Heaviest!Mine(m) PROVE Near(n)
    <3>1. CASE m = n
      <4>1. chain'[n] = Append(chain[n], n)
        BY <1>1, <2>4, <3>1 DEF Heaviest!Mine, Inv
      <4>2. /\ Len(chain'[n]) = Len(chain[n]) + 1
            /\ Prefix(chain'[n], Len(chain[n])) = Prefix(chain[n], Len(chain[n]))
        BY <4>1, <2>1, PrefixOfAppend
      <4> QED
        BY <4>2, <2>1, <2>2
    <3>2. CASE m # n
      <4>1. chain'[n] = chain[n]
        BY <1>1, <2>4, <3>2 DEF Heaviest!Mine, Inv
      <4> QED
        BY <4>1, <2>3
    <3> QED
      BY <3>1, <3>2
  <2>5. ASSUME NEW m \in Node, NEW b \in mined, Parent(b) = chain[m],
               chain' = [chain EXCEPT ![m] = b]
        PROVE  Near(n)
    <3>1. CASE m = n
      <4>1. chain'[n] = b
        BY <1>1, <2>5, <3>1 DEF Inv
      <4>2. Len(b) = Len(chain[n]) + 1 /\ Prefix(b, Len(chain[n])) = chain[n]
        BY <1>1, <2>5, <3>1, OnTip
      <4> QED
        BY <4>1, <4>2, <2>1, <2>2
    <3>2. CASE m # n
      <4>1. chain'[n] = chain[n]
        BY <1>1, <2>5, <3>2 DEF Inv
      <4> QED
        BY <4>1, <2>3
    <3> QED
      BY <3>1, <3>2
  <2>6. ASSUME NEW m \in Node, NEW s \in Slot, BlocksArrive(m, s)
        PROVE  Near(n)
    <3>1. PICK c : /\ chain' = [chain EXCEPT ![m] = c]
                   /\ c = chain[m] \/
                        \E f \in Heights : /\ f <= Len(chain[m]) /\ f <= Len(c)
                                           /\ Prefix(c, f) = Prefix(chain[m], f)
                                           /\ Len(chain[m]) < f + MaxReorgDepth
      BY <1>1, <2>6, Arrival
    <3>2. CASE m # n \/ c = chain[m]
      <4>1. chain'[n] = chain[n]
        BY <1>1, <3>1, <3>2 DEF Inv
      <4> QED
        BY <4>1, <2>3
    <3>3. CASE m = n /\ c # chain[m]
      <4>1. chain'[n] = c
        BY <1>1, <3>1, <3>3 DEF Inv
      <4>2. PICK f \in Heights : /\ f <= Len(chain[n]) /\ f <= Len(c)
                                 /\ Prefix(c, f) = Prefix(chain[n], f)
                                 /\ Len(chain[n]) < f + MaxReorgDepth
        BY <3>1, <3>3
      <4>3. Len(chain[n]) - f < MaxReorgDepth
        BY <4>2, <2>1, BoundsAssumption DEF Heights
      <4> QED
        BY <4>1, <4>2, <4>3, <2>1
    <3> QED
      BY <3>2, <3>3
  <2> QED
    BY <1>1, <2>3, <2>4, <2>5, <2>6, ChainStep
<1>2. Inv /\ [Next]_vars => [\A n \in Node : Near(n)]_vars
  BY <1>1
<1>3. ReorgBounded <=> [][\A n \in Node : Near(n)]_vars
  BY PTL DEF ReorgBounded
<1> QED
  BY <1>2, <1>3, Invariance, PTL DEF Spec

(* Where answers hold what was announced, each step is one of HeaviestChain.      *)
LEMMA HeaviestStep ==
  ASSUME LostBodies = FALSE
  PROVE  Inv /\ [Next]_vars => [Heaviest!Next]_<<chain, mined>>
<1> SUFFICES ASSUME Inv, [Next]_vars PROVE [Heaviest!Next]_<<chain, mined>>
  OBVIOUS
<1>1. ASSUME NEW n \in Node, NEW c, Good(c, mined), Len(c) > Len(chain[n]),
             chain' = [chain EXCEPT ![n] = c], UNCHANGED mined
      PROVE  Heaviest!Next
  <2>1. c \in Seq(Node) /\ Len(c) \in Nat /\ Len(chain[n]) \in Nat
    BY <1>1, TipHeight, LenProperties DEF Good
  <2>2. c \in mined
    BY <1>1, <2>1, PrefixFull DEF Good
  <2>3. Heaviest!Valid(c)
    BY <1>1 DEF Good, Prefix, Heaviest!Valid, Heaviest!Prefix
  <2> QED
    BY <1>1, <2>2, <2>3 DEF Heaviest!Next, Heaviest!Adopt
<1>2. ASSUME NEW n \in Node, Heaviest!Mine(n)
      PROVE  Heaviest!Next
  BY <1>2 DEF Heaviest!Next
<1>3. ASSUME NEW n \in Node, NEW b \in mined, Parent(b) = chain[n],
             chain' = [chain EXCEPT ![n] = b], UNCHANGED mined
      PROVE  Heaviest!Next
  <2>1. Good(b, mined) /\ Len(b) = Len(chain[n]) + 1
    BY <1>3, OnTip
  <2>2. Len(b) > Len(chain[n])
    BY <2>1, TipHeight, LenProperties
  <2> QED
    BY <1>1, <1>3, <2>1, <2>2
<1>4. ASSUME NEW n \in Node, NEW s \in Slot, BlocksArrive(n, s)
      PROVE  Heaviest!Next \/ UNCHANGED <<chain, mined>>
  <2>1. PICK c : /\ chain' = [chain EXCEPT ![n] = c] /\ Good(c, mined)
                 /\ c = chain[n] \/ Len(c) > Len(chain[n])
    BY <1>4, Arrival
  <2>2. UNCHANGED mined
    BY <1>4 DEF BlocksArrive
  <2>3. CASE c = chain[n]
    BY <2>1, <2>2, <2>3 DEF Inv
  <2>4. CASE Len(c) > Len(chain[n])
    BY <1>1, <2>1, <2>2, <2>4
  <2> QED
    BY <2>1, <2>3, <2>4
<1> QED
  BY <1>2, <1>3, <1>4, ChainStep
(* While answers to requestBlocks hold what was announced, every node moves    *)
(* only to chains of mined blocks longer than the one it has at that moment:   *)
(* the handlers, with their two awaits, implement HeaviestChain.              *)
THEOREM FollowsHeaviest ==
  ASSUME LostBodies = FALSE
  PROVE  Spec => HeaviestSpec
<1>1. Init => Heaviest!Init
  BY DEF Init, Heaviest!Init
<1> QED
  BY <1>1, HeaviestStep, Invariance, PTL DEF Spec, HeaviestSpec, Heaviest!Spec

(* So no node ever gives up work: lost bodies are the only way to what the run   *)
(* fork_lost shows, whatever the awaits of onOrderingBlock interleave with.     *)
THEOREM WorkIsKept ==
  ASSUME LostBodies = FALSE
  PROVE  Spec => WorkNeverLost
<1> DEFINE Grows(n) == Len(chain'[n]) >= Height(n)
<1>1. ASSUME Inv, [Heaviest!Next]_<<chain, mined>>, NEW n \in Node
      PROVE  Grows(n)
  <2>1. chain[n] \in Seq(Node) /\ Height(n) = Len(chain[n]) /\ Len(chain[n]) \in Nat
    BY <1>1, TipHeight, LenProperties
  <2>2. CASE UNCHANGED <<chain, mined>>
    BY <2>1, <2>2
  <2>3. ASSUME NEW m \in Node, Heaviest!Mine(m) PROVE Grows(n)
    <3>1. CASE m = n
      <4>1. chain'[n] = Append(chain[n], n)
        BY <1>1, <2>3, <3>1 DEF Heaviest!Mine, Inv
      <4> QED
        BY <4>1, <2>1, PrefixOfAppend
    <3>2. CASE m # n
      BY <1>1, <2>1, <2>3, <3>2 DEF Heaviest!Mine, Inv
    <3> QED
      BY <3>1, <3>2
  <2>4. ASSUME NEW m \in Node, NEW b \in mined, Heaviest!Adopt(m, b) PROVE Grows(n)
    <3>1. Len(b) \in Nat
      BY <1>1, LenProperties DEF Inv, Good
    <3> QED
      BY <1>1, <2>1, <2>4, <3>1 DEF Heaviest!Adopt, Inv
  <2> QED
    BY <1>1, <2>2, <2>3, <2>4 DEF Heaviest!Next
<1>2. Inv /\ [Next]_vars => [\A n \in Node : Grows(n)]_vars
  BY <1>1, HeaviestStep
<1>3. WorkNeverLost <=> [][\A n \in Node : Grows(n)]_vars
  BY PTL DEF WorkNeverLost
<1> QED
  BY <1>2, <1>3, Invariance, PTL DEF Spec

(* A step that does not keep the whole of a chain does it for work that was     *)
(* mined, even if the answer to requestBlocks holds none of it: the comparison   *)
(* in onOrderingBlock is with headers of a chain somebody has.                 *)
THEOREM OnlyForMore == Spec => GivenUpForMore
<1> DEFINE Keeps(n) ==
             \/ Len(chain'[n]) >= Height(n) /\ Prefix(chain'[n], Height(n)) = chain[n]
             \/ \E b \in mined : Len(b) > Height(n)
<1>1. ASSUME Inv, [Next]_vars, NEW n \in Node
      PROVE  Keeps(n)
  <2>1. /\ chain[n] \in Seq(Node) /\ Height(n) = Len(chain[n]) /\ Len(chain[n]) \in Nat
        /\ Prefix(chain[n], Len(chain[n])) = chain[n]
    BY <1>1, TipHeight, PrefixFull, LenProperties
  <2>2. CASE chain'[n] = chain[n]
    BY <2>1, <2>2
  <2>3. ASSUME NEW m \in Node, Heaviest!Mine(m) PROVE Keeps(n)
    <3>1. CASE m = n
      <4>1. chain'[n] = Append(chain[n], n)
        BY <1>1, <2>3, <3>1 DEF Heaviest!Mine, Inv
      <4>2. /\ Len(chain'[n]) = Len(chain[n]) + 1
            /\ Prefix(chain'[n], Len(chain[n])) = Prefix(chain[n], Len(chain[n]))
        BY <4>1, <2>1, PrefixOfAppend
      <4> QED
        BY <4>2, <2>1
    <3>2. CASE m # n
      BY <1>1, <2>2, <2>3, <3>2 DEF Heaviest!Mine, Inv
    <3> QED
      BY <3>1, <3>2
  <2>4. ASSUME NEW m \in Node, NEW b \in mined, Parent(b) = chain[m],
               chain' = [chain EXCEPT ![m] = b]
        PROVE  Keeps(n)
    <3>1. CASE m = n
      <4>1. chain'[n] = b
        BY <1>1, <2>4, <3>1 DEF Inv
      <4>2. Len(b) = Len(chain[n]) + 1 /\ Prefix(b, Len(chain[n])) = chain[n]
        BY <1>1, <2>4, <3>1, OnTip
      <4> QED
        BY <4>1, <4>2, <2>1
    <3>2. CASE m # n
      BY <1>1, <2>2, <2>4, <3>2 DEF Inv
    <3> QED
      BY <3>1, <3>2
  <2>5. ASSUME NEW m \in Node, NEW s \in Slot, BlocksArrive(m, s)
        PROVE  Keeps(n)
    <3>1. PICK c : /\ chain' = [chain EXCEPT ![m] = c]
                   /\ c = chain[m] \/ \E b \in mined : Len(b) > Len(chain[m])
      BY <1>1, <2>5, Arrival
    <3>2. CASE m # n \/ c = chain[m]
      BY <1>1, <2>2, <3>1, <3>2 DEF Inv
    <3>3. CASE m = n /\ c # chain[m]
      BY <2>1, <3>1, <3>3
    <3> QED
      BY <3>2, <3>3
  <2> QED
    BY <1>1, <2>2, <2>3, <2>4, <2>5, ChainStep
<1>2. Inv /\ [Next]_vars => [\A n \in Node : Keeps(n)]_vars
  BY <1>1
<1>3. GivenUpForMore <=> [][\A n \in Node : Keeps(n)]_vars
  BY PTL DEF GivenUpForMore
<1> QED
  BY <1>2, <1>3, Invariance, PTL DEF Spec

(* Whatever was mined, some node has a chain at least as high: a node that       *)
(* leaves its chain leaves it for a higher one that another node still has.     *)
THEOREM NetworkHoldsWork == Spec => []WorkHeld
<1>1. Init => WorkHeld
  BY DEF Init, WorkHeld
<1>2. ASSUME Inv, WorkHeld, [Next]_vars, NEW b \in mined'
      PROVE  \E m \in Node : Len(chain'[m]) >= Len(b)
  <2>0. /\ \A m \in Node : /\ chain[m] \in Seq(Node) /\ Height(m) = Len(chain[m])
                            /\ Len(chain[m]) \in Nat
        /\ \A a \in mined : Len(a) \in Nat
    BY <1>2, TipHeight, LenProperties DEF Inv, Good
  <2>1. ASSUME b \in mined, \A m \in Node : Len(chain'[m]) \in Nat /\ Len(chain'[m]) >= Len(chain[m])
        PROVE  \E m \in Node : Len(chain'[m]) >= Len(b)
    <3>1. PICK m \in Node : Height(m) >= Len(b)
      BY <1>2, <2>1 DEF WorkHeld
    <3> QED
      BY <2>0, <2>1, <3>1
  <2>2. CASE UNCHANGED <<chain, mined>>
    BY <2>0, <2>1, <2>2
  <2>3. ASSUME NEW n \in Node, Heaviest!Mine(n)
        PROVE  \E m \in Node : Len(chain'[m]) >= Len(b)
    <3>1. /\ chain' = [chain EXCEPT ![n] = Append(chain[n], n)]
          /\ mined' = mined \cup {Append(chain[n], n)}
      BY <2>3 DEF Heaviest!Mine
    <3>2. Len(Append(chain[n], n)) = Len(chain[n]) + 1
      BY <2>0
    <3>3. chain'[n] = Append(chain[n], n) /\ \A m \in Node \ {n} : chain'[m] = chain[m]
      BY <1>2, <3>1 DEF Inv
    <3>4. \A m \in Node : Len(chain'[m]) \in Nat /\ Len(chain'[m]) >= Len(chain[m])
      BY <2>0, <3>2, <3>3
    <3>5. CASE b = Append(chain[n], n)
      BY <3>3, <3>4, <3>5
    <3> QED
      BY <2>1, <3>1, <3>4, <3>5
  <2>4. ASSUME NEW n \in Node, NEW a \in mined, Parent(a) = chain[n],
               chain' = [chain EXCEPT ![n] = a], UNCHANGED mined
        PROVE  \E m \in Node : Len(chain'[m]) >= Len(b)
    <3>1. Len(a) = Len(chain[n]) + 1
      BY <1>2, <2>4, OnTip
    <3>2. chain'[n] = a /\ \A m \in Node \ {n} : chain'[m] = chain[m]
      BY <1>2, <2>4 DEF Inv
    <3>3. \A m \in Node : Len(chain'[m]) \in Nat /\ Len(chain'[m]) >= Len(chain[m])
      BY <2>0, <3>1, <3>2
    <3> QED
      BY <2>1, <2>4, <3>3
  <2>5. ASSUME NEW n \in Node, NEW s \in Slot, BlocksArrive(n, s)
        PROVE  \E m \in Node : Len(chain'[m]) >= Len(b)
    <3>1. PICK c : /\ chain' = [chain EXCEPT ![n] = c]
                   /\ c = chain[n] \/ \E a \in mined : Len(a) > Len(chain[n])
      BY <1>2, <2>5, Arrival
    <3>2. b \in mined
      BY <2>5 DEF BlocksArrive
    <3>3. \A m \in Node \ {n} : chain'[m] = chain[m]
      BY <1>2, <3>1 DEF Inv
    <3>4. PICK m \in Node : Height(m) >= Len(b)
      BY <1>2, <3>2 DEF WorkHeld
    <3>5. CASE m # n
      BY <2>0, <3>3, <3>4, <3>5
    <3>6. CASE c = chain[n]
      <4>1. chain' = chain
        BY <1>2, <3>1, <3>6 DEF Inv
      <4> QED
        BY <2>0, <3>4, <4>1
    <3>7. CASE m = n /\ c # chain[n]
      <4>1. PICK a \in mined : Len(a) > Len(chain[n])
        BY <3>1, <3>7
      <4>2. PICK k \in Node : Height(k) >= Len(a)
        BY <1>2 DEF WorkHeld
      <4>3. Len(chain[k]) > Len(chain[n])
        BY <2>0, <4>1, <4>2
      <4>4. k # n
        BY <2>0, <4>3
      <4>5. chain'[k] = chain[k] /\ Len(chain[k]) >= Len(b)
        BY <2>0, <3>2, <3>3, <3>4, <3>7, <4>3, <4>4
      <4> QED
        BY <4>5
    <3> QED
      BY <3>5, <3>6, <3>7
  <2> QED
    BY <1>2, <2>2, <2>3, <2>4, <2>5, ChainStep
<1>3. Inv /\ WorkHeld /\ [Next]_vars => WorkHeld'
  BY <1>2 DEF WorkHeld, Height
<1> QED
  BY <1>1, <1>3, Invariance, PTL DEF Spec

=============================================================================
