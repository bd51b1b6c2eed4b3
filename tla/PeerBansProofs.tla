--------------------------- MODULE PeerBansProofs ---------------------------
(***************************************************************************)
(* BanSurfacesAgree, TableFollowsBans and BannedForTheWorstStretch hold in    *)
(* every reachable state, for every set of peers and addresses and every bound. *)
(* The two surfaces are tied by the metadata: until a ban is imposed, the        *)
(* address a peer gave is the one its metadata holds, and every recorded address *)
(* is one its peer may give, so that lifting another peer's ban cannot reach a   *)
(* sole address.  The score is the largest excess of a stretch, not only a bound. *)
(***************************************************************************)
EXTENDS PeerBans, FiniteSetTheorems, NaturalsInduction, WellFoundedInduction, TLAPS

(* What peers gave, what the metadata and the bans hold, what is awaited. *)
Gives(p, a) == a \in Addresses[p] \cup {None}

SurfacesInv ==
  /\ \A p \in Peer : Gives(p, metadata[p].address) /\ Gives(p, bans[p].address)
                     /\ Gives(p, given[p])
  /\ \A g \in greeting : g[2] \in Addresses[g[1]]
  /\ \A p \in Peer : ~bans[p].in /\ given[p] # None =>
       metadata[p].known /\ metadata[p].address = given[p]

IInv == TypeOK /\ SurfacesInv /\ BanSurfacesAgree /\ TableFollowsBans

LEMMA Typing ==
  /\ NoEntry \in Entry /\ NoMeta \in Meta /\ NoBan \in Ban
  /\ Forever \notin Nat /\ None \notin Addr
BY NoneAssumption DEF NoEntry, Entry, NoMeta, Meta, NoBan, Ban, Forever

LEMMA FiniteTables ==
  ASSUME NEW tab
  PROVE  IsFiniteSet(Known(tab)) /\ Cardinality(Known(tab)) \in Nat
BY AddressesAssumption, FS_Subset, FS_CardinalityType DEF Known

LEMMA InitInv == Init => IInv
<1> SUFFICES ASSUME Init PROVE IInv
  OBVIOUS
<1>1. TypeOK
  BY Typing, AddressesAssumption DEF Init, TypeOK
<1>2. SurfacesInv
  BY DEF Init, SurfacesInv, Gives, NoMeta, NoBan
<1>3. BanSurfacesAgree
  BY DEF Init, BanSurfacesAgree, NoBan
<1>4. TableFollowsBans
  <2>1. Known(entries) = {}
    BY DEF Init, Known
  <2>2. Cardinality(Known(entries)) = 0
    BY <2>1, FS_EmptySet
  <2> QED BY <2>1, <2>2, BoundsAssumption DEF Init, TableFollowsBans
<1> QED BY <1>1, <1>2, <1>3, <1>4 DEF IInv

-----------------------------------------------------------------------------
(* The table *)

TableOK == /\ entries \in [Addr -> Nat \cup {None}]
           /\ stored \in [Addr -> Nat \cup {None}]
           /\ bannedAddrs \subseteq Addr
           /\ TableFollowsBans

LEMMA RecordOK ==
  ASSUME TypeOK, TableFollowsBans, NEW a \in Addr, Record(a)
  PROVE  TableOK'
<1>1. CASE Refuses(a)
  BY <1>1 DEF Record, TableOK, TypeOK, TableFollowsBans, Known
<1>2. CASE ~Refuses(a)
  <2> DEFINE table1 == [entries EXCEPT ![a] = clock]
  <2>1. /\ table1 \in [Addr -> Nat \cup {None}] /\ bannedAddrs' = bannedAddrs
        /\ Known(table1) = Known(entries) \cup {a}
    BY NoneAssumption DEF TypeOK, Known, Record
  <2>2. a \notin bannedAddrs /\ Known(table1) \cap bannedAddrs = {}
    BY <1>2, <2>1 DEF Refuses, TableFollowsBans
  <2>3. /\ IsFiniteSet(Known(table1)) /\ Cardinality(Known(table1)) \in Nat
        /\ Cardinality(Known(entries)) \in Nat /\ Cap \in Nat
        /\ Cardinality(Known(entries)) <= Cap
    BY FiniteTables, BoundsAssumption DEF TableFollowsBans
  <2>4. Cardinality(Known(table1)) <= Cap + 1
    <3> HIDE DEF table1
    <3>1. IsFiniteSet(Known(entries))
      BY FiniteTables
    <3>2. Cardinality(Known(entries) \cup {a}) =
            IF a \in Known(entries) THEN Cardinality(Known(entries))
                                    ELSE Cardinality(Known(entries)) + 1
      BY <3>1, FS_AddElement
    <3> QED BY <3>2, <2>1, <2>3
  <2>5. Recorded(a, table1)
    BY <1>2 DEF Record
  <2>6. CASE Cardinality(Known(table1)) > Cap
    <3>1. PICK old \in Oldest(table1) :
            /\ entries' = [table1 EXCEPT ![old] = None]
            /\ stored'  = IF old = a THEN [stored EXCEPT ![old] = None]
                          ELSE [stored EXCEPT ![old] = None, ![a] = table1[a]]
      BY <2>5, <2>6 DEF Recorded
    <3>2. old \in Known(table1) /\ old \in Addr
      BY DEF Oldest, Known
    <3>3. Known(entries') = Known(table1) \ {old}
      BY <3>1, <3>2, <2>1 DEF Known
    <3>4. Cardinality(Known(entries')) <= Cap
      <4> HIDE DEF table1
      <4>1. Cardinality(Known(table1) \ {old}) = Cardinality(Known(table1)) - 1
        BY <3>2, <2>3, FS_RemoveElement
      <4> QED BY <4>1, <3>3, <2>3, <2>4
    <3>5. entries' = stored' /\ entries' \in [Addr -> Nat \cup {None}]
      <4>1. entries = stored /\ clock \in Nat /\ stored \in [Addr -> Nat \cup {None}]
        BY DEF TableFollowsBans, TypeOK
      <4> QED BY <3>1, <3>2, <2>1, <4>1
    <3> QED
      BY <3>3, <3>4, <3>5, <2>1, <2>2 DEF TableOK, TableFollowsBans, TypeOK, Known
  <2>7. CASE ~(Cardinality(Known(table1)) > Cap)
    <3>1. entries' = table1 /\ stored' = [stored EXCEPT ![a] = table1[a]]
      BY <2>5, <2>7 DEF Recorded
    <3>2. entries' = stored'
      BY <3>1 DEF TableFollowsBans, TypeOK
    <3>3. Cardinality(Known(table1)) <= Cap
      BY <2>3, <2>7
    <3> QED
      BY <3>1, <3>2, <3>3, <2>1, <2>2 DEF TableOK, TableFollowsBans, TypeOK, Known
  <2> QED BY <2>6, <2>7
<1> QED BY <1>1, <1>2

LEMMA BanAddressOK ==
  ASSUME TypeOK, TableFollowsBans, NEW a \in Addr \cup {None}, BanAddress(a)
  PROVE  TableOK' /\ bannedAddrs' = bannedAddrs \cup ({a} \ {None})
<1>1. CASE a = None
  BY <1>1 DEF BanAddress, table, TableOK, TypeOK, TableFollowsBans, Known
<1>2. CASE a # None
  <2>1. /\ bannedAddrs' = bannedAddrs \cup {a} /\ a \in Addr
        /\ entries' = [entries EXCEPT ![a] = None] /\ stored' = [stored EXCEPT ![a] = None]
    BY <1>2 DEF BanAddress
  <2>2. Known(entries') = Known(entries) \ {a}
    BY <2>1 DEF Known, TypeOK
  <2>3. Cardinality(Known(entries')) <= Cardinality(Known(entries))
    BY <2>2, FiniteTables, FS_Subset
  <2>4. Cardinality(Known(entries')) <= Cap
    BY <2>3, FiniteTables, BoundsAssumption DEF TableFollowsBans
  <2>5. Known(entries') \cap bannedAddrs' = {}
    BY <2>1, <2>2 DEF TableFollowsBans
  <2> QED
    BY <2>1, <2>4, <2>5, <1>2 DEF TableOK, TableFollowsBans, TypeOK, Known
<1> QED BY <1>1, <1>2

LEMMA UnbanAddressOK ==
  ASSUME TypeOK, TableFollowsBans, NEW a, UnbanAddress(a)
  PROVE  TableOK' /\ bannedAddrs' = bannedAddrs \ {a}
BY DEF UnbanAddress, TableOK, TypeOK, TableFollowsBans, Known

LEMMA TableKept ==
  ASSUME TypeOK, TableFollowsBans, UNCHANGED table
  PROVE  TableOK'
BY DEF table, TableOK, TypeOK, TableFollowsBans, Known

-----------------------------------------------------------------------------
(* The manager *)

ManagerOK == /\ peers \in [Peer -> Entry]
             /\ metadata \in [Peer -> Meta]
             /\ bans \in [Peer -> Ban]
             /\ log \in [Peer -> Seq(Penalty)]
             /\ given \in [Peer -> Addr \cup {None}]

Both == ManagerOK /\ TableOK /\ SurfacesInv /\ BanSurfacesAgree

LEMMA Kept ==
  ASSUME IInv, UNCHANGED <<manager, table>>, \A g \in greeting' : g[2] \in Addresses[g[1]]
  PROVE  Both'
<1>1. TableOK'
  BY TableKept DEF IInv
<1> QED
  BY <1>1 DEF Both, ManagerOK, manager, table, IInv, TypeOK, SurfacesInv, BanSurfacesAgree,
              Gives

LEMMA AddPeerOK ==
  ASSUME IInv, NEW p \in Peer, AddPeer(p), \A g \in greeting' : g[2] \in Addresses[g[1]]
  PROVE  Both'
<1>1. CASE IsBanned(p)
  BY <1>1, Kept DEF AddPeer
<1>2. CASE ~IsBanned(p)
  <2>1. /\ bans'  = [bans EXCEPT ![p] = NoBan]
        /\ UnbanAddress(bans[p].address)
        /\ peers' = [peers EXCEPT ![p] = [tracked |-> TRUE, score |-> 0, last |-> 0]]
        /\ log'   = [log EXCEPT ![p] = <<>>]
        /\ given' = [given EXCEPT ![p] = None]
        /\ metadata' = IF metadata[p].known THEN metadata
                       ELSE [metadata EXCEPT ![p] = [known |-> TRUE, state |-> "connecting",
                                                     address |-> None]]
    BY <1>2 DEF AddPeer
  <2>2. TableOK' /\ bannedAddrs' = bannedAddrs \ {bans[p].address}
    BY <2>1, UnbanAddressOK DEF IInv
  <2>3. [tracked |-> TRUE, score |-> 0, last |-> 0] \in Entry
    BY DEF Entry
  <2>4. [known |-> TRUE, state |-> "connecting", address |-> None] \in Meta
    BY DEF Meta
  <2>5. ManagerOK'
    BY <2>1, <2>3, <2>4, Typing DEF ManagerOK, IInv, TypeOK
  <2>6. SurfacesInv'
    BY <2>1 DEF SurfacesInv, Gives, IInv, TypeOK, NoBan
  <2>7. BanSurfacesAgree'
    <3> SUFFICES ASSUME NEW q \in Peer, bans'[q].in
                 PROVE  /\ ~peers'[q].tracked
                        /\ \A a \in {given'[q], bans'[q].address} \ {None} :
                             Sole(q, a) => a \in bannedAddrs'
      BY DEF BanSurfacesAgree, Sole
    <3>1. q # p /\ bans'[q] = bans[q] /\ peers'[q] = peers[q] /\ given'[q] = given[q]
      BY <2>1 DEF NoBan, IInv, TypeOK
    <3>2. SUFFICES ASSUME NEW a \in {given[q], bans[q].address} \ {None}, Sole(q, a)
                   PROVE  a \in bannedAddrs'
      BY <3>1 DEF IInv, BanSurfacesAgree
    <3>3. a \in bannedAddrs
      BY <3>1, <3>2 DEF IInv, BanSurfacesAgree
    <3>4. a # bans[p].address
      BY <3>1, <3>2 DEF Sole, IInv, SurfacesInv, Gives
    <3> QED BY <3>3, <3>4, <2>2
  <2> QED BY <2>2, <2>5, <2>6, <2>7 DEF Both
<1> QED BY <1>1, <1>2

LEMMA BanForeverOK ==
  ASSUME IInv, NEW p \in Peer, BanForever(p), UNCHANGED greeting
  PROVE  Both'
<1> DEFINE addr == metadata[p].address
<1>1. /\ bans' = [bans EXCEPT ![p] = [in |-> TRUE, until |-> Forever, address |-> addr]]
      /\ BanAddress(addr)
      /\ peers'    = [peers EXCEPT ![p] = NoEntry]
      /\ metadata' = [metadata EXCEPT ![p] = NoMeta]
      /\ log'      = [log EXCEPT ![p] = <<>>]
      /\ given'    = given
  BY DEF BanForever, ImposeBan
<1>2. addr \in Addr \cup {None} /\ Gives(p, addr)
  BY DEF IInv, TypeOK, Meta, SurfacesInv
<1>3. TableOK' /\ bannedAddrs' = bannedAddrs \cup ({addr} \ {None})
  BY <1>1, <1>2, BanAddressOK DEF IInv
<1>4. [in |-> TRUE, until |-> Forever, address |-> addr] \in Ban
  BY <1>2 DEF Ban
<1>5. ManagerOK'
  BY <1>1, <1>4, Typing DEF ManagerOK, IInv, TypeOK
<1>6. SurfacesInv'
  BY <1>1, <1>2 DEF SurfacesInv, Gives, IInv, TypeOK, NoMeta
<1>7. BanSurfacesAgree'
  <2> SUFFICES ASSUME NEW q \in Peer, bans'[q].in
               PROVE  /\ ~peers'[q].tracked
                      /\ \A a \in {given'[q], bans'[q].address} \ {None} :
                           Sole(q, a) => a \in bannedAddrs'
    BY DEF BanSurfacesAgree, Sole
  <2>1. CASE q # p
    BY <2>1, <1>1, <1>3 DEF IInv, BanSurfacesAgree, TypeOK
  <2>2. CASE q = p
    <3>1. ~peers'[p].tracked /\ bans'[p].address = addr
      BY <1>1 DEF NoEntry, IInv, TypeOK
    <3>2. SUFFICES ASSUME NEW a \in {given[p], addr} \ {None}, Sole(p, a)
                   PROVE  a \in bannedAddrs'
      BY <2>2, <3>1, <1>1
    <3>3. CASE a = addr
      BY <3>3, <3>2, <1>3
    <3>4. CASE a = given[p] /\ bans[p].in
      BY <3>4, <3>2, <1>3 DEF IInv, BanSurfacesAgree
    <3>5. CASE a = given[p] /\ ~bans[p].in
      BY <3>5, <3>2, <1>3 DEF IInv, SurfacesInv
    <3> QED BY <3>2, <3>3, <3>4, <3>5
  <2> QED BY <2>1, <2>2
<1> QED BY <1>3, <1>5, <1>6, <1>7 DEF Both

LEMMA AccrueOK ==
  ASSUME IInv, NEW p \in Peer, NEW score \in Scores, Accrue(p, score), UNCHANGED greeting
  PROVE  Both'
<1>1. CASE ~peers[p].tracked
  BY <1>1, Kept DEF Accrue, IInv, SurfacesInv
<1>2. CASE peers[p].tracked
  <2> DEFINE total == Decayed(p) + score
             addr  == metadata[p].address
  <2>1. /\ given' = given
        /\ log' = [log EXCEPT ![p] = Append(@, [at |-> clock, score |-> score])]
    BY <1>2 DEF Accrue
  <2>2. total \in Nat /\ clock \in Nat /\ clock + BanTicks \in Nat
    <3>1. peers[p].score \in Nat /\ peers[p].last \in Nat /\ clock \in Nat /\ score \in Nat
      BY DEF IInv, TypeOK, Entry, Scores
    <3>2. Decayed(p) \in Nat
      BY <3>1 DEF Decayed, Drain, Interval
    <3> QED BY <3>1, <3>2, BoundsAssumption
  <2>3. [at |-> clock, score |-> score] \in Penalty
    BY <2>2 DEF Penalty
  <2>4. log' \in [Peer -> Seq(Penalty)]
    <3>1. Append(log[p], [at |-> clock, score |-> score]) \in Seq(Penalty)
      BY <2>3 DEF IInv, TypeOK
    <3> QED BY <3>1, <2>1 DEF IInv, TypeOK
  <2>5. ~bans[p].in
    BY <1>2 DEF IInv, BanSurfacesAgree
  <2>6. CASE total >= Threshold
    <3>1. /\ bans' = [bans EXCEPT ![p] = [in |-> TRUE, until |-> clock + BanTicks,
                                          address |-> addr]]
          /\ BanAddress(addr)
          /\ peers' = [peers EXCEPT ![p] = NoEntry]
          /\ metadata' = [metadata EXCEPT ![p] =
                            [known |-> @.known, address |-> @.address,
                             state |-> IF @.known THEN "banned" ELSE @.state]]
      BY <1>2, <2>6 DEF Accrue, ImposeBan
    <3>2. metadata[p] \in Meta /\ addr \in Addr \cup {None} /\ Gives(p, addr)
      BY DEF IInv, TypeOK, Meta, SurfacesInv
    <3>3. TableOK' /\ bannedAddrs' = bannedAddrs \cup ({addr} \ {None})
      BY <3>1, <3>2, BanAddressOK DEF IInv
    <3>4. [in |-> TRUE, until |-> clock + BanTicks, address |-> addr] \in Ban
      BY <2>2, <3>2 DEF Ban
    <3>5. /\ metadata'[p] \in Meta /\ metadata'[p].address = addr
          /\ metadata'[p].known = metadata[p].known
      BY <3>1, <3>2 DEF Meta, IInv, TypeOK
    <3>6. \A q \in Peer \ {p} : /\ metadata'[q] = metadata[q] /\ bans'[q] = bans[q]
                                /\ peers'[q] = peers[q]
      BY <3>1 DEF IInv, TypeOK
    <3>7. bans'[p] = [in |-> TRUE, until |-> clock + BanTicks, address |-> addr]
      BY <3>1 DEF IInv, TypeOK
    <3>8. ManagerOK'
      <4>1. metadata' \in [Peer -> Meta]
        BY <3>1, <3>5 DEF IInv, TypeOK
      <4> QED BY <4>1, <2>1, <2>4, <3>1, <3>4, Typing DEF ManagerOK, IInv, TypeOK
    <3>9. SurfacesInv'
      <4>1. ASSUME NEW q \in Peer
            PROVE  /\ Gives(q, metadata'[q].address) /\ Gives(q, bans'[q].address)
                   /\ Gives(q, given'[q])
                   /\ ~bans'[q].in /\ given'[q] # None =>
                        metadata'[q].known /\ metadata'[q].address = given'[q]
        <5>1. CASE q = p
          BY <5>1, <2>1, <3>2, <3>5, <3>7 DEF IInv, SurfacesInv
        <5>2. CASE q # p
          BY <5>2, <2>1, <3>6 DEF IInv, SurfacesInv
        <5> QED BY <5>1, <5>2
      <4> QED BY <4>1 DEF SurfacesInv, IInv, Gives
    <3>10. BanSurfacesAgree'
      <4> SUFFICES ASSUME NEW q \in Peer, bans'[q].in
                   PROVE  /\ ~peers'[q].tracked
                          /\ \A a \in {given'[q], bans'[q].address} \ {None} :
                               Sole(q, a) => a \in bannedAddrs'
        BY DEF BanSurfacesAgree, Sole
      <4>1. CASE q # p
        BY <4>1, <2>1, <3>3, <3>6 DEF IInv, BanSurfacesAgree
      <4>2. CASE q = p
        <5>1. ~peers'[p].tracked
          BY <3>1 DEF NoEntry, IInv, TypeOK
        <5>2. given[p] # None => given[p] = addr
          BY <2>5 DEF IInv, SurfacesInv
        <5> QED BY <4>2, <5>1, <5>2, <2>1, <3>3, <3>7
      <4> QED BY <4>1, <4>2
    <3> QED BY <3>3, <3>8, <3>9, <3>10 DEF Both
  <2>7. CASE ~(total >= Threshold)
    <3>1. /\ peers' = [peers EXCEPT ![p] = [tracked |-> TRUE, score |-> total,
                                            last |-> clock]]
          /\ UNCHANGED <<bans, metadata, table>>
      BY <1>2, <2>7 DEF Accrue
    <3>2. TableOK'
      BY <3>1, TableKept DEF IInv
    <3>3. [tracked |-> TRUE, score |-> total, last |-> clock] \in Entry
      BY <2>2 DEF Entry
    <3>4. ManagerOK'
      <4> HIDE DEF total
      <4> QED BY <2>1, <2>4, <3>1, <3>3 DEF ManagerOK, IInv, TypeOK
    <3>5. SurfacesInv'
      BY <2>1, <3>1 DEF SurfacesInv, Gives, IInv
    <3>6. BanSurfacesAgree'
      <4> HIDE DEF total
      <4> SUFFICES ASSUME NEW q \in Peer, bans[q].in
                   PROVE  /\ ~peers'[q].tracked
                          /\ \A a \in {given[q], bans[q].address} \ {None} :
                               Sole(q, a) => a \in bannedAddrs
        BY <2>1, <3>1 DEF BanSurfacesAgree, Sole, table
      <4>1. q # p /\ peers'[q] = peers[q]
        BY <2>5, <3>1 DEF IInv, TypeOK
      <4> QED BY <4>1 DEF IInv, BanSurfacesAgree
    <3> QED BY <3>2, <3>4, <3>5, <3>6 DEF Both
  <2> QED BY <2>6, <2>7
<1> QED BY <1>1, <1>2

LEMMA GreetedOK ==
  ASSUME IInv, NEW p \in Peer, NEW a \in Addresses[p], Greeted(p, a), Record(a),
         UNCHANGED <<peers, bans, log>>, \A g \in greeting' : g[2] \in Addresses[g[1]]
  PROVE  Both'
<1>1. a \in Addr
  BY AddressesAssumption
<1>2. TableOK' /\ bannedAddrs' = bannedAddrs
  BY <1>1, RecordOK DEF IInv, Record
<1>3. CASE ~metadata[p].known
  BY <1>2, <1>3 DEF Greeted, Both, ManagerOK, IInv, TypeOK, SurfacesInv, BanSurfacesAgree,
                    Gives
<1>4. CASE metadata[p].known
  <2>1. /\ metadata' = [metadata EXCEPT ![p] = [known |-> TRUE, state |-> "active",
                                                address |-> a]]
        /\ given' = [given EXCEPT ![p] = IF bans[p].in THEN @ ELSE a]
    BY <1>4 DEF Greeted
  <2>2. [known |-> TRUE, state |-> "active", address |-> a] \in Meta
    BY <1>1 DEF Meta
  <2>3. ManagerOK'
    BY <1>1, <2>1, <2>2 DEF ManagerOK, IInv, TypeOK
  <2>4. /\ metadata'[p] = [known |-> TRUE, state |-> "active", address |-> a]
        /\ given'[p] = IF bans[p].in THEN given[p] ELSE a
        /\ \A q \in Peer \ {p} : metadata'[q] = metadata[q] /\ given'[q] = given[q]
    BY <2>1 DEF IInv, TypeOK
  <2>5. SurfacesInv'
    <3>1. ASSUME NEW q \in Peer
          PROVE  /\ Gives(q, metadata'[q].address) /\ Gives(q, bans'[q].address)
                 /\ Gives(q, given'[q])
                 /\ ~bans'[q].in /\ given'[q] # None =>
                      metadata'[q].known /\ metadata'[q].address = given'[q]
      <4>1. CASE q = p
        BY <4>1, <2>4 DEF IInv, SurfacesInv, Gives
      <4>2. CASE q # p
        BY <4>2, <2>4 DEF IInv, SurfacesInv, Gives
      <4> QED BY <4>1, <4>2
    <3> QED BY <3>1 DEF SurfacesInv, Gives
  <2>6. BanSurfacesAgree'
    <3>1. \A q \in Peer : bans[q].in => given'[q] = given[q]
      BY <2>4
    <3> QED BY <3>1, <1>2 DEF BanSurfacesAgree, IInv, Sole
  <2> QED BY <1>2, <2>3, <2>5, <2>6 DEF Both
<1> QED BY <1>3, <1>4

LEMMA DisconnectOK ==
  ASSUME IInv, NEW p \in Peer, Disconnect(p)
  PROVE  Both'
<1>1. /\ peers'    = [peers EXCEPT ![p] = NoEntry]
      /\ metadata' = [metadata EXCEPT ![p] = NoMeta]
      /\ log'      = [log EXCEPT ![p] = IF bans[p].in THEN @ ELSE <<>>]
      /\ given'    = [given EXCEPT ![p] = IF bans[p].in THEN @ ELSE None]
      /\ UNCHANGED <<bans, table, greeting>>
  BY DEF Disconnect
<1>2. TableOK'
  BY <1>1, TableKept DEF IInv
<1>3. ManagerOK'
  BY <1>1, Typing DEF ManagerOK, IInv, TypeOK
<1>4. \A q \in Peer : /\ metadata'[q] = IF q = p THEN NoMeta ELSE metadata[q]
                      /\ given'[q] = IF q = p /\ ~bans[q].in THEN None ELSE given[q]
                      /\ ~peers[q].tracked => ~peers'[q].tracked
  BY <1>1 DEF IInv, TypeOK, NoEntry
<1>5. SurfacesInv'
  BY <1>1, <1>4 DEF SurfacesInv, Gives, IInv, NoMeta
<1>6. BanSurfacesAgree'
  BY <1>1, <1>4 DEF BanSurfacesAgree, IInv, Sole, table
<1> QED BY <1>2, <1>3, <1>5, <1>6 DEF Both

LEMMA RestartOK == ASSUME IInv, Restart PROVE Both'
<1>1. TableOK'
  BY DEF Restart, TableOK, TableFollowsBans, IInv, TypeOK, Known
<1>2. ManagerOK'
  BY Typing DEF Restart, ManagerOK
<1>3. SurfacesInv' /\ BanSurfacesAgree'
  BY DEF Restart, SurfacesInv, BanSurfacesAgree, Gives, NoMeta, NoBan
<1> QED BY <1>1, <1>2, <1>3 DEF Both

-----------------------------------------------------------------------------
(* The rest of the state, and the invariant *)

RestOK == /\ clock \in Nat
          /\ conn \in [Peer -> Addr \cup {None, "inbound"}]
          /\ greeting \subseteq Peer \X Addr
          /\ cooldowns \in [Addr -> Nat]
          /\ asked \subseteq Peer

LEMMA Together == ASSUME Both', RestOK' PROVE IInv'
BY DEF Both, RestOK, IInv, TypeOK, ManagerOK, TableOK

LEMMA NextInv == IInv /\ [Next]_vars => IInv'
<1> SUFFICES ASSUME IInv, [Next]_vars PROVE IInv'
  OBVIOUS
<1> USE DEF RestOK
<1>0. /\ RestOK /\ \A g \in greeting : g[2] \in Addresses[g[1]]
      /\ Addresses \in [Peer -> SUBSET Addr]
  BY AddressesAssumption DEF IInv, TypeOK, SurfacesInv
<1>1. CASE UNCHANGED vars
  BY <1>0, <1>1, Kept, Together DEF vars
<1>2. CASE Tick
  <2>1. RestOK'
    BY <1>0, <1>2 DEF Tick
  <2> QED BY <1>0, <1>2, <2>1, Kept, Together DEF Tick
<1>3. CASE Restart
  <2>1. RestOK'
    BY <1>0, <1>3 DEF Restart
  <2> QED BY <1>3, <2>1, RestartOK, Together
<1>4. ASSUME NEW p \in Peer, Accept(p) PROVE IInv'
  <2>1. RestOK'
    BY <1>0, <1>4 DEF Accept
  <2> QED BY <1>0, <1>4, <2>1, AddPeerOK, Together DEF Accept
<1>5. ASSUME NEW p \in Peer, Ask(p) PROVE IInv'
  <2>1. RestOK'
    BY <1>0, <1>5 DEF Ask
  <2> QED BY <1>0, <1>5, <2>1, Kept, Together DEF Ask
<1>6. ASSUME NEW p \in Peer, Violate(p) PROVE IInv'
  <2>1. RestOK'
    BY <1>0, <1>6 DEF Violate
  <2> QED BY <1>6, <2>1, BanForeverOK, Together DEF Violate
<1>7. ASSUME NEW p \in Peer, Disconnect(p) PROVE IInv'
  <2>1. RestOK'
    BY <1>0, <1>7 DEF Disconnect
  <2> QED BY <1>7, <2>1, DisconnectOK, Together
<1>8. ASSUME NEW p \in Peer, NEW score \in Scores, Misbehave(p, score) PROVE IInv'
  <2>1. RestOK'
    BY <1>0, <1>8 DEF Misbehave
  <2> QED BY <1>8, <2>1, AccrueOK, Together DEF Misbehave
<1>9. ASSUME NEW p \in Peer, NEW a \in Addr, DialBootstrap(p, a) PROVE IInv'
  <2>1. CASE a \in Addresses[p] /\ Dialled(p, a) /\ greeting' = greeting \cup {<<p, a>>}
             /\ UNCHANGED cooldowns
    <3>1. UNCHANGED <<clock, asked>>
      BY <1>9 DEF DialBootstrap
    <3>2. RestOK' /\ \A g \in greeting' : g[2] \in Addresses[g[1]]
      BY <1>0, <2>1, <3>1 DEF Dialled
    <3> QED BY <2>1, <3>2, Kept, AddPeerOK, Together DEF Dialled
  <2>2. CASE cooldowns' = [cooldowns EXCEPT ![a] = clock + RedialTicks]
             /\ UNCHANGED <<conn, greeting, manager, table>>
    <3>1. UNCHANGED <<clock, asked>>
      BY <1>9 DEF DialBootstrap
    <3>2. clock + RedialTicks \in Nat
      BY <1>0, BoundsAssumption
    <3>3. cooldowns' \in [Addr -> Nat]
      BY <1>0, <2>2, <3>2
    <3> QED BY <1>0, <2>2, <3>1, <3>3, Kept, Together
  <2> QED BY <1>9, <2>1, <2>2 DEF DialBootstrap
<1>10. ASSUME NEW p \in Peer, NEW a \in Addr, Fill(p, a) PROVE IInv'
  <2>1. /\ greeting' = greeting /\ UNCHANGED <<clock, asked>>
        /\ \/ Dialled(p, a) /\ cooldowns' = [cooldowns EXCEPT ![a] = 0]
           \/ /\ cooldowns' = [cooldowns EXCEPT ![a] = clock + RedialTicks]
              /\ UNCHANGED <<conn, manager, table>>
    BY <1>10 DEF Fill
  <2>2. RestOK' /\ \A g \in greeting' : g[2] \in Addresses[g[1]]
    <3>1. clock + RedialTicks \in Nat
      BY <1>0, BoundsAssumption
    <3>2. cooldowns' \in [Addr -> Nat]
      BY <1>0, <2>1, <3>1
    <3>3. conn' \in [Peer -> Addr \cup {None, "inbound"}]
      BY <1>0, <2>1 DEF Dialled
    <3> QED BY <1>0, <2>1, <3>2, <3>3
  <2> QED BY <2>1, <2>2, Kept, AddPeerOK, Together DEF Dialled
<1>11. ASSUME NEW p \in Peer, NEW a \in Addr, HandshakeOut(p, a) PROVE IInv'
  <2>1. /\ <<p, a>> \in greeting /\ greeting' = greeting \ {<<p, a>>}
        /\ UNCHANGED <<clock, conn, cooldowns, asked>>
        /\ \/ Greeted(p, a) /\ Record(a) /\ UNCHANGED <<peers, bans, log>>
           \/ UNCHANGED <<manager, table>>
    BY <1>11 DEF HandshakeOut
  <2>2. RestOK' /\ \A g \in greeting' : g[2] \in Addresses[g[1]]
    BY <1>0, <2>1
  <2>3. a \in Addresses[p]
    BY <1>0, <2>1
  <2> QED BY <2>1, <2>2, <2>3, Kept, GreetedOK, Together
<1>12. ASSUME NEW p \in Peer, NEW a \in Addr, HandshakeIn(p, a) PROVE IInv'
  <2>1. RestOK'
    BY <1>0, <1>12 DEF HandshakeIn
  <2> QED BY <1>0, <1>12, <2>1, GreetedOK, Together DEF HandshakeIn
<1>13. ASSUME NEW p \in Peer, NEW a \in Addr, Answer(p, a) PROVE IInv'
  <2>1. RestOK' /\ UNCHANGED <<manager, greeting>> /\ Record(a)
    BY <1>0, <1>13 DEF Answer
  <2>2. TableOK' /\ bannedAddrs' = bannedAddrs
    BY <2>1, RecordOK DEF IInv, Record
  <2>3. Both'
    BY <2>1, <2>2 DEF Both, ManagerOK, manager, IInv, TypeOK, SurfacesInv, BanSurfacesAgree,
                      Gives
  <2> QED BY <2>1, <2>3, Together
<1> QED
  BY <1>1, <1>2, <1>3, <1>4, <1>5, <1>6, <1>7, <1>8, <1>9, <1>10, <1>11, <1>12, <1>13
  DEF Next

-----------------------------------------------------------------------------
(* The sums of a stay's penalties                                             *)

LEMMA LeastIn ==
  ASSUME NEW T, T \subseteq Nat, T # {}
  PROVE  \E x \in T : \A y \in T : x <= y
<1>1. PICK x \in T : \A y \in T : <<y, x>> \notin OpToRel(<, Nat)
  BY NatLessThanWellFounded, WFMin
<1>2. \A y \in T : ~(y < x)
  BY <1>1, Zenon DEF OpToRel
<1>3. x \in Nat /\ \A y \in T : y \in Nat
  OBVIOUS
<1> QED BY <1>2, <1>3

(* g is the recursive function of Charged, up to the l-th penalty              *)
Charging(lg, l, g) ==
  g = [i \in 0 .. l |-> IF i = 0 THEN 0 ELSE g[i - 1] + lg[i].score]

LEMMA ChargingExists ==
  ASSUME NEW lg \in Seq(Penalty) PROVE Charging(lg, Len(lg), Charged(lg))
<1> DEFINE Bad == {l \in Nat : l <= Len(lg) /\ ~\E g : Charging(lg, l, g)}
<1>1. Bad = {}
  <2> SUFFICES ASSUME Bad # {} PROVE FALSE
    OBVIOUS
  <2>1. PICK l \in Bad : \A j \in Bad : l <= j
    <3>1. Bad \subseteq Nat
      OBVIOUS
    <3> HIDE DEF Bad
    <3> QED BY <3>1, LeastIn
  <2>2. l \in Nat /\ l <= Len(lg) /\ ~\E g : Charging(lg, l, g)
    BY <2>1
  <2>3. CASE l = 0
    <3> DEFINE g == [i \in 0 .. 0 |-> 0]
    <3>1. g = [i \in 0 .. 0 |-> IF i = 0 THEN 0 ELSE g[i - 1] + lg[i].score]
      OBVIOUS
    <3> HIDE DEF g
    <3> QED BY <2>2, <2>3, <3>1 DEF Charging
  <2>4. CASE l # 0
    <3>1. l - 1 \in Nat /\ l - 1 <= Len(lg) /\ ~(l <= l - 1) /\ l - 1 \notin Bad
      BY <2>1, <2>2, <2>4
    <3>2. PICK g : Charging(lg, l - 1, g)
      BY <3>1
    <3> DEFINE Step(f, i) == IF i = 0 THEN 0 ELSE f[i - 1] + lg[i].score
               k == [i \in 0 .. l |-> IF i = l THEN Step(g, i) ELSE g[i]]
    <3>3. ASSUME NEW i \in 0 .. l PROVE k[i] = Step(k, i)
      <4>1. \A j \in 0 .. l - 1 : g[j] = Step(g, j)
        BY <3>2 DEF Charging
      <4>2. i # l => i \in 0 .. l - 1
        BY <2>2
      <4>3. i # 0 => i - 1 \in 0 .. l /\ i - 1 # l
        BY <2>2
      <4> QED BY <4>1, <4>2, <4>3
    <3>4. k = [i \in 0 .. l |-> Step(k, i)]
      <4>1. k = [i \in 0 .. l |-> k[i]]
        OBVIOUS
      <4> HIDE DEF k, Step
      <4> QED BY <3>3, <4>1
    <3> HIDE DEF k
    <3> QED BY <2>2, <3>4 DEF Charging
  <2> QED BY <2>3, <2>4
<1>2. Len(lg) \in Nat /\ Len(lg) <= Len(lg)
  OBVIOUS
<1>3. \E g : Charging(lg, Len(lg), g)
  BY <1>1, <1>2
<1> QED BY <1>3 DEF Charged, Charging

LEMMA ChargedStep ==
  ASSUME NEW lg \in Seq(Penalty)
  PROVE  /\ Charged(lg)[0] = 0
         /\ \A i \in 1 .. Len(lg) : Charged(lg)[i] = Charged(lg)[i - 1] + lg[i].score
<1> DEFINE g == Charged(lg)
           Step(i) == IF i = 0 THEN 0 ELSE g[i - 1] + lg[i].score
<1>1. g = [i \in 0 .. Len(lg) |-> Step(i)]
  BY ChargingExists DEF Charging
<1> HIDE DEF g
<1>2. \A i \in 0 .. Len(lg) : g[i] = Step(i)
  <2> HIDE DEF Step
  <2> QED BY <1>1
<1>3. 0 \in 0 .. Len(lg) /\ \A i \in 1 .. Len(lg) : i \in 0 .. Len(lg) /\ i # 0
  OBVIOUS
<1>4. g[0] = 0 /\ \A i \in 1 .. Len(lg) : g[i] = g[i - 1] + lg[i].score
  BY <1>2, <1>3
<1> QED BY <1>4 DEF g

LEMMA ChargedType ==
  ASSUME NEW lg \in Seq(Penalty) PROVE \A i \in 0 .. Len(lg) : Charged(lg)[i] \in Int
<1> DEFINE Bad == {l \in 0 .. Len(lg) : Charged(lg)[l] \notin Int}
<1> SUFFICES ASSUME Bad # {} PROVE FALSE
  OBVIOUS
<1>1. PICK l \in Bad : \A j \in Bad : l <= j
  <2>1. Bad \subseteq Nat
    OBVIOUS
  <2> HIDE DEF Bad
  <2> QED BY <2>1, LeastIn
<1>2. l \in 0 .. Len(lg) /\ l # 0
  BY <1>1, ChargedStep
<1>3. l - 1 \in 0 .. Len(lg) /\ ~(l <= l - 1) /\ l \in 1 .. Len(lg)
  BY <1>2
<1>4. Charged(lg)[l - 1] \in Int
  BY <1>1, <1>3
<1>5. lg[l].score \in Int
  <2>1. lg[l] \in Penalty
    BY <1>3
  <2> QED BY <2>1 DEF Penalty, Scores
<1>6. Charged(lg)[l] = Charged(lg)[l - 1] + lg[l].score
  BY <1>3, ChargedStep
<1>7. Charged(lg)[l] \in Int
  BY <1>4, <1>5, <1>6
<1> QED BY <1>1, <1>7

(* A new penalty leaves the sums before it alone.                             *)
LEMMA ChargedAppend ==
  ASSUME NEW lg \in Seq(Penalty), NEW e \in Penalty
  PROVE  \A i \in 0 .. Len(lg) : Charged(Append(lg, e))[i] = Charged(lg)[i]
<1> DEFINE lg1 == Append(lg, e)
           Bad == {l \in 0 .. Len(lg) : Charged(lg1)[l] # Charged(lg)[l]}
<1> SUFFICES ASSUME Bad # {} PROVE FALSE
  OBVIOUS
<1>0. /\ lg1 \in Seq(Penalty) /\ Len(lg1) = Len(lg) + 1
      /\ \A i \in 1 .. Len(lg) : lg1[i] = lg[i]
  OBVIOUS
<1>1. PICK l \in Bad : \A j \in Bad : l <= j
  <2>1. Bad \subseteq Nat
    OBVIOUS
  <2> HIDE DEF Bad
  <2> QED BY <2>1, LeastIn
<1> HIDE DEF lg1
<1>2. l \in 0 .. Len(lg) /\ l # 0
  BY <1>0, <1>1, ChargedStep
<1>3. /\ l - 1 \in 0 .. Len(lg) /\ ~(l <= l - 1)
      /\ l \in 1 .. Len(lg) /\ l \in 1 .. Len(lg1)
  BY <1>0, <1>2
<1>4. Charged(lg1)[l - 1] = Charged(lg)[l - 1]
  BY <1>1, <1>3
<1>5. Charged(lg)[l] = Charged(lg)[l - 1] + lg[l].score
  BY <1>3, ChargedStep
<1>6. Charged(lg1)[l] = Charged(lg1)[l - 1] + lg1[l].score
  BY <1>0, <1>3, ChargedStep
<1>7. lg1[l] = lg[l]
  BY <1>0, <1>3
<1> QED BY <1>1, <1>4, <1>5, <1>6, <1>7

(* A stretch that goes on gains the new penalty and loses the time since the   *)
(* last one; the stretch of the new penalty alone is its score.               *)
LEMMA ExcessAppend ==
  ASSUME NEW lg \in Seq(Penalty), NEW e \in Penalty
  PROVE  /\ \A i \in 1 .. Len(lg) :
              /\ Excess(lg, i) \in Int
              /\ Excess(Append(lg, e), i) =
                   Excess(lg, i) + e.score - (e.at - lg[Len(lg)].at)
         /\ Excess(Append(lg, e), Len(lg) + 1) = e.score
<1> DEFINE lg1 == Append(lg, e)
           n == Len(lg)
<1>1. /\ lg1 \in Seq(Penalty) /\ Len(lg1) = n + 1 /\ n \in Nat
      /\ \A i \in 1 .. n : lg1[i] = lg[i]
      /\ lg1[n + 1] = e
  OBVIOUS
<1>2. /\ \A i \in 1 .. n : lg[i].at \in Int
      /\ e.at \in Int /\ e.score \in Int
  <2>1. \A i \in 1 .. n : lg[i] \in Penalty
    OBVIOUS
  <2> QED BY <2>1 DEF Penalty, Scores
<1> HIDE DEF lg1, n
<1>3. /\ \A i \in 0 .. n : Charged(lg)[i] \in Int /\ Charged(lg1)[i] = Charged(lg)[i]
      /\ Charged(lg1)[n + 1] = Charged(lg)[n] + e.score
  <2>1. \A i \in 0 .. n : Charged(lg)[i] \in Int
    BY ChargedType DEF n
  <2>2. \A i \in 0 .. n : Charged(lg1)[i] = Charged(lg)[i]
    BY ChargedAppend DEF n, lg1
  <2>3. n + 1 \in 1 .. Len(lg1) /\ n \in 0 .. n /\ (n + 1) - 1 = n
    BY <1>1
  <2>4. Charged(lg1)[n + 1] = Charged(lg1)[(n + 1) - 1] + lg1[n + 1].score
    BY <1>1, <2>3, ChargedStep
  <2> QED BY <1>1, <2>1, <2>2, <2>3, <2>4
<1>4. ASSUME NEW x \in Int PROVE (x * Drain) \div Interval = x
  BY DEF Drain, Interval
<1>5. ASSUME NEW i \in 1 .. n
      PROVE  Excess(lg, i) \in Int /\ Excess(lg1, i) = Excess(lg, i) + e.score - (e.at - lg[n].at)
  <2>1. i - 1 \in 0 .. n /\ n \in 0 .. n /\ n \in 1 .. n /\ i \in Nat
    BY <1>1
  <2>2. /\ Charged(lg)[i - 1] \in Int /\ Charged(lg1)[i - 1] = Charged(lg)[i - 1]
        /\ Charged(lg)[n] \in Int /\ lg[i].at \in Int /\ lg[n].at \in Int
        /\ lg1[i] = lg[i]
    BY <1>1, <1>2, <1>3, <2>1
  <2>3. Excess(lg, i) = Charged(lg)[n] - Charged(lg)[i - 1] - (lg[n].at - lg[i].at)
    <3>1. lg[n].at - lg[i].at \in Int
      BY <2>2
    <3> QED BY <3>1, <1>4 DEF Excess, n
  <2>4. Excess(lg1, i) = Charged(lg1)[n + 1] - Charged(lg1)[i - 1] - (e.at - lg[i].at)
    <3>1. e.at - lg[i].at \in Int
      BY <1>2, <2>2
    <3> QED BY <3>1, <1>1, <1>4, <2>2 DEF Excess
  <2>5. ASSUME NEW x \in Int, NEW y \in Int, NEW a \in Int, NEW b \in Int, NEW c \in Int,
               NEW s \in Int
        PROVE  /\ x - y - (b - a) \in Int
               /\ (x + s) - y - (c - a) = (x - y - (b - a)) + s - (c - b)
    OBVIOUS
  <2>6. /\ Excess(lg, i) \in Int
        /\ (Charged(lg)[n] + e.score) - Charged(lg)[i - 1] - (e.at - lg[i].at) =
             (Charged(lg)[n] - Charged(lg)[i - 1] - (lg[n].at - lg[i].at))
               + e.score - (e.at - lg[n].at)
    <3> DEFINE x == Charged(lg)[n]
               y == Charged(lg)[i - 1]
               a == lg[i].at
               b == lg[n].at
               c == e.at
               s == e.score
    <3>1. /\ x \in Int /\ y \in Int /\ a \in Int /\ b \in Int
          /\ c \in Int /\ s \in Int
      BY <2>2, <1>2
    <3>2. Excess(lg, i) = x - y - (b - a)
      BY <2>3
    <3> HIDE DEF x, y, a, b, c, s
    <3>3. Excess(lg, i) \in Int
      BY <3>1, <3>2, <2>5
    <3>4. (x + s) - y - (c - a) = (x - y - (b - a)) + s - (c - b)
      BY <3>1, <2>5
    <3> QED BY <3>3, <3>4 DEF x, y, a, b, c, s
  <2> QED BY <2>2, <2>3, <2>4, <2>6, <1>3
<1>6. Excess(lg1, n + 1) = e.score
  <2>1. (n + 1) - 1 = n /\ n \in 0 .. n /\ e.at - e.at = 0
    BY <1>1, <1>2
  <2>2. Excess(lg1, n + 1) = Charged(lg1)[n + 1] - Charged(lg1)[n] - 0
    BY <2>1, <1>1, <1>4 DEF Excess
  <2> QED BY <2>1, <2>2, <1>2, <1>3
<1> QED BY <1>5, <1>6 DEF lg1, n

-----------------------------------------------------------------------------
(* Lazy decay keeps the worst stretch.  en is the peer's entry, lg its log, ban *)
(* its ban: the score of a tracked peer is the largest excess of its stretches, *)
(* which is why the score alone is enough to decide the next ban.              *)

Stretch(en, lg, ban, t) ==
  /\ en.tracked =>
       /\ en.score < Threshold /\ en.last <= t
       /\ lg = <<>> => en.score = 0
       /\ lg # <<>> => /\ en.last = lg[Len(lg)].at
                       /\ \A i \in 1 .. Len(lg) : Excess(lg, i) <= en.score
                       /\ \E i \in 1 .. Len(lg) : Excess(lg, i) = en.score
  /\ ban.in /\ ban.until # Forever => \E i \in 1 .. Len(lg) : Excess(lg, i) >= Threshold

StretchInv == \A p \in Peer : Stretch(peers[p], log[p], bans[p], clock)

LEMMA StretchLater ==
  ASSUME NEW en \in Entry, NEW lg, NEW ban, NEW t \in Nat, NEW u \in Nat, t <= u,
         Stretch(en, lg, ban, t)
  PROVE  Stretch(en, lg, ban, u)
<1>1. en.last \in Nat
  BY DEF Entry
<1>2. en.last <= t => en.last <= u
  BY <1>1
<1> QED BY <1>2, Zenon DEF Stretch

LEMMA StretchNone ==
  ASSUME NEW t, NEW ban, ban.in => ban.until = Forever
  PROVE  Stretch(NoEntry, <<>>, ban, t)
BY DEF Stretch, NoEntry

(* accrueScoredPenalty of a tracked peer, below the threshold or past it.      *)
LEMMA StretchAccrues ==
  ASSUME NEW en \in Entry, NEW lg \in Seq(Penalty), NEW ban, NEW t \in Nat,
         NEW score \in Scores, en.tracked, Stretch(en, lg, ban, t)
  PROVE  LET left == en.score - ((t - en.last) * Drain) \div Interval
             total == (IF left > 0 THEN left ELSE 0) + score
             lg1 == Append(lg, [at |-> t, score |-> score])
         IN  /\ lg1 # <<>> /\ Len(lg1) = Len(lg) + 1 /\ lg1[Len(lg1)].at = t
             /\ \A i \in 1 .. Len(lg1) : Excess(lg1, i) <= total
             /\ \E i \in 1 .. Len(lg1) : Excess(lg1, i) = total
<1> DEFINE left == en.score - ((t - en.last) * Drain) \div Interval
           total == (IF left > 0 THEN left ELSE 0) + score
           e == [at |-> t, score |-> score]
           lg1 == Append(lg, e)
           n == Len(lg)
<1>1. /\ e \in Penalty /\ score \in Nat /\ n \in Nat
      /\ lg1 # <<>> /\ Len(lg1) = n + 1 /\ lg1[n + 1] = e /\ e.at = t /\ e.score = score
  BY DEF Penalty, Scores
<1>2. /\ en.score \in Nat /\ en.last \in Nat /\ en.last <= t
      /\ (lg = <<>> => en.score = 0)
      /\ (lg # <<>> => /\ en.last = lg[n].at
                       /\ \A i \in 1 .. n : Excess(lg, i) <= en.score
                       /\ \E i \in 1 .. n : Excess(lg, i) = en.score)
  BY Zenon DEF Stretch, Entry
<1>3. left = en.score - (t - en.last)
  <2> DEFINE k == t - en.last
  <2>1. k \in Int
    BY <1>2
  <2> HIDE DEF k
  <2>2. (k * Drain) \div Interval = k
    BY <2>1 DEF Drain, Interval
  <2> QED BY <2>2 DEF k
<1>4. /\ \A i \in 1 .. n : /\ Excess(lg, i) \in Int
                           /\ Excess(lg1, i) = Excess(lg, i) + score - (t - lg[n].at)
      /\ Excess(lg1, n + 1) = score
  <2> HIDE DEF e
  <2> QED BY <1>1, ExcessAppend
<1> HIDE DEF left, e, lg1, n
<1>5. CASE lg = <<>>
  <2>1. n = 0 /\ total = score
    BY <1>1, <1>2, <1>3, <1>5 DEF n
  <2>2. \A i \in 1 .. Len(lg1) : i = n + 1
    BY <1>1, <2>1
  <2> QED BY <1>1, <1>4, <2>1, <2>2 DEF lg1, e, left
<1>6. CASE lg # <<>>
  <2>1. \A i \in 1 .. n : /\ Excess(lg, i) \in Int /\ Excess(lg, i) <= en.score
                           /\ Excess(lg1, i) = Excess(lg, i) + left - en.score + score
    <3>1. lg[n].at = en.last /\ en.score \in Int /\ t \in Int /\ en.last \in Int
      BY <1>2, <1>6
    <3>2. \A i \in 1 .. n :
            Excess(lg, i) + score - (t - en.last)
              = Excess(lg, i) + (en.score - (t - en.last)) - en.score + score
      <4> SUFFICES ASSUME NEW i \in 1 .. n
                   PROVE  Excess(lg, i) + score - (t - en.last)
                            = Excess(lg, i) + (en.score - (t - en.last)) - en.score + score
        OBVIOUS
      <4> DEFINE x == Excess(lg, i)
                 s == en.score
                 v == en.last
      <4>1. x \in Int /\ s \in Int /\ t \in Int /\ v \in Int
        BY <3>1, <1>4
      <4> HIDE DEF x, s, v
      <4>2. x + score - (t - v) = x + (s - (t - v)) - s + score
        BY <1>1, <4>1
      <4> QED BY <4>2 DEF x, s, v
    <3> QED BY <1>2, <1>3, <1>4, <1>6, <3>1, <3>2
  <2>2. ASSUME NEW i \in 1 .. n + 1 PROVE Excess(lg1, i) <= total
    <3>1. CASE i = n + 1
      BY <1>1, <1>2, <1>3, <1>4, <3>1
    <3>2. CASE i # n + 1
      <4>1. i \in 1 .. n
        BY <1>1, <3>2
      <4>2. /\ Excess(lg, i) \in Int /\ Excess(lg, i) <= en.score
            /\ Excess(lg1, i) = Excess(lg, i) + left - en.score + score
        BY <4>1, <2>1
      <4>3. left \in Int /\ en.score \in Int
        BY <1>2, <1>3
      <4> QED BY <4>2, <4>3, <1>1
    <3> QED BY <3>1, <3>2
  <2>3. \E i \in 1 .. n + 1 : Excess(lg1, i) = total
    <3>1. PICK i \in 1 .. n : Excess(lg, i) = en.score
      BY <1>2, <1>6
    <3>2. i \in 1 .. n + 1 /\ n + 1 \in 1 .. n + 1
      BY <1>1
    <3>3. CASE left > 0
      <4>1. Excess(lg1, i) = total
        BY <3>1, <3>3, <2>1, <1>1, <1>2, <1>3
      <4> QED BY <4>1, <3>2
    <3>4. CASE ~(left > 0)
      <4>1. Excess(lg1, n + 1) = total
        BY <3>4, <1>1, <1>4
      <4> QED BY <4>1, <3>2
    <3> QED BY <3>3, <3>4
  <2> QED BY <1>1, <2>2, <2>3 DEF lg1, e, left
<1> QED BY <1>5, <1>6

LEMMA StretchInit == Init => StretchInv
BY StretchNone DEF Init, StretchInv, NoBan

(* What a step does to the entry, the log and the ban of a peer.               *)
SameStay(q) == peers'[q] = peers[q] /\ log'[q] = log[q] /\ bans'[q] = bans[q]

LEMMA StretchSame ==
  ASSUME IInv, StretchInv, clock' = clock \/ clock' = clock + 1, NEW q \in Peer, SameStay(q)
  PROVE  Stretch(peers'[q], log'[q], bans'[q], clock')
<1>1. peers[q] \in Entry /\ clock \in Nat /\ clock' \in Nat /\ clock <= clock'
  BY DEF IInv, TypeOK
<1> QED BY <1>1, StretchLater, Zenon DEF SameStay, StretchInv

LEMMA StretchAddPeer ==
  ASSUME IInv, StretchInv, NEW p \in Peer, AddPeer(p), UNCHANGED clock
  PROVE  StretchInv'
<1>1. CASE IsBanned(p)
  BY <1>1, StretchSame DEF AddPeer, manager, StretchInv, SameStay
<1>2. CASE ~IsBanned(p)
  <2>1. /\ bans'  = [bans EXCEPT ![p] = NoBan]
        /\ peers' = [peers EXCEPT ![p] = [tracked |-> TRUE, score |-> 0, last |-> 0]]
        /\ log'   = [log EXCEPT ![p] = <<>>]
    BY <1>2 DEF AddPeer
  <2>2. ASSUME NEW q \in Peer PROVE Stretch(peers'[q], log'[q], bans'[q], clock')
    <3>1. CASE q = p
      <4>1. /\ peers'[p] = [tracked |-> TRUE, score |-> 0, last |-> 0]
            /\ log'[p] = <<>> /\ bans'[p] = NoBan /\ clock' \in Nat
        BY <2>1 DEF IInv, TypeOK
      <4>2. 0 < Threshold /\ 0 <= clock'
        BY <4>1, BoundsAssumption
      <4> QED BY <3>1, <4>1, <4>2 DEF Stretch, NoBan
    <3>2. CASE q # p
      <4>1. SameStay(q)
        BY <2>1, <3>2 DEF SameStay, IInv, TypeOK
      <4> QED BY <4>1, StretchSame
    <3> QED BY <3>1, <3>2
  <2> QED BY <2>2 DEF StretchInv
<1> QED BY <1>1, <1>2

LEMMA StretchAccrue ==
  ASSUME IInv, StretchInv, NEW p \in Peer, NEW score \in Scores, Accrue(p, score),
         UNCHANGED clock
  PROVE  StretchInv'
<1>1. CASE ~peers[p].tracked
  BY <1>1, StretchSame DEF Accrue, manager, StretchInv, SameStay
<1>2. CASE peers[p].tracked
  <2> DEFINE total == Decayed(p) + score
             lg1 == Append(log[p], [at |-> clock, score |-> score])
  <2>1. log' = [log EXCEPT ![p] = lg1]
    BY <1>2 DEF Accrue
  <2>2. /\ peers[p] \in Entry /\ log[p] \in Seq(Penalty) /\ clock \in Nat
        /\ Stretch(peers[p], log[p], bans[p], clock) /\ ~bans[p].in
    BY <1>2 DEF IInv, TypeOK, StretchInv, BanSurfacesAgree
  <2>3. /\ lg1 # <<>> /\ lg1[Len(lg1)].at = clock
        /\ \A i \in 1 .. Len(lg1) : Excess(lg1, i) <= total
        /\ \E i \in 1 .. Len(lg1) : Excess(lg1, i) = total
    <3> DEFINE left == peers[p].score - ((clock - peers[p].last) * Drain) \div Interval
               sum  == (IF left > 0 THEN left ELSE 0) + score
    <3>1. total = sum
      BY DEF Decayed
    <3> HIDE DEF total
    <3>2. /\ lg1 # <<>> /\ lg1[Len(lg1)].at = clock
          /\ \A i \in 1 .. Len(lg1) : Excess(lg1, i) <= sum
          /\ \E i \in 1 .. Len(lg1) : Excess(lg1, i) = sum
      BY <1>2, <2>2, StretchAccrues
    <3> QED BY <3>1, <3>2
  <2>4. total \in Int /\ Threshold \in Nat /\ clock <= clock
    <3>1. /\ peers[p].score \in Int /\ peers[p].last \in Int /\ clock \in Int
          /\ score \in Int
      BY <2>2 DEF Entry, Scores
    <3>2. Decayed(p) \in Int
      BY <3>1 DEF Decayed, Drain, Interval
    <3> QED BY <3>1, <3>2, BoundsAssumption
  <2> HIDE DEF total, lg1
  <2>5. ASSUME NEW q \in Peer, q # p, UNCHANGED bans \/ \E b : bans' = [bans EXCEPT ![p] = b],
               \E x : peers' = [peers EXCEPT ![p] = x]
        PROVE  Stretch(peers'[q], log'[q], bans'[q], clock')
    <3>1. SameStay(q)
      BY <2>1, <2>5 DEF SameStay, IInv, TypeOK
    <3> QED BY <3>1, StretchSame
  <2>6. log'[p] = lg1
    BY <2>1 DEF IInv, TypeOK
  <2>7. CASE total >= Threshold
    <3>1. /\ bans' = [bans EXCEPT ![p] = [in |-> TRUE, until |-> clock + BanTicks,
                                          address |-> metadata[p].address]]
          /\ peers' = [peers EXCEPT ![p] = NoEntry]
      BY <1>2, <2>7 DEF Accrue, ImposeBan, total
    <3>2. peers'[p] = NoEntry
      BY <3>1 DEF IInv, TypeOK
    <3>3. Stretch(NoEntry, lg1, bans'[p], clock')
      BY <2>3, <2>4, <2>7 DEF Stretch, NoEntry
    <3> QED BY <2>5, <2>6, <3>1, <3>2, <3>3 DEF StretchInv
  <2>8. CASE ~(total >= Threshold)
    <3>1. /\ bans' = bans
          /\ peers' = [peers EXCEPT ![p] = [tracked |-> TRUE, score |-> total,
                                            last |-> clock]]
      BY <1>2, <2>8 DEF Accrue, total
    <3>2. peers'[p] = [tracked |-> TRUE, score |-> total, last |-> clock] /\ ~bans'[p].in
      BY <2>2, <3>1 DEF IInv, TypeOK
    <3>3. total < Threshold
      BY <2>4, <2>8
    <3>4. Stretch(peers'[p], lg1, bans'[p], clock')
      BY <2>3, <2>4, <3>2, <3>3 DEF Stretch
    <3> QED BY <2>5, <2>6, <3>1, <3>4 DEF StretchInv
  <2> QED BY <2>7, <2>8
<1> QED BY <1>1, <1>2

LEMMA StretchNext == IInv /\ StretchInv /\ [Next]_vars => StretchInv'
<1> SUFFICES ASSUME IInv, StretchInv, [Next]_vars PROVE StretchInv'
  OBVIOUS
<1>1. ASSUME UNCHANGED <<peers, log, bans>>, clock' = clock \/ clock' = clock + 1
      PROVE  StretchInv'
  BY <1>1, StretchSame DEF StretchInv, SameStay
<1>2. CASE UNCHANGED vars
  BY <1>1, <1>2 DEF vars, manager
<1>3. CASE Tick
  BY <1>1, <1>3 DEF Tick, manager
<1>4. CASE Restart
  BY <1>4, StretchNone DEF Restart, StretchInv, NoBan
<1>5. ASSUME NEW p \in Peer, Accept(p) PROVE StretchInv'
  BY <1>5, StretchAddPeer DEF Accept
<1>6. ASSUME NEW p \in Peer, Ask(p) PROVE StretchInv'
  BY <1>1, <1>6 DEF Ask, manager
<1>7. ASSUME NEW p \in Peer, Violate(p) \/ Disconnect(p) PROVE StretchInv'
  <2>1. ASSUME NEW q \in Peer PROVE Stretch(peers'[q], log'[q], bans'[q], clock')
    <3>1. CASE q # p
      <4>1. SameStay(q) /\ clock' = clock
        BY <1>7, <3>1 DEF SameStay, IInv, TypeOK, Violate, BanForever, ImposeBan, Disconnect
      <4> QED BY <4>1, StretchSame
    <3>2. CASE Violate(p) /\ q = p
      <4>1. peers'[p] = NoEntry /\ log'[p] = <<>> /\ bans'[p].until = Forever
        BY <3>2 DEF IInv, TypeOK, Violate, BanForever, ImposeBan
      <4> QED BY <3>2, <4>1, StretchNone
    <3>3. CASE Disconnect(p) /\ q = p
      <4>1. /\ peers'[p] = NoEntry /\ bans'[p] = bans[p]
            /\ log'[p] = IF bans[p].in THEN log[p] ELSE <<>>
        BY <3>3 DEF IInv, TypeOK, Disconnect
      <4>2. CASE ~bans[p].in
        BY <3>3, <4>1, <4>2, StretchNone
      <4>3. CASE bans[p].in
        <5>1. Stretch(peers[p], log[p], bans[p], clock)
          BY DEF StretchInv
        <5> QED BY <3>3, <4>1, <4>3, <5>1 DEF Stretch, NoEntry
      <4> QED BY <4>2, <4>3
    <3> QED BY <1>7, <3>1, <3>2, <3>3
  <2> QED BY <2>1 DEF StretchInv
<1>8. ASSUME NEW p \in Peer, NEW score \in Scores, Misbehave(p, score) PROVE StretchInv'
  BY <1>8, StretchAccrue DEF Misbehave
<1>9. ASSUME NEW p \in Peer, NEW a \in Addr, DialBootstrap(p, a) \/ Fill(p, a)
      PROVE  StretchInv'
  <2>1. UNCHANGED clock /\ (UNCHANGED <<manager, table>> \/ AddPeer(p))
    BY <1>9 DEF DialBootstrap, Fill, Dialled
  <2> QED BY <1>1, <2>1, StretchAddPeer DEF manager
<1>10. ASSUME NEW p \in Peer, NEW a \in Addr,
              HandshakeOut(p, a) \/ HandshakeIn(p, a) \/ Answer(p, a)
       PROVE  StretchInv'
  BY <1>1, <1>10 DEF HandshakeOut, HandshakeIn, Answer, manager
<1> QED
  BY <1>2, <1>3, <1>4, <1>5, <1>6, <1>7, <1>8, <1>9, <1>10 DEF Next

-----------------------------------------------------------------------------
(* Theorems *)

(* IInv, which says how scores, bans, addresses and the table hang together,  *)
(* holds in every state the peer manager and its callers reach.               *)
THEOREM Invariance == Spec => []IInv
BY InitInv, NextInv, PTL DEF Spec

(* The state of the peer manager, its table and the dialler stays well typed. *)
THEOREM PeersTypeCorrect == Spec => []TypeOK
BY Invariance, PTL DEF IInv

(* A ban of a peer id reaches the address the peer gave, whatever happened     *)
(* between the greeting and the ban, unless another id gives it as well.       *)
THEOREM SurfacesAgree == Spec => []BanSurfacesAgree
BY Invariance, PTL DEF IInv

(* The table never holds a banned address, is on disk as it is in memory, and  *)
(* stays within its cap.                                                      *)
THEOREM TableFollows == Spec => []TableFollowsBans
BY Invariance, PTL DEF IInv

(* Lazy decay bans for the worst stretch: a tracked peer's score is at least   *)
(* the excess of every stretch that ends at its last penalty and below the     *)
(* threshold, and a temporal ban has a stretch that reached it.               *)
THEOREM StretchesBanned == Spec => []BannedForTheWorstStretch
<1>1. IInv /\ StretchInv => BannedForTheWorstStretch
  <2> SUFFICES ASSUME IInv, StretchInv, NEW p \in Peer
               PROVE  /\ peers[p].tracked =>
                           /\ log[p] = <<>> => peers[p].score = 0
                           /\ \A i \in DOMAIN log[p] : Excess(log[p], i) <= peers[p].score
                                                       /\ peers[p].score < Threshold
                      /\ bans[p].in /\ bans[p].until # Forever =>
                           \E i \in DOMAIN log[p] : Excess(log[p], i) >= Threshold
    BY DEF BannedForTheWorstStretch
  <2>1. DOMAIN log[p] = 1 .. Len(log[p])
    BY DEF IInv, TypeOK
  <2>2. DOMAIN log[p] # {} => log[p] # <<>>
    OBVIOUS
  <2> QED BY <2>1, <2>2, Zenon DEF StretchInv, Stretch
<1>2. Spec => [](IInv /\ StretchInv)
  BY InitInv, NextInv, StretchInit, StretchNext, PTL DEF Spec
<1> QED BY <1>1, <1>2, PTL
=============================================================================
