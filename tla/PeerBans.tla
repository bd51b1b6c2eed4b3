------------------------------ MODULE PeerBans ------------------------------
(***************************************************************************)
(* Who this node keeps away from: PeerManager's penalties and bans, keyed by  *)
(* peer id, PeerDb's table of addresses and its bans, keyed by address, and   *)
(* the OutboundManager that dials from the table.                            *)
(*                                                                         *)
(* A tick is half of penaltySafeIntervalMs and a point is 50 of the source's, *)
(* so a tick drains one point.  A peer of libp2p has one connection here, and *)
(* an inbound one shows an ephemeral port, which is no address of the table.   *)
(* Addresses our own filters refuse (our own, bogus ones) are not in Addr.     *)
(* penaltyCount, lastSeenMs of the metadata and the stall fields are left out: *)
(* nothing the node runs reads them.                                         *)
(***************************************************************************)
EXTENDS Integers, Sequences, FiniteSets

CONSTANTS
  Peer,            \* peer ids
  Addr,            \* addresses
  Addresses,       \* Addresses[p]: where p is reached, and what it may declare
  Bootstrap,       \* bootstrapPeers
  Rude,            \* the peers whose messages cost score
  None,
  Threshold,       \* penaltyScoreThreshold
  BanTicks,        \* temporalBanDurationMs
  Cap,             \* peerDbCap
  MinPeers,        \* minPeers
  MaxPeers,        \* maxPeers
  RedialTicks,     \* outboundRedialCooldownMs
  MaxClock,        \* bound on the clock
  MaxPenalties     \* bound on the penalties a peer collects in one stay

Forever  == -1     \* banExpiresAt of a permanent ban
Interval == 2      \* ticks of one decay interval
Drain    == 2      \* PENALTY_DECAY_PER_INTERVAL
Scores   == {1, 2} \* Transient, and RateLimit or misbehavior

ASSUME BoundsAssumption ==
  /\ {Threshold, Cap, MinPeers, MaxPeers, BanTicks, RedialTicks, MaxClock,
      MaxPenalties} \subseteq Nat
  /\ Threshold > 0
ASSUME AddressesAssumption ==
  /\ Addresses \in [Peer -> SUBSET Addr]
  /\ Bootstrap \subseteq Addr
  /\ Rude \subseteq Peer
  /\ IsFiniteSet(Addr)
ASSUME NoneAssumption == None \notin Addr \cup Nat

VARIABLES
  clock,       \* Date.now()
  \* libp2p
  conn,        \* conn[p]: None, "inbound", or the address p was dialled at
  greeting,    \* bootstrap dials that await the handshake's answer
  \* PeerManager
  peers,       \* peers[p]: the PeerEntry, or NoEntry
  metadata,    \* metadata[p]: the PeerMetadata, or NoMeta
  bans,        \* bans[p]: the BanEntry, or NoBan
  \* PeerDb
  entries,     \* entries[a]: lastSeenMs of the address, or None
  stored,      \* the rows of the table peers, as entries
  bannedAddrs,
  \* OutboundManager, NetNode
  cooldowns,   \* cooldowns[a]: no dial before, or 0 once that is past
  asked,       \* askedMs: the peers asked in this stay
  \* Ghosts
  log,         \* log[p]: the penalties of p's stay, with their times
  given        \* given[p]: the address p gave last before a ban, or None

manager == <<peers, metadata, bans, log, given>>
table   == <<entries, stored, bannedAddrs>>
vars    == <<clock, conn, greeting, manager, table, cooldowns, asked>>

-----------------------------------------------------------------------------
(* Data *)

NoEntry == [tracked |-> FALSE, score |-> 0, last |-> 0]
Entry   == [tracked : BOOLEAN, score : Nat, last : Nat]

NoMeta  == [known |-> FALSE, state |-> "disconnected", address |-> None]
Meta    == [known : BOOLEAN, state : {"connecting", "active", "banned", "disconnected"},
            address : Addr \cup {None}]

NoBan   == [in |-> FALSE, until |-> Forever, address |-> None]
Ban     == [in : BOOLEAN, until : Nat \cup {Forever}, address : Addr \cup {None}]

Penalty == [at : Nat, score : Scores]

Active(p)   == metadata[p].known /\ metadata[p].state = "active"
Expired(p)  == bans[p].in /\ bans[p].until # Forever /\ clock >= bans[p].until
IsBanned(p) == bans[p].in /\ ~Expired(p)

Outbound    == {p \in Peer : conn[p] \in Addr}
Connected   == {conn[p] : p \in Outbound}
Known(tab)  == {a \in Addr : tab[a] # None}

-----------------------------------------------------------------------------
(* PeerDb *)

(* Mutant: the blacklist only filters what is read. *)
RefusesNobody(a) == FALSE

Refuses(a) == a \in bannedAddrs

Oldest(tab) == {a \in Known(tab) : \A b \in Known(tab) : tab[a] <= tab[b]}

(* record, past its refusals: which of equally old entries goes is open. *)
Recorded(a, table1) ==
  IF Cardinality(Known(table1)) > Cap
  THEN \E old \in Oldest(table1) :
         /\ entries' = [table1 EXCEPT ![old] = None]
         /\ stored'  = IF old = a THEN [stored EXCEPT ![old] = None]
                       ELSE [stored EXCEPT ![old] = None, ![a] = table1[a]]
  ELSE /\ entries' = table1
       /\ stored'  = [stored EXCEPT ![a] = table1[a]]

Record(a) ==
  /\ IF Refuses(a) THEN UNCHANGED <<entries, stored>>
                   ELSE Recorded(a, [entries EXCEPT ![a] = clock])
  /\ UNCHANGED bannedAddrs

BanAddress(a) ==
  IF a = None THEN UNCHANGED table
  ELSE /\ bannedAddrs' = bannedAddrs \cup {a}
       /\ entries'     = [entries EXCEPT ![a] = None]
       /\ stored'      = [stored EXCEPT ![a] = None]

UnbanAddress(a) ==
  /\ bannedAddrs' = bannedAddrs \ {a}
  /\ UNCHANGED <<entries, stored>>

-----------------------------------------------------------------------------
(* PeerManager *)

(* peer:connect.  isBanned drops an expired ban, and only here. *)
AddPeer(p) ==
  IF IsBanned(p) THEN UNCHANGED <<manager, table>>
  ELSE /\ bans'     = [bans EXCEPT ![p] = NoBan]
       /\ UnbanAddress(bans[p].address)
       /\ peers'    = [peers EXCEPT ![p] = [tracked |-> TRUE, score |-> 0, last |-> 0]]
       /\ log'      = [log EXCEPT ![p] = <<>>]
       /\ given'    = [given EXCEPT ![p] = None]
       /\ metadata' = IF metadata[p].known THEN metadata
                      ELSE [metadata EXCEPT ![p] = [known |-> TRUE, state |-> "connecting",
                                                    address |-> None]]

(* imposeBan *)
ImposeBan(p, until) ==
  /\ bans' = [bans EXCEPT ![p] = [in |-> TRUE, until |-> until,
                                  address |-> metadata[p].address]]
  /\ BanAddress(metadata[p].address)

(* Mutant: the metadata goes before its address is read. *)
BanForeverNowhere(p) ==
  /\ bans' = [bans EXCEPT ![p] = [in |-> TRUE, until |-> Forever, address |-> None]]
  /\ UNCHANGED table
  /\ peers'    = [peers EXCEPT ![p] = NoEntry]
  /\ metadata' = [metadata EXCEPT ![p] = NoMeta]
  /\ log'      = [log EXCEPT ![p] = <<>>]
  /\ UNCHANGED given

(* ProtocolViolation and 'permanent' *)
BanForever(p) ==
  /\ ImposeBan(p, Forever)
  /\ peers'    = [peers EXCEPT ![p] = NoEntry]
  /\ metadata' = [metadata EXCEPT ![p] = NoMeta]
  /\ log'      = [log EXCEPT ![p] = <<>>]
  /\ UNCHANGED given

(* Mutant: the score is drained without its floor of zero. *)
DecayedBelowZero(p) ==
  peers[p].score - ((clock - peers[p].last) * Drain) \div Interval

(* Mutant: lastPenaltyTime is never moved on. *)
DecayedSinceArrival(p) ==
  LET left == peers[p].score - (clock * Drain) \div Interval
  IN  IF left > 0 THEN left ELSE 0

(* The score left at a new penalty. *)
Decayed(p) ==
  LET left == peers[p].score - ((clock - peers[p].last) * Drain) \div Interval
  IN  IF left > 0 THEN left ELSE 0

(* accrueScoredPenalty: nothing for a peer that is not tracked. *)
Accrue(p, score) ==
  IF ~peers[p].tracked THEN UNCHANGED <<manager, table>>
  ELSE LET total == Decayed(p) + score
       IN  /\ UNCHANGED given
           /\ log' = [log EXCEPT ![p] = Append(@, [at |-> clock, score |-> score])]
           /\ IF total >= Threshold
              THEN /\ ImposeBan(p, clock + BanTicks)
                   /\ peers'    = [peers EXCEPT ![p] = NoEntry]
                   /\ metadata' = [metadata EXCEPT ![p] =
                                     [known |-> @.known, address |-> @.address,
                                      state |-> IF @.known THEN "banned" ELSE @.state]]
              ELSE /\ peers' = [peers EXCEPT ![p] = [tracked |-> TRUE, score |-> total,
                                                     last |-> clock]]
                   /\ UNCHANGED <<bans, metadata, table>>

(* setPeerAddress, then setPeerState: no-ops without metadata. *)
Greeted(p, a) ==
  IF metadata[p].known
  THEN /\ metadata' = [metadata EXCEPT ![p] = [known |-> TRUE, state |-> "active",
                                               address |-> a]]
       /\ given' = [given EXCEPT ![p] = IF bans[p].in THEN @ ELSE a]
  ELSE UNCHANGED <<metadata, given>>

-----------------------------------------------------------------------------
(* Actions *)

Init ==
  /\ clock = 0
  /\ conn = [p \in Peer |-> None]
  /\ greeting = {}
  /\ peers = [p \in Peer |-> NoEntry]
  /\ metadata = [p \in Peer |-> NoMeta]
  /\ bans = [p \in Peer |-> NoBan]
  /\ entries = [a \in Addr |-> None]
  /\ stored = [a \in Addr |-> None]
  /\ bannedAddrs = {}
  /\ cooldowns = [a \in Addr |-> 0]
  /\ asked = {}
  /\ log = [p \in Peer |-> <<>>]
  /\ given = [p \in Peer |-> None]

Tick ==
  /\ clock < MaxClock
  /\ clock' = clock + 1
  /\ cooldowns' = [a \in Addr |-> IF cooldowns[a] > clock' THEN cooldowns[a] ELSE 0]
  /\ UNCHANGED <<conn, greeting, manager, table, asked>>

(* A connection p opens. *)
Accept(p) ==
  /\ conn[p] = None
  /\ conn' = [conn EXCEPT ![p] = "inbound"]
  /\ AddPeer(p)
  /\ UNCHANGED <<clock, greeting, cooldowns, asked>>

(* libp2p's dial: a peer that is connected already keeps its connection. *)
Dialled(p, a) ==
  IF conn[p] # None THEN UNCHANGED <<conn, manager, table>>
  ELSE conn' = [conn EXCEPT ![p] = a] /\ AddPeer(p)

(* The floor phase: the seeds are dialled whatever the table bans, and all at  *)
(* once, so that one which answers does not hold back the next.                *)
DialBootstrap(p, a) ==
  /\ Cardinality({q \in Outbound : conn[q] \notin Bootstrap}) < MinPeers
  /\ a \in Bootstrap
  /\ \/ /\ a \in Addresses[p] /\ Dialled(p, a)
        /\ greeting' = greeting \cup {<<p, a>>}
        /\ UNCHANGED cooldowns
     \/ /\ cooldowns' = [cooldowns EXCEPT ![a] = clock + RedialTicks]
        /\ UNCHANGED <<conn, greeting, manager, table>>
  /\ UNCHANGED <<clock, asked>>

(* What recent serves, to the fill phase and in Peers responses. *)
Recent(exclude) == Known(entries) \ (exclude \cup bannedAddrs)

Candidates == Recent(Connected \cup {a \in Addr : cooldowns[a] # 0})

(* The fill phase dials the most recent candidate.  No handshake follows. *)
Fill(p, a) ==
  /\ Cardinality(Outbound) >= MinPeers
  /\ Cardinality(Outbound) < MaxPeers
  /\ a \in Candidates
  /\ \A b \in Candidates : entries[b] <= entries[a]
  /\ \/ a \in Addresses[p] /\ Dialled(p, a) /\ cooldowns' = [cooldowns EXCEPT ![a] = 0]
     \/ /\ cooldowns' = [cooldowns EXCEPT ![a] = clock + RedialTicks]
        /\ UNCHANGED <<conn, manager, table>>
  /\ UNCHANGED <<clock, greeting, asked>>

(* The answer to our handshake, after an await: good, or none. *)
HandshakeOut(p, a) ==
  /\ <<p, a>> \in greeting
  /\ greeting' = greeting \ {<<p, a>>}
  /\ \/ Greeted(p, a) /\ Record(a) /\ UNCHANGED <<peers, bans, log>>
     \/ UNCHANGED <<manager, table>>
  /\ UNCHANGED <<clock, conn, cooldowns, asked>>

HandshakeIn(p, a) ==
  /\ conn[p] # None
  /\ a \in Addresses[p]
  /\ Greeted(p, a)
  /\ Record(a)
  /\ UNCHANGED <<clock, conn, greeting, peers, bans, log, cooldowns, asked>>

(* duePeerExchange, for one peer of the list; its two-minute pace is left out. *)
Ask(p) ==
  /\ peers[p].tracked /\ Active(p)
  /\ asked' = asked \cup {p}
  /\ UNCHANGED <<clock, conn, greeting, manager, table, cooldowns>>

(* intakePeersBody, for one address of the answer *)
Answer(p, a) ==
  /\ p \in asked
  /\ Record(a)
  /\ UNCHANGED <<clock, conn, greeting, manager, cooldowns, asked>>

(* A message of p breaks the protocol. *)
Violate(p) ==
  /\ conn[p] # None
  /\ BanForever(p)
  /\ UNCHANGED <<clock, conn, greeting, cooldowns, asked>>

(* A message of p costs it score: invalid content, or an unsupported version. *)
Misbehave(p, score) ==
  /\ p \in Rude
  /\ conn[p] # None
  /\ Len(log[p]) < MaxPenalties
  /\ Accrue(p, score)
  /\ UNCHANGED <<clock, conn, greeting, cooldowns, asked>>

(* peer:disconnect.  The connection of a banned peer is not closed by the ban. *)
Disconnect(p) ==
  /\ conn[p] # None
  /\ conn'     = [conn EXCEPT ![p] = None]
  /\ peers'    = [peers EXCEPT ![p] = NoEntry]
  /\ metadata' = [metadata EXCEPT ![p] = NoMeta]
  /\ asked'    = asked \ {p}
  /\ log'      = [log EXCEPT ![p] = IF bans[p].in THEN @ ELSE <<>>]
  /\ given'    = [given EXCEPT ![p] = IF bans[p].in THEN @ ELSE None]
  /\ UNCHANGED <<clock, greeting, bans, table, cooldowns>>

(* The process ends and starts again: only the table is persisted. *)
Restart ==
  /\ conn' = [p \in Peer |-> None]
  /\ greeting' = {}
  /\ peers' = [p \in Peer |-> NoEntry]
  /\ metadata' = [p \in Peer |-> NoMeta]
  /\ bans' = [p \in Peer |-> NoBan]
  /\ entries' = stored
  /\ bannedAddrs' = {}
  /\ cooldowns' = [a \in Addr |-> 0]
  /\ asked' = {}
  /\ log' = [p \in Peer |-> <<>>]
  /\ given' = [p \in Peer |-> None]
  /\ UNCHANGED <<clock, stored>>

Next ==
  \/ Tick \/ Restart
  \/ \E p \in Peer :
       \/ Accept(p) \/ Ask(p) \/ Violate(p) \/ Disconnect(p)
       \/ \E score \in Scores : Misbehave(p, score)
       \/ \E a \in Addr : \/ DialBootstrap(p, a) \/ Fill(p, a) \/ HandshakeOut(p, a)
                          \/ HandshakeIn(p, a) \/ Answer(p, a)

Spec == Init /\ [][Next]_vars

-----------------------------------------------------------------------------
(* Properties *)

TypeOK ==
  /\ clock \in Nat
  /\ conn \in [Peer -> Addr \cup {None, "inbound"}]
  /\ greeting \subseteq Peer \X Addr
  /\ peers \in [Peer -> Entry]
  /\ metadata \in [Peer -> Meta]
  /\ bans \in [Peer -> Ban]
  /\ entries \in [Addr -> Nat \cup {None}]
  /\ stored \in [Addr -> Nat \cup {None}]
  /\ bannedAddrs \subseteq Addr
  /\ cooldowns \in [Addr -> Nat]
  /\ asked \subseteq Peer
  /\ log \in [Peer -> Seq(Penalty)]
  /\ given \in [Peer -> Addr \cup {None}]

(* What the penalties of lg come to, one after the other.                     *)
Charged(lg) ==
  LET sum[i \in 0 .. Len(lg)] == IF i = 0 THEN 0 ELSE sum[i - 1] + lg[i].score
  IN  sum

(* The excess of the penalties from the i-th on over what their time drained. *)
Excess(lg, i) ==
  Charged(lg)[Len(lg)] - Charged(lg)[i - 1]
  - ((lg[Len(lg)].at - lg[i].at) * Drain) \div Interval

(* accrueScoredPenalty computes the decay lazily, penalty by penalty.  What it *)
(* keeps is the worst stretch of the peer's stay: a peer is under a temporal   *)
(* ban exactly when, over some stretch that ends at its last penalty, it broke *)
(* the rules Threshold faster than they are forgiven.                         *)
BannedForTheWorstStretch ==
  \A p \in Peer :
    /\ peers[p].tracked =>
         /\ log[p] = <<>> => peers[p].score = 0
         /\ \A i \in DOMAIN log[p] :
              Excess(log[p], i) <= peers[p].score /\ peers[p].score < Threshold
    /\ bans[p].in /\ bans[p].until # Forever =>
         \E i \in DOMAIN log[p] : Excess(log[p], i) >= Threshold

Sole(p, a) == \A q \in Peer \ {p} : a \notin Addresses[q]

(* A banned peer is not tracked, and the ban of an id reaches the address it   *)
(* gave unless another id gives the same one (NET_INTERFACE.md: "Ban surfaces  *)
(* are unified").  Both must survive awaits, reconnections, greetings under a  *)
(* ban and bans that replace bans.                                            *)
BanSurfacesAgree ==
  \A p \in Peer : bans[p].in =>
    /\ ~peers[p].tracked
    /\ \A a \in {given[p], bans[p].address} \ {None} : Sole(p, a) => a \in bannedAddrs

(* No banned address is in the table, hearsay of other peers and rows on disk  *)
(* included, and the table in memory is the one on disk, so that a restart     *)
(* neither loses a peer nor brings back an evicted one.                        *)
TableFollowsBans ==
  /\ entries = stored
  /\ Known(entries) \cap bannedAddrs = {}
  /\ Cardinality(Known(entries)) <= Cap
=============================================================================
