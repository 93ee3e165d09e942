--------------------------- MODULE BlockDownload ---------------------------
(***************************************************************************)
(* How a node downloads blocks from its peers (main.cpp): the state it     *)
(* keeps per peer (CNodeState), the blocks in flight, the download window, *)
(* the choice of one peer to fetch headers from, and the two timeouts that *)
(* disconnect a peer which holds the download up.                          *)
(*                                                                         *)
(* cs_main makes every message handler and every SendMessages call one     *)
(* step.  Peers may stay silent, announce blocks they do not send, send    *)
(* blocks nobody asked for, send bad blocks and go away; the nodes in      *)
(* Honest answer, in time.  Clock readings are nondeterministic choices.   *)
(* A node id is used for one connection, as in the code.  Validation of    *)
(* blocks is abstracted (a block is good or bad when it arrives) and the   *)
(* active chain is the longest complete one: ChainState models both.       *)
(***************************************************************************)
EXTENDS Naturals, Sequences, FiniteSets, SequencesExt

CONSTANTS Blocks,     \* blocks of the network, without the genesis block 0
          Parent,     \* Parent[b]: the block before b
          Height,     \* Height[b]; chain power is height
          Nodes,      \* node ids
          PeerTip,    \* PeerTip[n]: the best block of peer n
          Honest,     \* nodes that answer before any timeout
          Preferred,  \* outbound or whitelisted nodes
          Window,     \* BLOCK_DOWNLOAD_WINDOW
          MaxInTransit, \* MAX_BLOCKS_IN_TRANSIT_PER_PEER
          None

Genesis == 0
Chain == Blocks \cup {Genesis}

ASSUME DownloadAssumption ==
    /\ IsFiniteSet(Blocks) /\ IsFiniteSet(Nodes)
    /\ Genesis \notin Blocks
    /\ Parent \in [Blocks -> Chain]
    /\ Height \in [Chain -> Nat] /\ Height[Genesis] = 0
    /\ \A b \in Blocks : Height[b] = Height[Parent[b]] + 1
    /\ PeerTip \in [Nodes -> Blocks]
    /\ Honest \subseteq Nodes /\ Preferred \subseteq Nodes
    /\ Window \in Nat \ {0} /\ MaxInTransit \in Nat \ {0}
    /\ None \notin Chain \cup Nodes

VARIABLES nodes,     \* mapNodeState
          inFlight,  \* mapBlocksInFlight: the node a block was requested from
          nQueuedValidatedHeaders,
          nSyncStarted,
          nPreferredDownload,
          known,     \* blocks whose header is in mapBlockIndex
          have,      \* blocks with BLOCK_HAVE_DATA
          tip        \* chainActive.Tip()

vars == <<nodes, inFlight, nQueuedValidatedHeaders, nSyncStarted,
          nPreferredDownload, known, have, tip>>

\* The ancestors of b, b included: CBlockIndex::GetAncestor walks these.
Ancestors[b \in Chain] == IF b = Genesis THEN {Genesis}
                          ELSE {b} \cup Ancestors[Parent[b]]

\* What a peer's CNodeState holds.  "asked" records a getheaders under way.
NodeState ==
    [conn : {"new", "up", "closing", "gone"},
     best : Chain \cup {None},       \* pindexBestKnownBlock
     unknown : Blocks \cup {None},   \* hashLastUnknownBlock
     common : Chain \cup {None},     \* pindexLastCommonBlock
     sync : BOOLEAN,                 \* fSyncStarted
     asked : BOOLEAN,
     stalling : BOOLEAN,             \* nStallingSince # 0
     flight : Seq([hash : Blocks, validated : 0..1]),  \* vBlocksInFlight
     nBlocksInFlight : 0..MaxInTransit,
     nValidHeaders : 0..MaxInTransit]   \* nBlocksInFlightValidHeaders

FreshNode ==
    [conn |-> "new", best |-> None, unknown |-> None, common |-> None,
     sync |-> FALSE, asked |-> FALSE, stalling |-> FALSE, flight |-> <<>>,
     nBlocksInFlight |-> 0, nValidHeaders |-> 0]

\* The types; in particular no peer ever has more than MaxInTransit blocks in
\* flight, although announcements and the download both request them.
TypeOK ==
    /\ nodes \in [Nodes -> NodeState]
    /\ inFlight \in [Blocks -> Nodes \cup {None}]
    /\ nQueuedValidatedHeaders \in Nat
    /\ nSyncStarted \in 0..Cardinality(Nodes)
    /\ nPreferredDownload \in 0..Cardinality(Preferred)
    /\ known \subseteq Chain
    /\ have \subseteq known
    /\ tip \in have

Init ==
    /\ nodes = [n \in Nodes |-> FreshNode]
    /\ inFlight = [b \in Blocks |-> None]
    /\ nQueuedValidatedHeaders = 0
    /\ nSyncStarted = 0
    /\ nPreferredDownload = 0
    /\ known = {Genesis}
    /\ have = {Genesis}
    /\ tip = Genesis

-----------------------------------------------------------------------------
(***************************************************************************)
(* The book-keeping of blocks in flight.  A book is the three variables    *)
(* MarkBlockAsReceived and MarkBlockAsInFlight change together.            *)
(***************************************************************************)

Book == [nodes |-> nodes, map |-> inFlight, queued |-> nQueuedValidatedHeaders]

SetBook(book) ==
    /\ nodes' = book.nodes
    /\ inFlight' = book.map
    /\ nQueuedValidatedHeaders' = book.queued

SetNode(book, n, s) ==
    [nodes |-> [book.nodes EXCEPT ![n] = s], map |-> book.map, queued |-> book.queued]

\* Where the iterator that mapBlocksInFlight holds for b points.
Entry(flight, b) == CHOOSE i \in 1..Len(flight) : flight[i].hash = b

\* Mutant: the time since which the peer stalls is not reset.
MarkReceivedKeepsStall(book, b) ==
    IF book.map[b] = None THEN book
    ELSE LET n == book.map[b]
             s == book.nodes[n]
             it == Entry(s.flight, b)
             validated == s.flight[it].validated
             rest == [s EXCEPT !.flight = RemoveAt(@, it),
                               !.nBlocksInFlight = @ - 1,
                               !.nValidHeaders = @ - validated]
         IN [nodes |-> [book.nodes EXCEPT ![n] = rest],
             map |-> [book.map EXCEPT ![b] = None],
             queued |-> book.queued - validated]

\* The request is forgotten, whoever the block came from, and the peer it was
\* requested from no longer stalls.
MarkBlockAsReceived(book, b) ==
    IF book.map[b] = None THEN book
    ELSE LET n == book.map[b]
             s == book.nodes[n]
             it == Entry(s.flight, b)
             validated == s.flight[it].validated
             rest == [s EXCEPT !.flight = RemoveAt(@, it),
                               !.nBlocksInFlight = @ - 1,
                               !.nValidHeaders = @ - validated,
                               !.stalling = FALSE]
         IN [nodes |-> [book.nodes EXCEPT ![n] = rest],
             map |-> [book.map EXCEPT ![b] = None],
             queued |-> book.queued - validated]

\* The block is requested from n and from nobody else.
MarkBlockAsInFlight(book, n, b, validated) ==
    LET clear == MarkBlockAsReceived(book, b)
        s == clear.nodes[n]
        more == [s EXCEPT !.flight = Append(@, [hash |-> b, validated |-> validated]),
                          !.nBlocksInFlight = @ + 1,
                          !.nValidHeaders = @ + validated]
    IN [nodes |-> [clear.nodes EXCEPT ![n] = more],
        map |-> [clear.map EXCEPT ![b] = n],
        queued |-> clear.queued + validated]

-----------------------------------------------------------------------------
(***************************************************************************)
(* Choosing what to download.                                              *)
(***************************************************************************)

\* ProcessBlockAvailability: the last announced block has become known.
ProcessBlockAvailability(s) ==
    IF s.unknown = None \/ s.unknown \notin known THEN s
    ELSE [s EXCEPT !.best = IF @ = None \/ Height[s.unknown] >= Height[@]
                            THEN s.unknown ELSE @,
                   !.unknown = None]

\* All data up to b is here: nChainTx # 0.
Complete(b) == Ancestors[b] \subseteq have

Highest(S) == CHOOSE b \in S : \A c \in S : Height[c] <= Height[b]

LastCommonAncestor(a, b) == Highest(Ancestors[a] \cap Ancestors[b])

\* FindNextBlocksToDownload for node n and a peer whose best block is `best':
\* from the last common block `base', the blocks to request in order, and the
\* node that keeps the window from moving.  The walk covers the ancestors of the
\* peer's best block from there to one past the window.
LastCommon(s) ==
    LET guess == IF s.common # None THEN s.common
                 ELSE Highest({a \in Ancestors[tip] : Height[a] <= Height[s.best]})
    IN LastCommonAncestor(guess, s.best)

Walk(best, base) ==
    {b \in Ancestors[best] : Height[b] \in Height[base] + 1 .. Height[base] + Window + 1}

Here(b) == b \in have \/ b \in Ancestors[tip]

Missing(walk) == {b \in walk : ~Here(b) /\ inFlight[b] = None}

\* Mutant: the window is one block too long.
InWindowOneMore(blocks, base) == blocks

InWindow(blocks, base) == {b \in blocks : Height[b] <= Height[base] + Window}

\* The node the first block in flight on the walk was requested from.
WaitingFor(walk) ==
    LET flying == {b \in walk : ~Here(b) /\ inFlight[b] # None}
    IN IF flying = {} THEN None
       ELSE inFlight[CHOOSE b \in flying : \A c \in flying : Height[b] <= Height[c]]

Lowest(S, count) ==
    {b \in S : Cardinality({c \in S : Height[c] < Height[b]}) < count}

-----------------------------------------------------------------------------
(***************************************************************************)
(* Connections.                                                            *)
(***************************************************************************)

\* InitializeNode, and the version message that says whether it is preferred.
Connect(n) ==
    /\ nodes[n].conn = "new"
    /\ nodes' = [nodes EXCEPT ![n].conn = "up"]
    /\ nPreferredDownload' = nPreferredDownload + (IF n \in Preferred THEN 1 ELSE 0)
    /\ UNCHANGED <<inFlight, nQueuedValidatedHeaders, nSyncStarted, known, have, tip>>

\* The connection breaks: the socket handler sets fDisconnect.
Drop(n) ==
    /\ n \notin Honest
    /\ nodes[n].conn = "up"
    /\ nodes' = [nodes EXCEPT ![n].conn = "closing"]
    /\ UNCHANGED <<inFlight, nQueuedValidatedHeaders, nSyncStarted,
                   nPreferredDownload, known, have, tip>>

\* Mutant: the requests of the node stay in mapBlocksInFlight.
FinalizeNodeKeepsRequests(n) ==
    /\ nodes[n].conn = "closing"
    /\ nSyncStarted' = nSyncStarted - (IF nodes[n].sync THEN 1 ELSE 0)
    /\ nPreferredDownload' = nPreferredDownload - (IF n \in Preferred THEN 1 ELSE 0)
    /\ nodes' = [nodes EXCEPT ![n] = [FreshNode EXCEPT !.conn = "gone"]]
    /\ UNCHANGED <<inFlight, nQueuedValidatedHeaders, known, have, tip>>

\* FinalizeNode: the requests of the node are released and its state erased.
\* nQueuedValidatedHeaders keeps counting the released requests.
FinalizeNode(n) ==
    /\ nodes[n].conn = "closing"
    /\ nSyncStarted' = nSyncStarted - (IF nodes[n].sync THEN 1 ELSE 0)
    /\ inFlight' = [b \in Blocks |->
                       IF b \in {e.hash : e \in Range(nodes[n].flight)}
                       THEN None ELSE inFlight[b]]
    /\ nPreferredDownload' = nPreferredDownload - (IF n \in Preferred THEN 1 ELSE 0)
    /\ nodes' = [nodes EXCEPT ![n] = [FreshNode EXCEPT !.conn = "gone"]]
    /\ UNCHANGED <<nQueuedValidatedHeaders, known, have, tip>>

-----------------------------------------------------------------------------
(***************************************************************************)
(* Messages from peers.                                                    *)
(***************************************************************************)

\* An honest peer announces its best block, another one anything.
MayAnnounce(n) == IF n \in Honest THEN {PeerTip[n]} ELSE Blocks

\* "inv": the announcement is noted; an unknown block not in flight makes the
\* node ask for headers and, when its tip is recent, for the block itself.
Inv(n, b, recent) ==
    /\ nodes[n].conn = "up"
    /\ b \in MayAnnounce(n)
    /\ LET noted == [nodes[n] EXCEPT !.unknown = b]
           asked == [noted EXCEPT !.asked = TRUE]
       IN IF b \in known \/ inFlight[b] # None THEN SetBook(SetNode(Book, n, noted))
          ELSE IF recent /\ nodes[n].nBlocksInFlight < MaxInTransit
          THEN SetBook(MarkBlockAsInFlight(SetNode(Book, n, asked), n, b, 0))
          ELSE SetBook(SetNode(Book, n, asked))
    /\ UNCHANGED <<nSyncStarted, nPreferredDownload, known, have, tip>>

\* "headers": the answer to getheaders, up to the peer's best block.
Headers(n) ==
    /\ nodes[n].conn = "up"
    /\ nodes[n].asked
    /\ known' = known \cup Ancestors[PeerTip[n]]
    /\ nodes' = [nodes EXCEPT ![n].asked = FALSE, ![n].unknown = PeerTip[n]]
    /\ UNCHANGED <<inFlight, nQueuedValidatedHeaders, nSyncStarted,
                   nPreferredDownload, have, tip>>

\* ActivateBestChain once the data in S is here.
BestTip(S) ==
    LET complete == {b \in S : Ancestors[b] \subseteq S}
        best == Highest(complete)
    IN IF Height[best] > Height[tip] THEN best ELSE tip

\* AcceptBlock: a good block whose parent is known is stored if it was requested
\* or if it adds work and is not too far ahead.
Accepted(b, requested) ==
    /\ Parent[b] \in known
    /\ b \notin have
    /\ requested \/ (Height[b] > Height[tip] /\ Height[b] <= Height[tip] + Window)

\* "block", and ProcessNewBlock: the block is marked as received before anything
\* else, then stored and connected if it is good.  It need not come from the peer
\* it was requested from, and it need not have been requested.
Block(n, b, good) ==
    /\ nodes[n].conn = "up"
    /\ b \in Ancestors[PeerTip[n]]
    /\ good \/ n \notin Honest
    /\ SetBook(MarkBlockAsReceived(Book, b))
    /\ LET store == good /\ Accepted(b, inFlight[b] # None)
       IN /\ have' = IF store THEN have \cup {b} ELSE have
          /\ tip' = IF store THEN BestTip(have \cup {b}) ELSE tip
          /\ known' = IF good /\ Parent[b] \in known THEN known \cup {b} ELSE known
    /\ UNCHANGED <<nSyncStarted, nPreferredDownload>>

-----------------------------------------------------------------------------
(***************************************************************************)
(* SendMessages.                                                           *)
(***************************************************************************)

\* fFetch: a nice peer, or there is no nice peer.
Fetch(n) == n \in Preferred \/ nPreferredDownload = 0

\* Mutant: only a peer that keeps the window from moving times out.
TimeOutStallOnly(n) ==
    /\ nodes[n].conn = "up"
    /\ n \notin Honest
    /\ nodes[n].stalling
    /\ nodes' = [nodes EXCEPT ![n].conn = "closing"]
    /\ UNCHANGED <<inFlight, nQueuedValidatedHeaders, nSyncStarted,
                   nPreferredDownload, known, have, tip>>

\* One of the two timeouts has passed: the peer keeps the window from moving, or
\* its oldest request is overdue.
TimeOut(n) ==
    /\ nodes[n].conn = "up"
    /\ n \notin Honest
    /\ nodes[n].stalling \/ nodes[n].flight # <<>>
    /\ nodes' = [nodes EXCEPT ![n].conn = "closing"]
    /\ UNCHANGED <<inFlight, nQueuedValidatedHeaders, nSyncStarted,
                   nPreferredDownload, known, have, tip>>

\* Headers are asked of one peer only, unless the best header is recent.
StartsSync(n, recent) ==
    ~nodes[n].sync /\ (recent \/ (nSyncStarted = 0 /\ Fetch(n)))

\* Blocks are requested during initial download.
Requests(n) == Fetch(n) /\ nodes[n].nBlocksInFlight < MaxInTransit

\* FindNextBlocksToDownload when the peer has nothing interesting.
NothingInteresting(s) == s.best \notin {b \in Chain : Height[b] >= Height[tip]}

\* The blocks of S, at most one of each height and none above `top', are
\* requested from n, lowest first.
RequestAll(book, n, S, top) ==
    LET asked[h \in 0..top] ==
            IF h = 0 THEN book
            ELSE IF \A b \in S : Height[b] # h THEN asked[h - 1]
            ELSE MarkBlockAsInFlight(asked[h - 1], n, CHOOSE b \in S : Height[b] = h, 1)
    IN asked[top]

\* The blocks that a peer with something interesting has are requested from it,
\* or the peer that stalls us is noted if we could request nothing.
Download(n, s, begun) ==
    \E base \in {LastCommon(s)} :
    \E walk \in {Walk(s.best, base)} :
    \E missing \in {Missing(walk)} :
    \E fetch \in {Lowest(InWindow(missing, base), MaxInTransit - s.nBlocksInFlight)} :
    \E looked \in {SetNode(Book, n, [begun EXCEPT
           !.best = s.best,
           !.unknown = s.unknown,
           !.common = Highest({base} \cup {b \in walk : Here(b) /\ Complete(b)})])} :
    \E staller \in {WaitingFor(walk)} :
       IF fetch = {} /\ missing # {} /\ s.nBlocksInFlight = 0 /\ staller \notin {None, n}
       THEN SetBook(SetNode(looked, staller,
                       [looked.nodes[staller] EXCEPT !.stalling = TRUE]))
       ELSE SetBook(RequestAll(looked, n, fetch, Height[s.best]))

\* No timeout has passed: start headers synchronisation, and request blocks.
SendMessages(n, recent) ==
    /\ nodes[n].conn = "up"
    /\ \E sync \in {StartsSync(n, recent)}, s \in {ProcessBlockAvailability(nodes[n])} :
          \E begun \in {[nodes[n] EXCEPT !.sync = @ \/ sync, !.asked = @ \/ sync]} :
             /\ nSyncStarted' = nSyncStarted + (IF sync THEN 1 ELSE 0)
             /\ \/ ~Requests(n) /\ SetBook(SetNode(Book, n, begun))
                \/ /\ Requests(n)
                   /\ NothingInteresting(s)
                   /\ SetBook(SetNode(Book, n, [begun EXCEPT !.best = s.best,
                                                             !.unknown = s.unknown]))
                \/ Requests(n) /\ ~NothingInteresting(s) /\ Download(n, s, begun)
    /\ UNCHANGED <<nPreferredDownload, known, have, tip>>

Next ==
    \E n \in Nodes :
        \/ Connect(n)
        \/ Drop(n)
        \/ FinalizeNode(n)
        \/ \E b \in Blocks, recent \in BOOLEAN : Inv(n, b, recent)
        \/ Headers(n)
        \/ \E b \in Blocks, good \in BOOLEAN : Block(n, b, good)
        \/ TimeOut(n)
        \/ \E recent \in BOOLEAN : SendMessages(n, recent)

\* A peer that is not honest announces a block or sends one.
Meddles(n) ==
    \/ \E b \in Blocks, recent \in BOOLEAN : Inv(n, b, recent)
    \/ \E b \in Blocks, good \in BOOLEAN : Block(n, b, good)

(***************************************************************************)
(* The message and socket threads serve every node again and again, and    *)
(* clocks advance, so that a timeout that can pass does.  Honest nodes     *)
(* connect, answer the requests they get, and announce their best block    *)
(* again and again, as peers do when blocks are found: nothing else makes  *)
(* the node turn away from a silent peer it has asked for headers.  The    *)
(* other peers meddle finitely often; what they hold back they may hold    *)
(* back forever.                                                           *)
(***************************************************************************)
Fairness ==
    /\ \A n \in Nodes : WF_vars(SendMessages(n, FALSE))
    /\ \A n \in Nodes \ Honest :
          /\ WF_vars(TimeOut(n))
          /\ WF_vars(FinalizeNode(n))
          /\ <>[][~Meddles(n)]_vars
    /\ \A n \in Honest :
          /\ WF_vars(Connect(n))
          /\ WF_vars(Headers(n))
          /\ WF_vars(Inv(n, PeerTip[n], FALSE))
          /\ WF_vars(\E b \in Blocks : inFlight[b] = n /\ Block(n, b, TRUE))

Spec == Init /\ [][Next]_vars /\ Fairness

-----------------------------------------------------------------------------
InFlightOf(n) == {e.hash : e \in Range(nodes[n].flight)}

\* mapBlocksInFlight, the lists of the nodes and their counters tell one story
\* through late answers, answers from the wrong peer, timeouts and disconnects:
\* each request is listed once, with the node the map names, and none outlives its
\* node (MarkBlockAsReceived would follow a dangling iterator); the global counts
\* that decide who is asked for headers and blocks match the nodes there are.
InFlightConsistent ==
    /\ \A b \in Blocks, n \in Nodes : inFlight[b] = n <=> b \in InFlightOf(n)
    /\ \A n \in Nodes :
          /\ Cardinality(InFlightOf(n)) = Len(nodes[n].flight)
          /\ nodes[n].nBlocksInFlight = Len(nodes[n].flight)
          /\ nodes[n].nValidHeaders =
                Cardinality({e \in Range(nodes[n].flight) : e.validated = 1})
          /\ nodes[n].flight # <<>> => nodes[n].conn \in {"up", "closing"}
    /\ nSyncStarted = Cardinality({n \in Nodes : nodes[n].sync})
    /\ nPreferredDownload =
          Cardinality({n \in Preferred : nodes[n].conn \in {"up", "closing"}})

\* A node is blamed for stalling only while it owes a block: an answer, its own or
\* another peer's, clears it before the stalling timeout can disconnect it.
StallersOwe ==
    \A n \in Nodes : nodes[n].stalling => nodes[n].flight # <<>>

\* A block requested through its header lies at most a window above a block whose
\* chain is all here, whatever branch the peer has moved to since: blocks arrive
\* in nearly the right order, which pruning counts on.
WindowRespected ==
    \A n \in Nodes : \A e \in Range(nodes[n].flight) :
        e.validated = 1 =>
            \E a \in Ancestors[e.hash] :
                Complete(a) /\ Height[e.hash] <= Height[a] + Window

\* nQueuedValidatedHeaders is the "Number of blocks in flight with validated
\* headers" (main.cpp:266), from which every request's timeout is computed.
QueuedExact ==
    nQueuedValidatedHeaders =
        Cardinality({p \in Nodes \X [hash : Blocks, validated : {1}] :
                         p[2] \in Range(nodes[p[1]].flight)})

\* With one honest outbound peer the node gets that peer's whole chain, whatever
\* the others announce, hold back, send or drop: a block a silent peer sits on is
\* released by a timeout and fetched from the honest one.
Downloaded ==
    (\E n \in Honest : n \in Preferred) =>
        <>(\A n \in Honest \cap Preferred : Ancestors[PeerTip[n]] \subseteq have)
=============================================================================
