------------------------ MODULE BlockDownloadProofs ------------------------
(***************************************************************************)
(* Proofs about the download of blocks: mapBlocksInFlight, the peers'      *)
(* lists and the counters agree through every message, timeout and         *)
(* disconnect; only a peer that owes a block is blamed for stalling; no    *)
(* request made through a header lies outside the window.                  *)
(***************************************************************************)
EXTENDS BlockDownload, FiniteSetTheorems, SequenceTheorems, WellFoundedInduction, TLAPS

-----------------------------------------------------------------------------
(* The inductive invariant *)

Request == [hash : Blocks, validated : 0..1]

Hashes(flight) == {e.hash : e \in Range(flight)}
Validated(flight) == {e \in Range(flight) : e.validated = 1}

(* Requests in flight from one node: no block twice. *)
FlightOk(flight) ==
  /\ flight \in Seq(Request)
  /\ \A i, j \in 1..Len(flight) : flight[i].hash = flight[j].hash => i = j

(* CNodeState; the bounds on the counters are not needed. *)
NodeRecord ==
  [conn : {"new", "up", "closing", "gone"}, best : Chain \cup {None},
   unknown : Blocks \cup {None}, common : Chain \cup {None}, sync : BOOLEAN,
   asked : BOOLEAN, stalling : BOOLEAN, flight : Seq(Request),
   nBlocksInFlight : Nat, nValidHeaders : Nat]

NodeOk(s) ==
  /\ FlightOk(s.flight)
  /\ s.nBlocksInFlight = Len(s.flight)
  /\ s.nValidHeaders = Cardinality(Validated(s.flight))
  /\ s.flight # <<>> => s.conn \in {"up", "closing"}
  /\ s.stalling => s.flight # <<>>

(* Lists and map: what the functions on books keep. *)
BookOk(ns, map) ==
  /\ ns \in [Nodes -> NodeRecord]
  /\ map \in [Blocks -> Nodes \cup {None}]
  /\ \A n \in Nodes : NodeOk(ns[n])
  /\ \A n \in Nodes, b \in Blocks : map[b] = n <=> b \in Hashes(ns[n].flight)

Syncing(ns) == {n \in Nodes : ns[n].sync}
Serving(ns) == {n \in Preferred : ns[n].conn \in {"up", "closing"}}

CountsOk ==
  /\ nSyncStarted = Cardinality(Syncing(nodes))
  /\ nPreferredDownload = Cardinality(Serving(nodes))

(* The download starts from blocks whose chain is all here. *)
ChainOk ==
  /\ have \subseteq Chain /\ Genesis \in have
  /\ tip \in Chain /\ Complete(tip)
  /\ \A n \in Nodes : nodes[n].common # None => Complete(nodes[n].common)

(* A request made through a header is near a block whose chain is all here. *)
Near(e) ==
  e.validated = 1 =>
    \E a \in Ancestors[e.hash] : Complete(a) /\ Height[e.hash] =< Height[a] + Window

IInv ==
  /\ BookOk(nodes, inFlight)
  /\ nQueuedValidatedHeaders \in Int
  /\ CountsOk
  /\ ChainOk
  /\ \A n \in Nodes : \A e \in Range(nodes[n].flight) : Near(e)

-----------------------------------------------------------------------------
(* Blocks and heights *)

(* A set of natural numbers has a least element. *)
LEMMA LeastNatural ==
  ASSUME NEW S \in SUBSET Nat, S # {}
  PROVE  \E n \in S : \A m \in S : n =< m
<1> DEFINE R == {p \in Nat \X Nat : p[1] < p[2]}
<1>1. OpToRel(<, Nat) = R
  BY DEF OpToRel
<1>2. IsWellFoundedOn(R, Nat)
  BY <1>1, NatLessThanWellFounded, Zenon
<1> HIDE DEF R
<1>3. PICK n \in S : \A m \in S : ~(<<m, n>> \in R)
  BY <1>2, WFMin, Zenon
<1>4. \A m \in S : ~(m < n)
  BY <1>3 DEF R
<1> QED
  BY <1>4

(* A function has a bound on a finite set. *)
LEMMA FiniteIsBounded ==
  ASSUME NEW S, IsFiniteSet(S), NEW f, \A x \in S : f[x] \in Nat
  PROVE  \E bound \in Nat : \A x \in S : f[x] =< bound
<1> DEFINE Within(T) == \E bound \in Nat : \A x \in T : f[x] =< bound
           Bad == {n \in Nat : \E T \in SUBSET S : /\ IsFiniteSet(T) /\ Cardinality(T) = n
                                                     /\ ~Within(T)}
<1>1. Bad = {}
  <2> SUFFICES ASSUME Bad # {} PROVE FALSE
    OBVIOUS
  <2>1. PICK n \in Bad : \A m \in Bad : n =< m
    <3> HIDE DEF Bad
    <3>1. Bad \in SUBSET Nat
      BY DEF Bad
    <3> QED
      BY <3>1, LeastNatural
  <2>2. PICK T \in SUBSET S : IsFiniteSet(T) /\ Cardinality(T) = n /\ ~Within(T)
    BY <2>1
  <2>3. PICK x \in T : TRUE
    <3>1. T # {}
      BY <2>2
    <3> QED
      BY <3>1
  <2> DEFINE U == T \ {x}
  <2>4. IsFiniteSet(U) /\ Cardinality(U) = n - 1
    BY <2>2, <2>3, FS_RemoveElement
  <2>5. n \in Nat /\ n - 1 \in Nat /\ U \in SUBSET S
    <3>1. Cardinality(U) \in Nat
      BY <2>4, FS_CardinalityType
    <3> QED
      BY <2>1, <2>4, <3>1
  <2>6. n - 1 \notin Bad
    <3> HIDE DEF Bad
    <3> QED
      BY <2>1, <2>5
  <2> HIDE DEF U, Within
  <2>7. Within(U)
    BY <2>4, <2>5, <2>6
  <2>8. PICK bound \in Nat : \A y \in U : f[y] =< bound
    BY <2>7 DEF Within
  <2>9. \A y \in T : f[y] =< bound + f[x]
    BY <2>2, <2>3, <2>8 DEF U
  <2>10. bound + f[x] \in Nat
    BY <2>3
  <2>11. Within(T)
    BY <2>9, <2>10 DEF Within
  <2> QED
    BY <2>2, <2>11
<1>2. Cardinality(S) \in Nat /\ Cardinality(S) \notin Bad
  BY <1>1, FS_CardinalityType
<1> QED
  BY <1>2

(* Highest picks a member of any set of blocks but the empty one. *)
LEMMA HighestIn ==
  ASSUME NEW S \in SUBSET Chain, S # {}
  PROVE  Highest(S) \in S
<1>1. IsFiniteSet(Chain)
  BY DownloadAssumption, FS_AddElement DEF Chain
<1>2. IsFiniteSet(S) /\ \A x \in S : Height[x] \in Nat
  BY <1>1, FS_Subset, DownloadAssumption
<1>3. PICK bound \in Nat : \A x \in S : Height[x] =< bound
  BY <1>2, FiniteIsBounded
<1> DEFINE Gaps == {bound - Height[x] : x \in S}
<1>4. Gaps \in SUBSET Nat /\ Gaps # {}
  BY <1>2, <1>3
<1>5. PICK g \in Gaps : \A h \in Gaps : g =< h
  <2> HIDE DEF Gaps
  <2> QED
    BY <1>4, LeastNatural
<1>6. PICK b \in S : g = bound - Height[b]
  BY <1>5
<1>7. \A c \in S : Height[c] =< Height[b]
  <2> SUFFICES ASSUME NEW c \in S PROVE Height[c] =< Height[b]
    OBVIOUS
  <2>1. bound - Height[b] =< bound - Height[c]
    BY <1>5, <1>6
  <2> QED
    BY <2>1, <1>2
<1> QED
  BY <1>7 DEF Highest

(* A set of blocks with the parents of its blocks. *)
Closed(S) == \A x \in S : x # Genesis => Parent[x] \in S

Least(b) == {c \in Chain : \A S \in SUBSET Chain : b \in S /\ Closed(S) => c \in S}

(* The recursion that defines Ancestors has a solution: the least closed sets. *)
LEMMA LeastSolves ==
  [b \in Chain |-> Least(b)] =
    [b \in Chain |-> IF b = Genesis THEN {Genesis}
                     ELSE {b} \cup [c \in Chain |-> Least(c)][Parent[b]]]
<1>1. Genesis \in Chain /\ \A b \in Chain : b # Genesis => Parent[b] \in Chain
  BY DownloadAssumption DEF Chain
<1>2. Least(Genesis) = {Genesis}
  <2>1. {Genesis} \in SUBSET Chain /\ Genesis \in {Genesis} /\ Closed({Genesis})
    BY <1>1 DEF Closed
  <2> QED
    BY <1>1, <2>1 DEF Least
<1>3. ASSUME NEW b \in Chain, b # Genesis
      PROVE  Least(b) = {b} \cup Least(Parent[b])
  <2>1. ASSUME NEW c \in {b} \cup Least(Parent[b])
        PROVE  c \in Least(b)
    <3>1. c \in Chain
      BY <2>1 DEF Least
    <3>2. ASSUME NEW S \in SUBSET Chain, b \in S, Closed(S)
          PROVE  c \in S
      <4>1. Parent[b] \in S
        BY <3>2, <1>3 DEF Closed
      <4> QED
        BY <2>1, <3>2, <4>1 DEF Least
    <3> QED
      BY <3>1, <3>2 DEF Least
  <2> DEFINE T == {b} \cup Least(Parent[b])
  <2>2. T \in SUBSET Chain /\ b \in T
    BY DEF Least
  <2>3. Parent[b] \in T
    BY <1>1, <1>3 DEF Least
  <2>4. ASSUME NEW x \in Least(Parent[b]), x # Genesis
        PROVE  Parent[x] \in Least(Parent[b])
    <3>1. x \in Chain /\ Parent[x] \in Chain
      BY <2>4, <1>1 DEF Least
    <3>2. ASSUME NEW S \in SUBSET Chain, Parent[b] \in S, Closed(S)
          PROVE  Parent[x] \in S
      BY <2>4, <3>2 DEF Least, Closed
    <3> QED
      BY <3>1, <3>2 DEF Least
  <2>5. Closed(T)
    BY <2>3, <2>4 DEF Closed
  <2>6. Least(b) \subseteq T
    <3> HIDE DEF T
    <3> QED
      BY <2>2, <2>5 DEF Least
  <2> QED
    BY <2>1, <2>6
<1> HIDE DEF Genesis
<1>4. ASSUME NEW b \in Chain
      PROVE  Least(b) = IF b = Genesis THEN {Genesis}
                        ELSE {b} \cup [c \in Chain |-> Least(c)][Parent[b]]
  BY <1>1, <1>2, <1>3
<1> QED
  BY <1>4

(* A block's ancestors are itself and its parent's ancestors. *)
LEMMA AncestorsStep ==
  /\ Ancestors[Genesis] = {Genesis}
  /\ \A b \in Blocks : Ancestors[b] = {b} \cup Ancestors[Parent[b]]
<1> DEFINE Solves(f) == f = [b \in Chain |-> IF b = Genesis THEN {Genesis}
                                            ELSE {b} \cup f[Parent[b]]]
<1>1. Solves([b \in Chain |-> Least(b)])
  BY LeastSolves
<1>2. Ancestors = CHOOSE f : Solves(f)
  BY DEF Ancestors
<1>3. Solves(Ancestors)
  <2> HIDE DEF Solves
  <2> QED
    BY <1>1, <1>2
<1>4. \A b \in Chain : Ancestors[b] = IF b = Genesis THEN {Genesis}
                                     ELSE {b} \cup Ancestors[Parent[b]]
  BY <1>3
<1> QED
  BY <1>4, DownloadAssumption DEF Chain

(* What GetAncestor relies on: the ancestors of b are below b, and their *)
(* ancestors are ancestors of b.                                         *)
AncestorsOk(b) ==
  /\ Ancestors[b] \subseteq Chain
  /\ b \in Ancestors[b] /\ Genesis \in Ancestors[b]
  /\ \A a \in Ancestors[b] :
       /\ Height[a] =< Height[b]
       /\ Height[a] = Height[b] => a = b
       /\ Ancestors[a] \subseteq Ancestors[b]

(* If the parent's ancestors are in order, so are the block's. *)
LEMMA AncestorsNext ==
  ASSUME NEW b \in Blocks, AncestorsOk(Parent[b])
  PROVE  AncestorsOk(b)
<1> DEFINE p == Parent[b]
<1>1. Ancestors[b] = {b} \cup Ancestors[p] /\ b \in Chain /\ p \in Chain
  BY AncestorsStep, DownloadAssumption DEF Chain
<1>2. Height[b] = Height[p] + 1 /\ Height[p] \in Nat /\ \A a \in Chain : Height[a] \in Nat
  BY <1>1, DownloadAssumption
<1>3. AncestorsOk(p)
  OBVIOUS
<1> HIDE DEF p
<1>4. \A a \in Ancestors[p] : Height[a] < Height[b] /\ Ancestors[a] \subseteq Ancestors[b]
  BY <1>1, <1>2, <1>3 DEF AncestorsOk
<1>5. \A a \in Ancestors[b] : /\ Height[a] =< Height[b]
                              /\ Height[a] = Height[b] => a = b
                              /\ Ancestors[a] \subseteq Ancestors[b]
  <2>1. ASSUME NEW a \in Ancestors[p]
        PROVE  Height[a] \in Nat /\ Height[b] \in Nat
    BY <1>1, <1>2, <1>3 DEF AncestorsOk
  <2> QED
    BY <1>1, <1>2, <1>4, <2>1
<1> QED
  BY <1>1, <1>3, <1>5 DEF AncestorsOk

(* They always are: by induction on the height, that is, at a lowest block *)
(* where they were not, its parent would be lower still.                   *)
LEMMA AncestorsFacts ==
  \A b \in Chain : AncestorsOk(b)
<1> DEFINE Bad == {h \in Nat : \E b \in Chain : Height[b] = h /\ ~AncestorsOk(b)}
<1>1. \A b \in Chain : Height[b] \in Nat
  BY DownloadAssumption
<1>2. Bad = {}
  <2> SUFFICES ASSUME Bad # {} PROVE FALSE
    OBVIOUS
  <2>1. PICK h \in Bad : \A g \in Bad : h =< g
    <3>1. Bad \in SUBSET Nat
      OBVIOUS
    <3> HIDE DEF Bad
    <3> QED
      BY <3>1, LeastNatural
  <2>2. PICK b \in Chain : Height[b] = h /\ ~AncestorsOk(b)
    BY <2>1
  <2>3. AncestorsOk(Genesis)
    <3>1. Ancestors[Genesis] = {Genesis} /\ Genesis \in Chain
      BY AncestorsStep DEF Chain
    <3>2. Height[Genesis] =< Height[Genesis]
      BY <3>1, <1>1
    <3> QED
      BY <3>1, <3>2 DEF AncestorsOk
  <2>4. b \in Blocks /\ Parent[b] \in Chain
    BY <2>2, <2>3, DownloadAssumption DEF Chain
  <2>5. ~AncestorsOk(Parent[b])
    BY <2>2, <2>4, AncestorsNext
  <2>6. Height[Parent[b]] \in Bad /\ Height[b] = Height[Parent[b]] + 1
    BY <2>4, <2>5, <1>1, DownloadAssumption
  <2>7. h =< Height[Parent[b]]
    <3> HIDE DEF Bad
    <3> QED
      BY <2>1, <2>6
  <2> QED
    BY <2>2, <2>4, <2>6, <2>7, <1>1
<1> QED
  BY <1>1, <1>2

(* Of two ancestors of a block, the lower one is an ancestor of the other. *)
LEMMA AncestorsOrdered ==
  ASSUME NEW b \in Chain, NEW a \in Ancestors[b], NEW c \in Ancestors[b],
         Height[a] =< Height[c]
  PROVE  a \in Ancestors[c]
<1> DEFINE Apart(x) == \E y, z \in Ancestors[x] : Height[y] =< Height[z] /\ y \notin Ancestors[z]
           Bad == {h \in Nat : \E x \in Chain : Height[x] = h /\ Apart(x)}
<1>1. \A x \in Chain : Height[x] \in Nat
  BY DownloadAssumption
<1>2. Bad = {}
  <2> SUFFICES ASSUME Bad # {} PROVE FALSE
    OBVIOUS
  <2>1. PICK h \in Bad : \A g \in Bad : h =< g
    <3>1. Bad \in SUBSET Nat
      OBVIOUS
    <3> HIDE DEF Bad
    <3> QED
      BY <3>1, LeastNatural
  <2>2. PICK x \in Chain : Height[x] = h /\ Apart(x)
    BY <2>1
  <2>3. PICK y \in Ancestors[x], z \in Ancestors[x] :
               Height[y] =< Height[z] /\ y \notin Ancestors[z]
    BY <2>2
  <2>4. AncestorsOk(x) /\ AncestorsOk(z) /\ AncestorsOk(y) /\ z \in Chain /\ y \in Chain
    BY <2>3, AncestorsFacts DEF AncestorsOk
  <2>5. z # x
    BY <2>3
  <2>6. y # x
    <3> SUFFICES ASSUME y = x PROVE FALSE
      OBVIOUS
    <3>1. Height[z] = Height[x]
      BY <2>3, <2>4, <1>1 DEF AncestorsOk
    <3> QED
      BY <2>3, <2>4, <2>5, <3>1 DEF AncestorsOk
  <2>7. x # Genesis
    BY <2>3, <2>5, AncestorsStep
  <2>8. x \in Blocks /\ Parent[x] \in Chain
    BY <2>2, <2>7, DownloadAssumption DEF Chain
  <2>9. y \in Ancestors[Parent[x]] /\ z \in Ancestors[Parent[x]]
    BY <2>3, <2>5, <2>6, <2>8, AncestorsStep
  <2>10. Apart(Parent[x])
    BY <2>3, <2>9
  <2>11. Height[Parent[x]] \in Bad /\ Height[x] = Height[Parent[x]] + 1
    BY <2>8, <2>10, <1>1, DownloadAssumption
  <2>12. h =< Height[Parent[x]]
    <3> HIDE DEF Bad
    <3> QED
      BY <2>1, <2>11
  <2> QED
    BY <2>2, <2>8, <2>11, <2>12, <1>1
<1> QED
  BY <1>1, <1>2

-----------------------------------------------------------------------------
(* The list of a node *)

(* Entries and hashes of a list. *)
LEMMA FlightRange ==
  ASSUME NEW fl \in Seq(Request)
  PROVE  /\ Range(fl) = {fl[i] : i \in 1..Len(fl)}
         /\ Range(fl) \subseteq Request
         /\ Hashes(fl) = {fl[i].hash : i \in 1..Len(fl)}
         /\ Hashes(fl) \subseteq Blocks
<1>1. DOMAIN fl = 1..Len(fl) /\ \A i \in 1..Len(fl) : fl[i] \in Request
  OBVIOUS
<1>2. Range(fl) = {fl[i] : i \in 1..Len(fl)}
  BY <1>1 DEF Range
<1>3. \A e \in Request : e.hash \in Blocks
  BY DEF Request
<1> HIDE DEF Request
<1>4. Hashes(fl) = {fl[i].hash : i \in 1..Len(fl)}
  BY <1>2 DEF Hashes
<1> QED
  BY <1>1, <1>2, <1>3, <1>4

(* A list is finite, and as long as it names blocks. *)
LEMMA FlightFinite ==
  ASSUME NEW fl, FlightOk(fl)
  PROVE  /\ IsFiniteSet(Validated(fl)) /\ Cardinality(Validated(fl)) \in Nat
         /\ Cardinality(Hashes(fl)) = Len(fl)
<1>1. fl \in Seq(Request) /\ Len(fl) \in Nat
  BY DEF FlightOk
<1>2. Range(fl) = {fl[i] : i \in 1..Len(fl)} /\ Hashes(fl) = {fl[i].hash : i \in 1..Len(fl)}
  BY <1>1, FlightRange
<1> DEFINE f == [i \in 1..Len(fl) |-> fl[i]]
           g == [i \in 1..Len(fl) |-> fl[i].hash]
<1>3. f \in Surjection(1..Len(fl), Range(fl))
  BY <1>2 DEF Surjection
<1>4. IsFiniteSet(1..Len(fl))
  BY <1>1, FS_Interval
<1>5. IsFiniteSet(Range(fl))
  BY <1>3, <1>4, FS_Surjection
<1>6. IsFiniteSet(Validated(fl))
  BY <1>5, FS_Subset DEF Validated
<1>7. g \in Bijection(1..Len(fl), Hashes(fl))
  <2>1. g \in [1..Len(fl) -> Hashes(fl)]
    BY <1>2
  <2>2. \A i, j \in 1..Len(fl) : g[i] = g[j] => i = j
    BY DEF FlightOk
  <2>3. \A x \in Hashes(fl) : \E i \in 1..Len(fl) : g[i] = x
    BY <1>2
  <2> HIDE DEF g
  <2> QED
    BY <2>1, <2>2, <2>3 DEF Bijection, Injection, Surjection, IsInjective
<1>8. Cardinality(Hashes(fl)) = Len(fl)
  BY <1>1, <1>7, FS_CountingElements DEF ExistsBijection
<1> QED
  BY <1>6, <1>8, FS_CardinalityType

(* The iterator in the map points at the block's only entry. *)
LEMMA EntryFacts ==
  ASSUME NEW fl, FlightOk(fl), NEW b \in Hashes(fl)
  PROVE  /\ Entry(fl, b) \in 1..Len(fl)
         /\ fl[Entry(fl, b)].hash = b
<1>1. \E i \in 1..Len(fl) : fl[i].hash = b
  BY FlightRange DEF FlightOk
<1> QED
  BY <1>1 DEF Entry

(* What a list becomes when a block is received. *)
Without(fl, g, b, validated) ==
  /\ FlightOk(g)
  /\ Len(g) = Len(fl) - 1
  /\ Hashes(g) = Hashes(fl) \ {b}
  /\ Range(g) \subseteq Range(fl)
  /\ validated \in 0..1
  /\ Cardinality(Validated(g)) = Cardinality(Validated(fl)) - validated

(* Erasing the entry of b does that. *)
LEMMA Erase ==
  ASSUME NEW fl, FlightOk(fl), NEW b \in Hashes(fl)
  PROVE  Without(fl, RemoveAt(fl, Entry(fl, b)), b, fl[Entry(fl, b)].validated)
<1> DEFINE it == Entry(fl, b)
           g == RemoveAt(fl, it)
<1>1. it \in 1..Len(fl) /\ fl[it].hash = b
  BY EntryFacts
<1>2. fl \in Seq(Request) /\ Len(fl) \in Nat /\ \A i \in 1..Len(fl) : fl[i] \in Request
  BY DEF FlightOk
<1> HIDE DEF it
<1>3. /\ g \in Seq(Request) /\ Len(g) = Len(fl) - 1
      /\ \A i \in 1..Len(g) : g[i] = IF i < it THEN fl[i] ELSE fl[i + 1]
  <2> DEFINE l == SubSeq(fl, 1, it - 1)
             r == SubSeq(fl, it + 1, Len(fl))
  <2>1. l \in Seq(Request) /\ Len(l) = it - 1 /\ \A i \in 1..(it - 1) : l[i] = fl[i]
    BY <1>1, <1>2
  <2>2. r \in Seq(Request) /\ Len(r) = Len(fl) - it
        /\ \A i \in 1..(Len(fl) - it) : r[i] = fl[it + i]
    BY <1>1, <1>2
  <2>3. g = l \o r
    BY DEF RemoveAt
  <2> HIDE DEF l, r, g
  <2>4. /\ g \in Seq(Request) /\ Len(g) = Len(fl) - 1
        /\ \A i \in 1..Len(g) : g[i] = IF i =< Len(l) THEN l[i] ELSE r[i - Len(l)]
    <3>1. l \o r \in Seq(Request) /\ Len(l \o r) = Len(l) + Len(r)
      BY <2>1, <2>2, ConcatProperties
    <3>2. \A i \in 1..(Len(l) + Len(r)) :
             (l \o r)[i] = IF i =< Len(l) THEN l[i] ELSE r[i - Len(l)]
      BY <2>1, <2>2, ConcatProperties
    <3> QED
      BY <1>1, <1>2, <2>1, <2>2, <2>3, <3>1, <3>2
  <2>5. ASSUME NEW i \in 1..Len(g)
        PROVE  g[i] = IF i < it THEN fl[i] ELSE fl[i + 1]
    <3>1. CASE i < it
      BY <1>1, <1>2, <2>1, <2>4, <3>1
    <3>2. CASE ~(i < it)
      <4>1. i - Len(l) \in 1..(Len(fl) - it) /\ it + (i - Len(l)) = i + 1 /\ ~(i =< Len(l))
        BY <1>1, <1>2, <2>1, <2>4, <3>2
      <4>2. g[i] = r[i - Len(l)]
        BY <2>4, <4>1
      <4> QED
        BY <2>2, <3>2, <4>1, <4>2
    <3> QED
      BY <3>1, <3>2
  <2> QED
    BY <2>4, <2>5
<1> HIDE DEF g
<1> DEFINE Old(i) == IF i < it THEN i ELSE i + 1
<1>4. \A i \in 1..Len(g) : Old(i) \in 1..Len(fl) /\ Old(i) # it /\ g[i] = fl[Old(i)]
  BY <1>1, <1>2, <1>3
<1>5. \A i, j \in 1..Len(g) : Old(i) = Old(j) => i = j
  BY <1>1, <1>2, <1>3
<1>6. \A k \in 1..Len(fl) : k # it => \E i \in 1..Len(g) : Old(i) = k
  <2> SUFFICES ASSUME NEW k \in 1..Len(fl), k # it
               PROVE  \E i \in 1..Len(g) : Old(i) = k
    OBVIOUS
  <2>1. CASE k < it
    BY <1>1, <1>2, <1>3, <2>1
  <2>2. CASE k > it
    <3>1. k - 1 \in 1..Len(g) /\ Old(k - 1) = k
      BY <1>1, <1>2, <1>3, <2>2
    <3> QED
      BY <3>1
  <2> QED
    BY <1>1, <2>1, <2>2
<1> HIDE DEF Old
<1>7. FlightOk(g)
  BY <1>3, <1>4, <1>5 DEF FlightOk
<1>8. /\ Range(g) = {g[i] : i \in 1..Len(g)} /\ Hashes(g) = {g[i].hash : i \in 1..Len(g)}
      /\ Range(fl) = {fl[i] : i \in 1..Len(fl)} /\ Hashes(fl) = {fl[i].hash : i \in 1..Len(fl)}
  BY <1>2, <1>3, FlightRange
<1>9. \A k \in 1..Len(fl) : k # it => fl[k].hash # b /\ fl[k] # fl[it]
  BY <1>1 DEF FlightOk
<1>10. Range(g) = Range(fl) \ {fl[it]}
  BY <1>4, <1>6, <1>8, <1>9
<1>11. Hashes(g) = Hashes(fl) \ {b}
  <2>1. Hashes(g) \subseteq Hashes(fl) \ {b}
    BY <1>1, <1>4, <1>8, <1>9
  <2>2. ASSUME NEW x \in Hashes(fl), x # b
        PROVE  x \in Hashes(g)
    <3>1. PICK k \in 1..Len(fl) : x = fl[k].hash
      BY <1>8, <2>2
    <3>2. k # it
      BY <1>1, <2>2, <3>1
    <3>3. PICK i \in 1..Len(g) : Old(i) = k
      BY <1>6, <3>2
    <3> QED
      BY <1>4, <1>8, <3>1, <3>3
  <2> QED
    BY <2>1, <2>2
<1>12. fl[it] \in Range(fl) /\ fl[it].validated \in 0..1
  BY <1>1, <1>2, <1>8 DEF Request
<1>13. Cardinality(Validated(g)) = Cardinality(Validated(fl)) - fl[it].validated
  <2>1. IsFiniteSet(Validated(fl)) /\ Cardinality(Validated(fl)) \in Nat
    BY FlightFinite
  <2>2. CASE fl[it].validated = 1
    <3>1. Validated(g) = Validated(fl) \ {fl[it]} /\ fl[it] \in Validated(fl)
      BY <1>10, <1>12, <2>2 DEF Validated
    <3>2. Cardinality(Validated(g)) = Cardinality(Validated(fl)) - 1
      BY <2>1, <3>1, FS_RemoveElement
    <3> QED
      BY <2>2, <3>2
  <2>3. CASE fl[it].validated = 0
    <3>1. Validated(g) = Validated(fl)
      BY <1>10, <2>3 DEF Validated
    <3> QED
      BY <2>1, <2>3, <3>1
  <2> QED
    BY <1>12, <2>2, <2>3
<1> QED
  BY <1>3, <1>7, <1>10, <1>11, <1>12, <1>13 DEF Without, g, it

(* What a list becomes when a block is requested. *)
With(fl, g, b, validated) ==
  /\ FlightOk(g)
  /\ Len(g) = Len(fl) + 1
  /\ Hashes(g) = Hashes(fl) \cup {b}
  /\ Range(g) = Range(fl) \cup {[hash |-> b, validated |-> validated]}
  /\ Cardinality(Validated(g)) = Cardinality(Validated(fl)) + validated

(* Appending an entry does that, if the block is not listed. *)
LEMMA Enlist ==
  ASSUME NEW fl, FlightOk(fl), NEW b \in Blocks, b \notin Hashes(fl), NEW validated \in 0..1
  PROVE  With(fl, Append(fl, [hash |-> b, validated |-> validated]), b, validated)
<1> DEFINE e == [hash |-> b, validated |-> validated]
           g == Append(fl, e)
<1>1. e \in Request /\ e.hash = b /\ e.validated = validated
  BY DEF Request
<1> HIDE DEF e
<1>2. fl \in Seq(Request) /\ Len(fl) \in Nat /\ \A i \in 1..Len(fl) : fl[i] \in Request
  BY DEF FlightOk
<1>3. /\ g \in Seq(Request) /\ Len(g) = Len(fl) + 1
      /\ \A i \in 1..Len(fl) : g[i] = fl[i]
      /\ g[Len(fl) + 1] = e
  BY <1>1, <1>2
<1> HIDE DEF g
<1>4. /\ Range(g) = {g[i] : i \in 1..Len(g)} /\ Hashes(g) = {g[i].hash : i \in 1..Len(g)}
      /\ Range(fl) = {fl[i] : i \in 1..Len(fl)} /\ Hashes(fl) = {fl[i].hash : i \in 1..Len(fl)}
  BY <1>2, <1>3, FlightRange
<1>5. 1..Len(g) = 1..Len(fl) \cup {Len(fl) + 1}
  BY <1>2, <1>3
<1>6. Range(g) = Range(fl) \cup {e}
  BY <1>3, <1>4, <1>5
<1>7. Hashes(g) = Hashes(fl) \cup {b}
  BY <1>1, <1>3, <1>4, <1>5
<1>8. FlightOk(g)
  <2> SUFFICES ASSUME NEW i \in 1..Len(g), NEW j \in 1..Len(g), g[i].hash = g[j].hash
               PROVE  i = j
    BY <1>3 DEF FlightOk
  <2>1. \A k \in 1..Len(fl) : fl[k].hash # b
    BY <1>4
  <2> QED
    BY <1>1, <1>3, <1>5, <2>1 DEF FlightOk
<1>9. Cardinality(Validated(g)) = Cardinality(Validated(fl)) + validated
  <2>1. IsFiniteSet(Validated(fl)) /\ Cardinality(Validated(fl)) \in Nat
    BY FlightFinite
  <2>2. CASE validated = 1
    <3>1. e \notin Range(fl)
      BY <1>1 DEF Hashes
    <3>2. Validated(g) = Validated(fl) \cup {e} /\ e \notin Validated(fl)
      BY <1>1, <1>6, <2>2, <3>1 DEF Validated
    <3>3. Cardinality(Validated(g)) = Cardinality(Validated(fl)) + 1
      BY <2>1, <3>2, FS_AddElement
    <3> QED
      BY <2>2, <3>3
  <2>3. CASE validated = 0
    <3>1. Validated(g) = Validated(fl)
      BY <1>1, <1>6, <2>3 DEF Validated
    <3> QED
      BY <2>1, <2>3, <3>1
  <2> QED
    BY <2>2, <2>3
<1> QED
  BY <1>3, <1>6, <1>7, <1>8, <1>9 DEF With, g, e

-----------------------------------------------------------------------------
(* Books *)

(* The fields of a node that no function on books touches. *)
SameNode(s, t) == t.conn = s.conn /\ t.sync = s.sync /\ t.common = s.common

(* A node that no longer owes b. *)
Forgives(s, t, b) ==
  /\ t \in NodeRecord /\ NodeOk(t) /\ SameNode(s, t)
  /\ Hashes(t.flight) = Hashes(s.flight) \ {b}
  /\ Range(t.flight) \subseteq Range(s.flight)

(* MarkBlockAsReceived for the node the block was requested from. *)
LEMMA NodeReceives ==
  ASSUME NEW s \in NodeRecord, NodeOk(s), NEW b \in Hashes(s.flight)
  PROVE  LET it == Entry(s.flight, b)
             validated == s.flight[it].validated
         IN Forgives(s, [s EXCEPT !.flight = RemoveAt(@, it),
                                  !.nBlocksInFlight = @ - 1,
                                  !.nValidHeaders = @ - validated,
                                  !.stalling = FALSE], b)
<1> DEFINE it == Entry(s.flight, b)
           validated == s.flight[it].validated
           g == RemoveAt(s.flight, it)
           t == [s EXCEPT !.flight = RemoveAt(@, it), !.nBlocksInFlight = @ - 1,
                          !.nValidHeaders = @ - validated, !.stalling = FALSE]
<1>1. FlightOk(s.flight)
  BY DEF NodeOk
<1>2. Without(s.flight, g, b, validated)
  BY <1>1, Erase
<1> HIDE DEF it, validated
<1>3. t = [s EXCEPT !.flight = g, !.nBlocksInFlight = s.nBlocksInFlight - 1,
                    !.nValidHeaders = s.nValidHeaders - validated, !.stalling = FALSE]
  BY DEF NodeRecord
<1> HIDE DEF g, t
<1>4. /\ FlightOk(g) /\ g \in Seq(Request) /\ Len(g) = Len(s.flight) - 1
      /\ Cardinality(Validated(g)) = Cardinality(Validated(s.flight)) - validated
      /\ Hashes(g) = Hashes(s.flight) \ {b} /\ Range(g) \subseteq Range(s.flight)
  BY <1>2 DEF Without, FlightOk
<1>5. Len(g) \in Nat /\ Cardinality(Validated(g)) \in Nat
  BY <1>4, FlightFinite
<1>6. /\ s.nBlocksInFlight - 1 = Len(g)
      /\ s.nValidHeaders - validated = Cardinality(Validated(g))
  BY <1>4 DEF NodeOk
<1>7. t = [s EXCEPT !.flight = g, !.nBlocksInFlight = Len(g),
                    !.nValidHeaders = Cardinality(Validated(g)), !.stalling = FALSE]
  BY <1>3, <1>6
<1> DEFINE nb == Len(g)
           nv == Cardinality(Validated(g))
<1>8. /\ t = [s EXCEPT !.flight = g, !.nBlocksInFlight = nb,
                       !.nValidHeaders = nv, !.stalling = FALSE]
      /\ nb \in Nat /\ nv \in Nat
  BY <1>5, <1>7
<1> HIDE DEF nb, nv
<1>9. /\ t \in NodeRecord /\ t.flight = g /\ t.nBlocksInFlight = nb /\ t.nValidHeaders = nv
      /\ t.stalling = FALSE /\ t.conn = s.conn /\ t.sync = s.sync /\ t.common = s.common
  BY <1>4, <1>8 DEF NodeRecord
<1>10. g # <<>> => s.flight # <<>>
  BY <1>4, <1>5
<1>11. NodeOk(t)
  BY <1>4, <1>9, <1>10 DEF NodeOk, nb, nv
<1>12. Forgives(s, t, b)
  BY <1>4, <1>9, <1>11 DEF Forgives, SameNode
<1> QED
  BY <1>12 DEF t, it, validated

(* A node that owes one block more. *)
Owes(s, t, b, validated) ==
  /\ t \in NodeRecord /\ NodeOk(t) /\ SameNode(s, t)
  /\ Hashes(t.flight) = Hashes(s.flight) \cup {b}
  /\ Range(t.flight) = Range(s.flight) \cup {[hash |-> b, validated |-> validated]}

(* MarkBlockAsInFlight for the node the block is requested from. *)
LEMMA NodeRequests ==
  ASSUME NEW s \in NodeRecord, NodeOk(s), s.conn \in {"up", "closing"},
         NEW b \in Blocks, b \notin Hashes(s.flight), NEW validated \in 0..1
  PROVE  Owes(s, [s EXCEPT !.flight = Append(@, [hash |-> b, validated |-> validated]),
                           !.nBlocksInFlight = @ + 1,
                           !.nValidHeaders = @ + validated], b, validated)
<1> DEFINE g == Append(s.flight, [hash |-> b, validated |-> validated])
           t == [s EXCEPT !.flight = Append(@, [hash |-> b, validated |-> validated]),
                          !.nBlocksInFlight = @ + 1,
                          !.nValidHeaders = @ + validated]
<1>1. FlightOk(s.flight)
  BY DEF NodeOk
<1>2. With(s.flight, g, b, validated)
  BY <1>1, Enlist
<1>3. t = [s EXCEPT !.flight = g, !.nBlocksInFlight = s.nBlocksInFlight + 1,
                    !.nValidHeaders = s.nValidHeaders + validated]
  BY DEF NodeRecord
<1> HIDE DEF g, t
<1>4. /\ FlightOk(g) /\ g \in Seq(Request) /\ Len(g) = Len(s.flight) + 1
      /\ Cardinality(Validated(g)) = Cardinality(Validated(s.flight)) + validated
      /\ Hashes(g) = Hashes(s.flight) \cup {b}
      /\ Range(g) = Range(s.flight) \cup {[hash |-> b, validated |-> validated]}
  BY <1>2 DEF With, FlightOk
<1>5. Len(g) \in Nat /\ Cardinality(Validated(g)) \in Nat
  BY <1>4, FlightFinite
<1> DEFINE nb == Len(g)
           nv == Cardinality(Validated(g))
<1>6. s.nBlocksInFlight + 1 = nb /\ s.nValidHeaders + validated = nv
  BY <1>4 DEF NodeOk
<1> HIDE DEF nb, nv
<1>7. t = [s EXCEPT !.flight = g, !.nBlocksInFlight = nb, !.nValidHeaders = nv]
  BY <1>3, <1>6
<1>8. nb \in Nat /\ nv \in Nat
  BY <1>5 DEF nb, nv
<1>9. /\ t \in NodeRecord /\ t.flight = g /\ t.nBlocksInFlight = nb /\ t.nValidHeaders = nv
      /\ t.conn = s.conn /\ t.sync = s.sync /\ t.common = s.common
  BY <1>4, <1>7, <1>8 DEF NodeRecord
<1>10. g # <<>>
  <2>1. Len(g) # 0
    BY <1>4, <1>1 DEF FlightOk
  <2> QED
    BY <2>1
<1>11. NodeOk(t)
  BY <1>4, <1>9, <1>10 DEF NodeOk, nb, nv
<1>12. Owes(s, t, b, validated)
  BY <1>4, <1>9, <1>11 DEF Owes, SameNode
<1> QED
  BY <1>12 DEF t

(* A book in which everything agrees. *)
BookRecord == [nodes : [Nodes -> NodeRecord], map : [Blocks -> Nodes \cup {None}], queued : Int]

Ok(book) == book \in BookRecord /\ BookOk(book.nodes, book.map)

(* From book to t the nodes may only get the requests New. *)
Keeps(book, t, New) ==
  /\ Ok(t)
  /\ \A m \in Nodes : /\ SameNode(book.nodes[m], t.nodes[m])
                      /\ Range(t.nodes[m].flight) \subseteq Range(book.nodes[m].flight) \cup New

(* The block is nobody's. *)
LEMMA ReceivedOk ==
  ASSUME NEW book, Ok(book), NEW b \in Blocks
  PROVE  /\ Keeps(book, MarkBlockAsReceived(book, b), {})
         /\ MarkBlockAsReceived(book, b).map[b] = None
<1> DEFINE n == book.map[b]
           s == book.nodes[n]
           it == Entry(s.flight, b)
           validated == s.flight[it].validated
           r == [s EXCEPT !.flight = RemoveAt(@, it), !.nBlocksInFlight = @ - 1,
                          !.nValidHeaders = @ - validated, !.stalling = FALSE]
           t == [nodes |-> [book.nodes EXCEPT ![n] = r], map |-> [book.map EXCEPT ![b] = None],
                 queued |-> book.queued - validated]
<1>1. book \in BookRecord /\ BookOk(book.nodes, book.map)
  BY DEF Ok
<1>2. CASE n = None
  <2>1. MarkBlockAsReceived(book, b) = book
    BY <1>2 DEF MarkBlockAsReceived
  <2> QED
    BY <1>2, <2>1 DEF Keeps, SameNode
<1>3. CASE n # None
  <2>1. /\ n \in Nodes /\ s \in NodeRecord /\ NodeOk(s) /\ b \in Hashes(s.flight)
        /\ book.nodes \in [Nodes -> NodeRecord] /\ book.map \in [Blocks -> Nodes \cup {None}]
        /\ book.queued \in Int
    BY <1>1, <1>3 DEF BookOk, BookRecord
  <2>2. Forgives(s, r, b)
    BY <2>1, NodeReceives
  <2>3. validated \in 0..1
    BY <2>1, Erase DEF NodeOk, Without
  <2>4. MarkBlockAsReceived(book, b) = t
    BY <1>3, Zenon DEF MarkBlockAsReceived
  <2> HIDE DEF n, s, it, validated, r
  <2>6. /\ t = [nodes |-> t.nodes, map |-> t.map, queued |-> t.queued]
        /\ t.nodes = [book.nodes EXCEPT ![n] = r]
        /\ t.map = [book.map EXCEPT ![b] = None]
        /\ t.queued = book.queued - validated
    OBVIOUS
  <2> HIDE DEF t
  <2>7. t.nodes[n] = r /\ \A m \in Nodes : m # n => t.nodes[m] = book.nodes[m]
    BY <2>1, <2>6
  <2>8. t.map[b] = None /\ \A c \in Blocks : c # b => t.map[c] = book.map[c]
    BY <2>1, <2>6
  <2>9. /\ t.nodes \in [Nodes -> NodeRecord] /\ t.map \in [Blocks -> Nodes \cup {None}]
        /\ t.queued \in Int
    <3>1. r \in NodeRecord
      BY <2>2 DEF Forgives
    <3> QED
      BY <2>1, <2>3, <2>6, <3>1
  <2>10. \A m \in Nodes : NodeOk(t.nodes[m])
    BY <1>1, <2>2, <2>7 DEF BookOk, Forgives
  <2>11. ASSUME NEW m \in Nodes, NEW c \in Blocks
         PROVE  t.map[c] = m <=> c \in Hashes(t.nodes[m].flight)
    <3>1. book.map[c] = m <=> c \in Hashes(book.nodes[m].flight)
      BY <1>1 DEF BookOk
    <3>2. m # None /\ (c = b => book.map[c] = n)
      BY DownloadAssumption DEF n
    <3>3. CASE m = n
      <4>1. Hashes(t.nodes[m].flight) = Hashes(book.nodes[m].flight) \ {b}
        BY <2>2, <2>7, <3>3 DEF Forgives, s
      <4> QED
        BY <2>8, <3>1, <3>2, <4>1
    <3>4. CASE m # n
      BY <2>7, <2>8, <3>1, <3>2, <3>4
    <3> QED
      BY <3>3, <3>4
  <2>12. Ok(t)
    BY <2>6, <2>9, <2>10, <2>11 DEF Ok, BookOk, BookRecord
  <2>13. \A m \in Nodes : /\ SameNode(book.nodes[m], t.nodes[m])
                          /\ Range(t.nodes[m].flight) \subseteq Range(book.nodes[m].flight) \cup {}
    BY <2>2, <2>7 DEF Forgives, SameNode, s
  <2> QED
    BY <2>4, <2>8, <2>12, <2>13 DEF Keeps
<1> QED
  BY <1>2, <1>3

(* The block is the node's, and nobody else's. *)
LEMMA InFlightOk ==
  ASSUME NEW book, Ok(book), NEW n \in Nodes, book.nodes[n].conn \in {"up", "closing"},
         NEW b \in Blocks, NEW validated \in 0..1
  PROVE  Keeps(book, MarkBlockAsInFlight(book, n, b, validated),
               {[hash |-> b, validated |-> validated]})
<1> DEFINE clear == MarkBlockAsReceived(book, b)
           s == clear.nodes[n]
           r == [s EXCEPT !.flight = Append(@, [hash |-> b, validated |-> validated]),
                          !.nBlocksInFlight = @ + 1,
                          !.nValidHeaders = @ + validated]
           e == [hash |-> b, validated |-> validated]
           t == [nodes |-> [clear.nodes EXCEPT ![n] = r], map |-> [clear.map EXCEPT ![b] = n],
                 queued |-> clear.queued + validated]
<1>1. Keeps(book, clear, {}) /\ clear.map[b] = None
  BY ReceivedOk
<1> HIDE DEF clear
<1>3. clear \in BookRecord /\ BookOk(clear.nodes, clear.map)
  BY <1>1 DEF Keeps, Ok
<1>4. /\ s \in NodeRecord /\ NodeOk(s) /\ b \notin Hashes(s.flight)
      /\ clear.nodes \in [Nodes -> NodeRecord] /\ clear.map \in [Blocks -> Nodes \cup {None}]
      /\ clear.queued \in Int
  <2>1. n # None
    BY DownloadAssumption
  <2> QED
    BY <1>1, <1>3, <2>1 DEF BookOk, BookRecord
<1>5. s.conn \in {"up", "closing"}
  BY <1>1 DEF Keeps, SameNode
<1>6. Owes(s, r, b, validated)
  BY <1>4, <1>5, NodeRequests
<1>7. MarkBlockAsInFlight(book, n, b, validated) = t
  BY Zenon DEF MarkBlockAsInFlight, clear
<1> HIDE DEF s, r, e
<1>8. /\ t = [nodes |-> t.nodes, map |-> t.map, queued |-> t.queued]
      /\ t.nodes = [clear.nodes EXCEPT ![n] = r]
      /\ t.map = [clear.map EXCEPT ![b] = n]
      /\ t.queued = clear.queued + validated
  OBVIOUS
<1> HIDE DEF t
<1>9. t.nodes[n] = r /\ \A m \in Nodes : m # n => t.nodes[m] = clear.nodes[m]
  BY <1>4, <1>8
<1>10. t.map[b] = n /\ \A c \in Blocks : c # b => t.map[c] = clear.map[c]
  BY <1>4, <1>8
<1>11. /\ t.nodes \in [Nodes -> NodeRecord] /\ t.map \in [Blocks -> Nodes \cup {None}]
       /\ t.queued \in Int
  <2>1. r \in NodeRecord
    BY <1>6 DEF Owes
  <2> QED
    BY <1>4, <1>8, <2>1
<1>12. \A m \in Nodes : NodeOk(t.nodes[m])
  BY <1>3, <1>6, <1>9 DEF BookOk, Owes
<1>13. ASSUME NEW m \in Nodes, NEW c \in Blocks
       PROVE  t.map[c] = m <=> c \in Hashes(t.nodes[m].flight)
  <2>1. clear.map[c] = m <=> c \in Hashes(clear.nodes[m].flight)
    BY <1>3 DEF BookOk
  <2>2. m # None
    BY DownloadAssumption
  <2>3. CASE m = n
    <3>1. Hashes(t.nodes[m].flight) = Hashes(clear.nodes[m].flight) \cup {b}
      BY <1>6, <1>9, <2>3 DEF Owes, s
    <3> QED
      BY <1>10, <2>1, <2>3, <3>1
  <2>4. CASE m # n
    BY <1>1, <1>9, <1>10, <2>1, <2>2, <2>4
  <2> QED
    BY <2>3, <2>4
<1>14. Ok(t)
  BY <1>8, <1>11, <1>12, <1>13 DEF Ok, BookOk, BookRecord
<1>15. ASSUME NEW m \in Nodes
       PROVE  /\ SameNode(book.nodes[m], t.nodes[m])
              /\ Range(t.nodes[m].flight) \subseteq Range(book.nodes[m].flight) \cup {e}
  <2>1. /\ SameNode(book.nodes[m], clear.nodes[m])
        /\ Range(clear.nodes[m].flight) \subseteq Range(book.nodes[m].flight)
    BY <1>1 DEF Keeps
  <2>2. CASE m = n
    <3>1. /\ SameNode(clear.nodes[m], t.nodes[m])
          /\ Range(t.nodes[m].flight) = Range(clear.nodes[m].flight) \cup {e}
      BY <1>6, <1>9, <2>2 DEF Owes, s, e
    <3> QED
      BY <2>1, <3>1 DEF SameNode
  <2>3. CASE m # n
    BY <1>9, <2>1, <2>3
  <2> QED
    BY <2>2, <2>3
<1> QED
  BY <1>7, <1>14, <1>15 DEF Keeps, e

(* Keeping is transitive. *)
LEMMA KeepsOn ==
  ASSUME NEW book, NEW t, NEW u, NEW New, NEW More, More \subseteq New,
         Keeps(book, t, New), Keeps(t, u, More)
  PROVE  Keeps(book, u, New)
<1>1. ASSUME NEW m \in Nodes
      PROVE  /\ SameNode(book.nodes[m], u.nodes[m])
             /\ Range(u.nodes[m].flight) \subseteq Range(book.nodes[m].flight) \cup New
  <2>1. /\ SameNode(book.nodes[m], t.nodes[m])
        /\ Range(t.nodes[m].flight) \subseteq Range(book.nodes[m].flight) \cup New
    BY DEF Keeps
  <2>2. /\ SameNode(t.nodes[m], u.nodes[m])
        /\ Range(u.nodes[m].flight) \subseteq Range(t.nodes[m].flight) \cup More
    BY DEF Keeps
  <2> QED
    BY <2>1, <2>2 DEF SameNode
<1> QED
  BY <1>1 DEF Keeps

(* What RequestAll goes through, height by height. *)
Asks(f, book, n, S, top) ==
  f = [h \in 0..top |->
         IF h = 0 THEN book
         ELSE IF \A b \in S : Height[b] # h THEN f[h - 1]
         ELSE MarkBlockAsInFlight(f[h - 1], n, CHOOSE b \in S : Height[b] = h, 1)]

(* There is such a function. *)
LEMMA AsksExists ==
  ASSUME NEW book, NEW n, NEW S, NEW top \in Nat
  PROVE  \E f : Asks(f, book, n, S, top)
<1> DEFINE After(x, h) == IF \A b \in S : Height[b] # h THEN x
                          ELSE MarkBlockAsInFlight(x, n, CHOOSE b \in S : Height[b] = h, 1)
           Partial(k, f) == f = [h \in 0..k |-> IF h = 0 THEN book ELSE After(f[h - 1], h)]
           Bad == {k \in Nat : ~\E f : Partial(k, f)}
<1>0. \A f : Asks(f, book, n, S, top) <=> Partial(top, f)
  BY DEF Asks
<1> HIDE DEF After
<1>1. Bad = {}
  <2> SUFFICES ASSUME Bad # {} PROVE FALSE
    OBVIOUS
  <2>1. PICK k \in Bad : \A m \in Bad : k =< m
    <3>1. Bad \in SUBSET Nat
      OBVIOUS
    <3> HIDE DEF Bad
    <3> QED
      BY <3>1, LeastNatural
  <2>2. Partial(0, [h \in 0..0 |-> book])
    OBVIOUS
  <2>3. k \in Nat /\ k # 0
    BY <2>1, <2>2
  <2>4. k - 1 \in Nat /\ k - 1 \notin Bad
    <3> HIDE DEF Bad
    <3>1. k \in Nat
      BY <2>3
    <3> QED
      BY <2>1, <2>3
  <2>5. PICK f : Partial(k - 1, f)
    BY <2>4
  <2> DEFINE g == [h \in 0..k |-> IF h = k THEN After(f[k - 1], k) ELSE f[h]]
  <2>6. \A h \in 0..k : g[h] = IF h = 0 THEN book ELSE After(g[h - 1], h)
    <3> SUFFICES ASSUME NEW h \in 0..k
                 PROVE  g[h] = IF h = 0 THEN book ELSE After(g[h - 1], h)
      OBVIOUS
    <3>1. CASE h = k
      BY <2>3, <3>1
    <3>2. CASE h # k
      <4>1. h \in 0..(k - 1)
        BY <2>3, <3>2
      <4>2. f[h] = IF h = 0 THEN book ELSE After(f[h - 1], h)
        BY <2>5, <4>1
      <4>3. g[h] = f[h] /\ (h # 0 => g[h - 1] = f[h - 1])
        BY <2>3, <3>2
      <4> QED
        BY <4>2, <4>3
    <3> QED
      BY <3>1, <3>2
  <2>7. Partial(k, g)
    <3>1. g = [h \in 0..k |-> g[h]]
      OBVIOUS
    <3> HIDE DEF g
    <3> QED
      BY <2>6, <3>1
  <2> QED
    BY <2>1, <2>7
<1>2. PICK f : Partial(top, f)
  <2>1. top \notin Bad
    BY <1>1
  <2> QED
    BY <2>1
<1> HIDE DEF Partial
<1> QED
  BY <1>0, <1>2, Zenon

(* Requests of validated headers for the blocks of S. *)
Through(S) == {[hash |-> b, validated |-> 1] : b \in S}

(* RequestAll adds such requests, to lists that agree with the map as before. *)
LEMMA RequestAllOk ==
  ASSUME NEW book, Ok(book), NEW n \in Nodes, book.nodes[n].conn \in {"up", "closing"},
         NEW S \in SUBSET Blocks, NEW top \in Nat
  PROVE  Keeps(book, RequestAll(book, n, S, top), Through(S))
<1> DEFINE f == CHOOSE g : Asks(g, book, n, S, top)
           Bad == {h \in Nat : h =< top /\ ~Keeps(book, f[h], Through(S))}
<1>1. RequestAll(book, n, S, top) = f[top]
  BY DEF RequestAll, Asks
<1>2. Asks(f, book, n, S, top)
  BY AsksExists
<1> HIDE DEF f
<1>3. \A h \in 0..top :
         f[h] = IF h = 0 THEN book
                ELSE IF \A b \in S : Height[b] # h THEN f[h - 1]
                ELSE MarkBlockAsInFlight(f[h - 1], n, CHOOSE b \in S : Height[b] = h, 1)
  BY <1>2 DEF Asks
<1>4. Keeps(book, book, Through(S))
  BY DEF Keeps, SameNode
<1>5. Bad = {}
  <2> SUFFICES ASSUME Bad # {} PROVE FALSE
    OBVIOUS
  <2>1. PICK h \in Bad : \A m \in Bad : h =< m
    <3>1. Bad \in SUBSET Nat
      OBVIOUS
    <3> HIDE DEF Bad
    <3> QED
      BY <3>1, LeastNatural
  <2>2. h \in 0..top /\ h # 0
    <3>1. h \in 0..top
      OBVIOUS
    <3>2. h = 0 => f[h] = book
      BY <1>3, <3>1
    <3> QED
      BY <1>4, <3>1, <3>2
  <2>3. h - 1 \in Nat /\ h - 1 =< top /\ h - 1 \notin Bad
    <3> HIDE DEF Bad
    <3> QED
      BY <2>1, <2>2
  <2>4. Keeps(book, f[h - 1], Through(S))
    BY <2>3
  <2>5. Keeps(book, f[h], Through(S))
    <3>1. CASE \A b \in S : Height[b] # h
      <4>1. f[h] = f[h - 1]
        BY <1>3, <2>2, <3>1
      <4> QED
        BY <2>4, <4>1
    <3>2. CASE ~\A b \in S : Height[b] # h
      <4> DEFINE b == CHOOSE x \in S : Height[x] = h
      <4>1. b \in S
        BY <3>2
      <4>2. f[h] = MarkBlockAsInFlight(f[h - 1], n, b, 1)
        BY <1>3, <2>2, <3>2
      <4> HIDE DEF b
      <4>3. Ok(f[h - 1]) /\ f[h - 1].nodes[n].conn \in {"up", "closing"}
        BY <2>4 DEF Keeps, SameNode
      <4>4. Keeps(f[h - 1], f[h], {[hash |-> b, validated |-> 1]})
        <5> DEFINE x == f[h - 1]
        <5>1. b \in Blocks /\ 1 \in 0..1
          BY <4>1
        <5>2. Ok(x) /\ x.nodes[n].conn \in {"up", "closing"}
          BY <4>3
        <5> HIDE DEF x
        <5>3. Keeps(x, MarkBlockAsInFlight(x, n, b, 1), {[hash |-> b, validated |-> 1]})
          BY <5>1, <5>2, InFlightOk
        <5> QED
          BY <4>2, <5>3 DEF x
      <4>5. {[hash |-> b, validated |-> 1]} \subseteq Through(S)
        BY <4>1 DEF Through
      <4> QED
        BY <2>4, <4>4, <4>5, KeepsOn
    <3> QED
      BY <3>1, <3>2
  <2> QED
    BY <2>1, <2>5
<1> QED
  BY <1>1, <1>5

(* A node changes, but not its list. *)
LEMMA SetNodeOk ==
  ASSUME NEW book, Ok(book), NEW n \in Nodes, NEW s \in NodeRecord, NodeOk(s),
         s.flight = book.nodes[n].flight
  PROVE  /\ Ok(SetNode(book, n, s))
         /\ SetNode(book, n, s).map = book.map
         /\ SetNode(book, n, s).nodes[n] = s
         /\ \A m \in Nodes \ {n} : SetNode(book, n, s).nodes[m] = book.nodes[m]
<1> DEFINE t == SetNode(book, n, s)
<1>1. /\ BookOk(book.nodes, book.map) /\ book.nodes \in [Nodes -> NodeRecord]
      /\ book.map \in [Blocks -> Nodes \cup {None}] /\ book.queued \in Int
  BY DEF Ok, BookOk, BookRecord
<1>2. /\ t = [nodes |-> t.nodes, map |-> t.map, queued |-> t.queued]
      /\ t.nodes = [book.nodes EXCEPT ![n] = s] /\ t.map = book.map /\ t.queued = book.queued
  BY DEF SetNode
<1> HIDE DEF t
<1>3. /\ t.nodes \in [Nodes -> NodeRecord] /\ t.nodes[n] = s
      /\ \A m \in Nodes \ {n} : t.nodes[m] = book.nodes[m]
  BY <1>1, <1>2
<1>4. BookOk(t.nodes, t.map)
  <2>1. \A m \in Nodes : NodeOk(t.nodes[m])
    BY <1>1, <1>3 DEF BookOk
  <2>2. \A m \in Nodes : t.nodes[m].flight = book.nodes[m].flight
    BY <1>3
  <2> QED
    BY <1>1, <1>2, <1>3, <2>1, <2>2 DEF BookOk
<1>5. Ok(t)
  BY <1>1, <1>2, <1>3, <1>4 DEF Ok, BookRecord
<1> QED
  BY <1>2, <1>3, <1>5 DEF t

-----------------------------------------------------------------------------
(* Steps *)

(* Initially there is nothing in flight. *)
LEMMA InitOk ==
  Init => IInv
<1> SUFFICES ASSUME Init PROVE IInv
  OBVIOUS
<1> USE DEF Init
<1>1. Genesis \in Chain /\ Complete(Genesis)
  BY AncestorsStep DEF Chain, Complete
<1>2. FlightOk(<<>>) /\ Range(<<>>) = {}
  <2>1. <<>> \in Seq(Request) /\ Len(<<>>) = 0
    OBVIOUS
  <2>2. Range(<<>>) = {}
    BY DEF Range
  <2> QED
    BY <2>1, <2>2 DEF FlightOk
<1>3. FreshNode \in NodeRecord
  BY <1>2 DEF FreshNode, NodeRecord, FlightOk
<1>4. \A n \in Nodes : nodes[n] = FreshNode
  OBVIOUS
<1>5. /\ FreshNode.flight = <<>> /\ FreshNode.nBlocksInFlight = 0 /\ FreshNode.nValidHeaders = 0
      /\ FreshNode.stalling = FALSE /\ FreshNode.sync = FALSE /\ FreshNode.conn = "new"
      /\ FreshNode.common = None
  BY DEF FreshNode
<1>6. NodeOk(FreshNode)
  <2>1. Validated(<<>>) = {} /\ Len(<<>>) = 0 /\ Cardinality(Validated(<<>>)) = 0
    BY <1>2, FS_EmptySet DEF Validated
  <2> QED
    BY <1>2, <1>5, <2>1 DEF NodeOk
<1> HIDE DEF FreshNode
<1>7. BookOk(nodes, inFlight)
  <2>1. \A n \in Nodes : Hashes(nodes[n].flight) = {}
    BY <1>2, <1>4, <1>5 DEF Hashes
  <2>2. \A n \in Nodes, b \in Blocks : inFlight[b] = None /\ n # None
    BY DownloadAssumption
  <2>3. \A n \in Nodes, b \in Blocks : inFlight[b] = n <=> b \in Hashes(nodes[n].flight)
    BY <2>1, <2>2
  <2> QED
    BY <1>3, <1>4, <1>6, <2>3 DEF BookOk
<1>8. CountsOk
  <2>1. Syncing(nodes) = {}
    BY <1>4, <1>5 DEF Syncing
  <2>2. Serving(nodes) = {}
    BY <1>4, <1>5, DownloadAssumption DEF Serving
  <2> QED
    BY <2>1, <2>2, FS_EmptySet DEF CountsOk
<1>9. ChainOk
  BY <1>1, <1>4, <1>5 DEF ChainOk
<1>10. \A n \in Nodes : \A e \in Range(nodes[n].flight) : Near(e)
  BY <1>2, <1>4, <1>5
<1> QED
  BY <1>7, <1>8, <1>9, <1>10 DEF IInv

(* What a step has to show.  Blocks are never lost, so that what is near a *)
(* complete chain stays so.                                                *)
LEMMA StepOk ==
  ASSUME IInv, BookOk(nodes', inFlight'), nQueuedValidatedHeaders' \in Int, CountsOk',
         have \subseteq have', have' \subseteq Chain, tip' \in Chain, Complete(tip)',
         \A n \in Nodes : nodes'[n].common \in {None, nodes[n].common} \/ Complete(nodes'[n].common),
         \A n \in Nodes : \A e \in Range(nodes'[n].flight) :
            e \in Range(nodes[n].flight) \/ Near(e)
  PROVE  IInv'
<1>1. \A b : Complete(b) => Complete(b)'
  BY DEF Complete
<1>2. \A e : Near(e) => Near(e)'
  BY <1>1 DEF Near
<1>3. \A n \in Nodes : nodes'[n].common # None => Complete(nodes'[n].common)
  BY DEF IInv, ChainOk
<1>4. \A n \in Nodes : nodes'[n].common # None => Complete(nodes[n].common)'
  BY <1>1, <1>3
<1>5. ChainOk'
  BY <1>4 DEF IInv, ChainOk
<1>6. \A n \in Nodes : \A e \in Range(nodes'[n].flight) : Near(e)
  BY DEF IInv
<1>7. \A n \in Nodes : \A e \in Range(nodes'[n].flight) : Near(e)'
  BY <1>2, <1>6
<1> QED
  BY <1>5, <1>7 DEF IInv

(* The current book is one in which everything agrees. *)
LEMMA CurrentBook ==
  ASSUME IInv
  PROVE  /\ Ok(Book)
         /\ Book.nodes = nodes /\ Book.map = inFlight /\ Book.queued = nQueuedValidatedHeaders
<1>1. Book.nodes = nodes /\ Book.map = inFlight /\ Book.queued = nQueuedValidatedHeaders
  BY DEF Book
<1>2. Book \in BookRecord
  BY DEF Book, BookRecord, IInv, BookOk
<1> QED
  BY <1>1, <1>2 DEF Ok, IInv

(* Setting a good book. *)
LEMMA NextBook ==
  ASSUME NEW book, Ok(book), SetBook(book)
  PROVE  BookOk(nodes', inFlight') /\ nQueuedValidatedHeaders' \in Int
BY DEF Ok, SetBook, BookRecord

(* Nobody starts or ends serving or syncing. *)
LEMMA CountsSame ==
  ASSUME CountsOk, UNCHANGED <<nSyncStarted, nPreferredDownload>>,
         \A m \in Nodes : /\ nodes'[m].sync = nodes[m].sync
                          /\ nodes'[m].conn \in {"up", "closing"} <=> nodes[m].conn \in {"up", "closing"}
  PROVE  CountsOk'
<1>1. Syncing(nodes') = Syncing(nodes)
  BY DEF Syncing
<1>2. Serving(nodes') = Serving(nodes)
  BY DownloadAssumption DEF Serving
<1> QED
  BY <1>1, <1>2 DEF CountsOk

(* The sets that are counted are finite. *)
LEMMA CountsFinite ==
  IsFiniteSet(Syncing(nodes)) /\ IsFiniteSet(Serving(nodes))
<1>1. IsFiniteSet(Nodes) /\ Preferred \subseteq Nodes
  BY DownloadAssumption
<1> QED
  BY <1>1, FS_Subset DEF Syncing, Serving

(* A connection that opens or is about to close keeps the node's requests. *)
LEMMA ConnOk ==
  ASSUME IInv, NEW n \in Nodes, NEW c \in {"up", "closing"},
         nodes' = [nodes EXCEPT ![n].conn = c],
         UNCHANGED <<inFlight, nQueuedValidatedHeaders, have, tip>>
  PROVE  /\ CountsOk' => IInv'
         /\ nodes'[n].conn = c
         /\ \A m \in Nodes \ {n} : nodes'[m] = nodes[m]
         /\ \A m \in Nodes : nodes'[m].sync = nodes[m].sync
<1> DEFINE s == [nodes[n] EXCEPT !.conn = c]
<1>1. Ok(Book) /\ Book.nodes = nodes /\ Book.map = inFlight /\ Book.queued = nQueuedValidatedHeaders
  BY CurrentBook
<1>2. nodes \in [Nodes -> NodeRecord] /\ NodeOk(nodes[n]) /\ nodes[n] \in NodeRecord
  BY DEF IInv, BookOk
<1>3. nodes' = [nodes EXCEPT ![n] = s]
  BY <1>2 DEF NodeRecord
<1>4. /\ s \in NodeRecord /\ s.conn = c /\ s.flight = nodes[n].flight /\ s.sync = nodes[n].sync
      /\ s.nBlocksInFlight = nodes[n].nBlocksInFlight /\ s.nValidHeaders = nodes[n].nValidHeaders
      /\ s.stalling = nodes[n].stalling /\ s.common = nodes[n].common
  BY <1>2 DEF NodeRecord
<1> HIDE DEF s
<1>5. NodeOk(s)
  BY <1>2, <1>4 DEF NodeOk
<1> DEFINE t == SetNode(Book, n, s)
<1>6. t.nodes = nodes' /\ t.map = inFlight' /\ t.queued = nQueuedValidatedHeaders'
  BY <1>1, <1>3 DEF SetNode
<1>7. Ok(t)
  BY <1>1, <1>4, <1>5, SetNodeOk
<1> HIDE DEF t
<1>8. BookOk(nodes', inFlight') /\ nQueuedValidatedHeaders' \in Int
  BY <1>6, <1>7, NextBook DEF SetBook
<1>9. nodes'[n] = s /\ \A m \in Nodes \ {n} : nodes'[m] = nodes[m]
  BY <1>2, <1>3
<1>10. \A m \in Nodes : /\ nodes'[m].sync = nodes[m].sync /\ nodes'[m].common = nodes[m].common
                        /\ nodes'[m].flight = nodes[m].flight
  BY <1>4, <1>9
<1>11. have \subseteq have' /\ have' \subseteq Chain /\ tip' \in Chain /\ Complete(tip)'
  BY DEF IInv, ChainOk, Complete
<1>12. CountsOk' => IInv'
  BY <1>8, <1>10, <1>11, StepOk
<1> QED
  BY <1>4, <1>9, <1>10, <1>12

(* A peer connects. *)
LEMMA ConnectOk ==
  ASSUME IInv, NEW n \in Nodes, Connect(n)
  PROVE  IInv'
<1>1. nodes' = [nodes EXCEPT ![n].conn = "up"]
  BY DEF Connect
<1>2. /\ CountsOk' => IInv'
      /\ nodes'[n].conn = "up"
      /\ \A m \in Nodes \ {n} : nodes'[m] = nodes[m]
      /\ \A m \in Nodes : nodes'[m].sync = nodes[m].sync
  <2>1. UNCHANGED <<inFlight, nQueuedValidatedHeaders, have, tip>>
    BY DEF Connect
  <2> QED
    BY <1>1, <2>1, ConnOk
<1>3. Syncing(nodes') = Syncing(nodes)
  BY <1>2 DEF Syncing
<1>4. nodes[n].conn = "new" /\ Preferred \subseteq Nodes
  BY DownloadAssumption DEF Connect
<1>5. CASE n \in Preferred
  <2>1. Serving(nodes') = Serving(nodes) \cup {n} /\ n \notin Serving(nodes)
    BY <1>2, <1>4, <1>5 DEF Serving
  <2>2. Cardinality(Serving(nodes')) = Cardinality(Serving(nodes)) + 1
    BY <2>1, CountsFinite, FS_AddElement
  <2> QED
    BY <1>2, <1>3, <1>5, <2>2 DEF CountsOk, Connect, IInv
<1>6. CASE n \notin Preferred
  <2>1. Serving(nodes') = Serving(nodes)
    BY <1>2, <1>4, <1>6 DEF Serving
  <2>2. nPreferredDownload' = nPreferredDownload
    <3>1. Cardinality(Serving(nodes)) \in Nat
      BY CountsFinite, FS_CardinalityType
    <3> QED
      BY <1>6, <3>1 DEF Connect, IInv, CountsOk
  <2> QED
    BY <1>2, <1>3, <2>1, <2>2 DEF CountsOk, Connect, IInv
<1> QED
  BY <1>5, <1>6

(* A connection breaks, or a timeout passes. *)
LEMMA CloseOk ==
  ASSUME IInv, NEW n \in Nodes, Drop(n) \/ TimeOut(n)
  PROVE  IInv'
<1>1. /\ nodes' = [nodes EXCEPT ![n].conn = "closing"] /\ nodes[n].conn = "up"
      /\ UNCHANGED <<inFlight, nQueuedValidatedHeaders, have, tip>>
      /\ UNCHANGED <<nSyncStarted, nPreferredDownload>>
  BY DEF Drop, TimeOut
<1>2. /\ CountsOk' => IInv'
      /\ nodes'[n].conn = "closing"
      /\ \A m \in Nodes \ {n} : nodes'[m] = nodes[m]
      /\ \A m \in Nodes : nodes'[m].sync = nodes[m].sync
  BY <1>1, ConnOk
<1>3. CountsOk'
  BY <1>1, <1>2, CountsSame DEF IInv
<1> QED
  BY <1>2, <1>3

(* The node's requests are released with it. *)
LEMMA FinalizeOk ==
  ASSUME IInv, NEW n \in Nodes, FinalizeNode(n)
  PROVE  IInv'
<1> DEFINE gone == [FreshNode EXCEPT !.conn = "gone"]
<1>1. /\ nodes' = [nodes EXCEPT ![n] = gone] /\ nodes[n].conn = "closing"
      /\ UNCHANGED <<nQueuedValidatedHeaders, have, tip>>
      /\ inFlight' = [b \in Blocks |-> IF b \in Hashes(nodes[n].flight) THEN None ELSE inFlight[b]]
  BY DEF FinalizeNode, Hashes
<1>2. /\ gone \in NodeRecord /\ gone.flight = <<>> /\ gone.nBlocksInFlight = 0
      /\ gone.nValidHeaders = 0 /\ gone.stalling = FALSE /\ gone.sync = FALSE
      /\ gone.conn = "gone" /\ gone.common = None
  <2>1. <<>> \in Seq(Request)
    OBVIOUS
  <2> QED
    BY <2>1 DEF FreshNode, NodeRecord
<1> HIDE DEF gone
<1>3. BookOk(nodes, inFlight) /\ nodes \in [Nodes -> NodeRecord]
      /\ inFlight \in [Blocks -> Nodes \cup {None}]
  BY DEF IInv, BookOk
<1>4. nodes'[n] = gone /\ (\A m \in Nodes \ {n} : nodes'[m] = nodes[m])
      /\ nodes' \in [Nodes -> NodeRecord]
  BY <1>1, <1>2, <1>3
<1>5. Range(<<>>) = {} /\ Hashes(<<>>) = {} /\ Validated(<<>>) = {} /\ Len(<<>>) = 0
      /\ FlightOk(<<>>)
  <2>1. <<>> \in Seq(Request) /\ Len(<<>>) = 0
    OBVIOUS
  <2>2. Range(<<>>) = {}
    BY DEF Range
  <2> QED
    BY <2>1, <2>2 DEF Hashes, Validated, FlightOk
<1>6. NodeOk(gone)
  BY <1>2, <1>5, FS_EmptySet DEF NodeOk
<1>7. BookOk(nodes', inFlight')
  <2>1. \A m \in Nodes : NodeOk(nodes'[m])
    BY <1>3, <1>4, <1>6 DEF BookOk
  <2>2. inFlight' \in [Blocks -> Nodes \cup {None}]
    BY <1>1, <1>3
  <2>3. ASSUME NEW m \in Nodes, NEW b \in Blocks
        PROVE  inFlight'[b] = m <=> b \in Hashes(nodes'[m].flight)
    <3>1. /\ inFlight[b] = m <=> b \in Hashes(nodes[m].flight)
          /\ inFlight[b] = n <=> b \in Hashes(nodes[n].flight)
      BY <1>3 DEF BookOk
    <3>2. m # None
      BY DownloadAssumption
    <3>3. CASE m = n
      BY <1>1, <1>2, <1>4, <1>5, <3>1, <3>2, <3>3
    <3>4. CASE m # n
      BY <1>1, <1>4, <3>1, <3>2, <3>4
    <3> QED
      BY <3>3, <3>4
  <2> QED
    BY <1>4, <2>1, <2>2, <2>3 DEF BookOk
<1>8. Cardinality(Syncing(nodes)) \in Nat /\ Cardinality(Serving(nodes)) \in Nat
  BY CountsFinite, FS_CardinalityType
<1>9. nSyncStarted' = Cardinality(Syncing(nodes'))
  <2>1. Syncing(nodes') = Syncing(nodes) \ {n}
    BY <1>2, <1>4 DEF Syncing
  <2>2. CASE nodes[n].sync
    <3>1. Cardinality(Syncing(nodes')) = Cardinality(Syncing(nodes)) - 1
      BY <2>1, <2>2, CountsFinite, FS_RemoveElement DEF Syncing
    <3> QED
      BY <2>2, <3>1 DEF FinalizeNode, IInv, CountsOk
  <2>3. CASE ~nodes[n].sync
    <3>1. Syncing(nodes') = Syncing(nodes)
      BY <2>1, <2>3 DEF Syncing
    <3> QED
      BY <1>8, <2>3, <3>1 DEF FinalizeNode, IInv, CountsOk
  <2> QED
    BY <2>2, <2>3
<1>10. nPreferredDownload' = Cardinality(Serving(nodes'))
  <2>1. Serving(nodes') = Serving(nodes) \ {n}
    BY <1>2, <1>4, DownloadAssumption DEF Serving
  <2>2. CASE n \in Preferred
    <3>1. n \in Serving(nodes)
      BY <1>1, <2>2 DEF Serving
    <3>2. Cardinality(Serving(nodes')) = Cardinality(Serving(nodes)) - 1
      BY <2>1, <3>1, CountsFinite, FS_RemoveElement
    <3> QED
      BY <2>2, <3>2 DEF FinalizeNode, IInv, CountsOk
  <2>3. CASE n \notin Preferred
    <3>1. Serving(nodes') = Serving(nodes)
      BY <2>1, <2>3 DEF Serving
    <3> QED
      BY <1>8, <2>3, <3>1 DEF FinalizeNode, IInv, CountsOk
  <2> QED
    BY <2>2, <2>3
<1>11. CountsOk'
  BY <1>9, <1>10 DEF CountsOk
<1>12. \A m \in Nodes : /\ nodes'[m].common \in {None, nodes[m].common}
                        /\ \A e \in Range(nodes'[m].flight) : e \in Range(nodes[m].flight)
  BY <1>2, <1>4, <1>5
<1>13. /\ have \subseteq have' /\ have' \subseteq Chain /\ tip' \in Chain /\ Complete(tip)'
       /\ nQueuedValidatedHeaders' \in Int
  BY <1>1 DEF IInv, ChainOk, Complete
<1> QED
  BY <1>7, <1>11, <1>12, <1>13, StepOk

(* A step that changes no connection and only makes requests near a complete chain. *)
LEMMA SetBookOk ==
  ASSUME IInv, NEW t, NEW New, Keeps(Book, t, New), SetBook(t), \A e \in New : Near(e),
         UNCHANGED <<nSyncStarted, nPreferredDownload>>,
         have \subseteq have', have' \subseteq Chain, tip' \in Chain, Complete(tip)'
  PROVE  IInv'
<1>1. Book.nodes = nodes
  BY CurrentBook
<1>2. nodes' = t.nodes
  BY DEF SetBook
<1>3. BookOk(nodes', inFlight') /\ nQueuedValidatedHeaders' \in Int
  BY NextBook DEF Keeps
<1>4. \A m \in Nodes : /\ nodes'[m].conn = nodes[m].conn /\ nodes'[m].sync = nodes[m].sync
                       /\ nodes'[m].common = nodes[m].common
                       /\ Range(nodes'[m].flight) \subseteq Range(nodes[m].flight) \cup New
  BY <1>1, <1>2 DEF Keeps, SameNode
<1>5. CountsOk'
  BY <1>4, CountsSame DEF IInv
<1>6. \A m \in Nodes : \A e \in Range(nodes'[m].flight) : e \in Range(nodes[m].flight) \/ Near(e)
  BY <1>4
<1> QED
  BY <1>3, <1>4, <1>5, <1>6, StepOk

(* An announcement is noted, and perhaps headers are asked for. *)
LEMMA NoteOk ==
  ASSUME IInv, NEW n \in Nodes, NEW b \in Blocks, NEW s,
         \/ s = [nodes[n] EXCEPT !.unknown = b]
         \/ s = [[nodes[n] EXCEPT !.unknown = b] EXCEPT !.asked = TRUE]
         \/ s = [nodes[n] EXCEPT !.asked = FALSE, !.unknown = b]
  PROVE  Keeps(Book, SetNode(Book, n, s), {}) /\ s.conn = nodes[n].conn
<1>1. Ok(Book) /\ Book.nodes = nodes
  BY CurrentBook
<1>2. nodes \in [Nodes -> NodeRecord] /\ NodeOk(nodes[n]) /\ nodes[n] \in NodeRecord
  BY DEF IInv, BookOk
<1>3. /\ s \in NodeRecord /\ s.conn = nodes[n].conn /\ s.flight = nodes[n].flight
      /\ s.sync = nodes[n].sync /\ s.common = nodes[n].common
      /\ s.nBlocksInFlight = nodes[n].nBlocksInFlight /\ s.nValidHeaders = nodes[n].nValidHeaders
      /\ s.stalling = nodes[n].stalling
  BY <1>2 DEF NodeRecord
<1>4. NodeOk(s)
  BY <1>2, <1>3 DEF NodeOk
<1>5. /\ Ok(SetNode(Book, n, s)) /\ SetNode(Book, n, s).nodes[n] = s
      /\ \A m \in Nodes \ {n} : SetNode(Book, n, s).nodes[m] = nodes[m]
  BY <1>1, <1>3, <1>4, SetNodeOk
<1> DEFINE t == SetNode(Book, n, s)
<1> HIDE DEF t
<1>6. Ok(t) /\ t.nodes[n] = s /\ \A m \in Nodes \ {n} : t.nodes[m] = nodes[m]
  BY <1>5 DEF t
<1>7. Keeps(Book, t, {})
  BY <1>1, <1>3, <1>6 DEF Keeps, SameNode
<1> QED
  BY <1>3, <1>7 DEF t

(* "inv": a request without a header may be made. *)
LEMMA InvOk ==
  ASSUME IInv, NEW n \in Nodes, NEW b \in Blocks, NEW recent \in BOOLEAN, Inv(n, b, recent)
  PROVE  IInv'
<1> DEFINE noted == [nodes[n] EXCEPT !.unknown = b]
           asked == [noted EXCEPT !.asked = TRUE]
           e == [hash |-> b, validated |-> 0]
<1>1. /\ Keeps(Book, SetNode(Book, n, noted), {})
      /\ Keeps(Book, SetNode(Book, n, asked), {}) /\ asked.conn = nodes[n].conn
  BY NoteOk
<1>2. \/ SetBook(SetNode(Book, n, noted))
      \/ SetBook(SetNode(Book, n, asked))
      \/ SetBook(MarkBlockAsInFlight(SetNode(Book, n, asked), n, b, 0))
  BY DEF Inv
<1>3. nodes[n].conn = "up" /\ UNCHANGED <<nSyncStarted, nPreferredDownload, have, tip>>
  BY DEF Inv
<1>4. have \subseteq have' /\ have' \subseteq Chain /\ tip' \in Chain /\ Complete(tip)'
  BY <1>3 DEF IInv, ChainOk, Complete
<1> HIDE DEF noted, asked
<1>5. CASE SetBook(SetNode(Book, n, noted)) \/ SetBook(SetNode(Book, n, asked))
  BY <1>1, <1>3, <1>4, <1>5, SetBookOk
<1>6. CASE SetBook(MarkBlockAsInFlight(SetNode(Book, n, asked), n, b, 0))
  <2> DEFINE u == SetNode(Book, n, asked)
  <2>1. u.nodes[n].conn = nodes[n].conn
    BY <1>1, CurrentBook DEF Keeps, SameNode
  <2>2. Keeps(Book, u, {}) /\ Ok(u) /\ SetBook(MarkBlockAsInFlight(u, n, b, 0))
    BY <1>1, <1>6 DEF Keeps
  <2> HIDE DEF u
  <2>3. u.nodes[n].conn \in {"up", "closing"} /\ 0 \in 0..1
    BY <1>3, <2>1
  <2>4. Keeps(u, MarkBlockAsInFlight(u, n, b, 0), {e})
    BY <2>2, <2>3, InFlightOk
  <2>5. Keeps(Book, u, {e})
    BY <2>2 DEF Keeps
  <2> HIDE DEF e
  <2>6. Keeps(Book, MarkBlockAsInFlight(u, n, b, 0), {e})
    BY <2>4, <2>5, KeepsOn
  <2>7. \A x \in {e} : Near(x)
    BY DEF Near, e
  <2> QED
    BY <1>3, <1>4, <2>2, <2>6, <2>7, SetBookOk
<1> QED
  BY <1>2, <1>5, <1>6

(* "headers": the peer's best block is noted. *)
LEMMA HeadersOk ==
  ASSUME IInv, NEW n \in Nodes, Headers(n)
  PROVE  IInv'
<1> DEFINE b == PeerTip[n]
           s == [nodes[n] EXCEPT !.asked = FALSE, !.unknown = b]
<1>1. b \in Blocks
  BY DownloadAssumption
<1>2. /\ nodes' = [nodes EXCEPT ![n].asked = FALSE, ![n].unknown = b]
      /\ UNCHANGED <<inFlight, nQueuedValidatedHeaders, nSyncStarted, nPreferredDownload, have, tip>>
  BY DEF Headers
<1>3. nodes \in [Nodes -> NodeRecord] /\ nodes[n] \in NodeRecord
  BY DEF IInv, BookOk
<1> HIDE DEF b
<1>4. nodes' = [nodes EXCEPT ![n] = s]
  BY <1>2, <1>3 DEF NodeRecord
<1>5. Keeps(Book, SetNode(Book, n, s), {})
  BY <1>1, NoteOk
<1> HIDE DEF s
<1>6. SetBook(SetNode(Book, n, s))
  BY <1>2, <1>4, CurrentBook DEF SetBook, SetNode
<1>7. have \subseteq have' /\ have' \subseteq Chain /\ tip' \in Chain /\ Complete(tip)'
  BY <1>2 DEF IInv, ChainOk, Complete
<1> QED
  BY <1>2, <1>5, <1>6, <1>7, SetBookOk

(* "block": the request is forgotten; the new tip has all its ancestors. *)
LEMMA BlockOk ==
  ASSUME IInv, NEW n \in Nodes, NEW b \in Blocks, NEW good \in BOOLEAN, Block(n, b, good)
  PROVE  IInv'
<1>1. Keeps(Book, MarkBlockAsReceived(Book, b), {})
  BY CurrentBook, ReceivedOk
<1>2. SetBook(MarkBlockAsReceived(Book, b)) /\ UNCHANGED <<nSyncStarted, nPreferredDownload>>
  BY DEF Block
<1>3. /\ have \subseteq Chain /\ Genesis \in have /\ tip \in Chain /\ Complete(tip)
      /\ b \in Chain
  BY DEF IInv, ChainOk, Chain
<1>4. \/ have' = have /\ tip' = tip
      \/ have' = have \cup {b} /\ tip' = BestTip(have \cup {b})
  BY DEF Block
<1>5. have \subseteq have' /\ have' \subseteq Chain /\ tip' \in Chain /\ Complete(tip)'
  <2>1. CASE have' = have /\ tip' = tip
    BY <1>3, <2>1 DEF Complete
  <2>2. CASE have' = have \cup {b} /\ tip' = BestTip(have \cup {b})
    <3> DEFINE S == have \cup {b}
               complete == {x \in S : Ancestors[x] \subseteq S}
    <3>1. S \subseteq Chain /\ have \subseteq S /\ Genesis \in S
      BY <1>3
    <3>2. complete \in SUBSET Chain /\ Genesis \in complete
      BY <3>1, AncestorsStep
    <3>3. Highest(complete) \in complete
      <4>1. complete # {}
        BY <3>2
      <4> HIDE DEF complete
      <4> QED
        BY <3>2, <4>1, HighestIn
    <3>4. Highest(complete) \in Chain /\ Ancestors[Highest(complete)] \subseteq S
      BY <3>2, <3>3
    <3>5. BestTip(S) \in {Highest(complete), tip}
      BY DEF BestTip
    <3>6. Ancestors[tip] \subseteq S
      BY <1>3 DEF Complete
    <3> HIDE DEF S, complete
    <3>7. tip' \in Chain /\ Ancestors[tip'] \subseteq S
      BY <1>3, <2>2, <3>4, <3>5, <3>6 DEF S
    <3>8. have' = S
      BY <2>2 DEF S
    <3> QED
      BY <3>1, <3>7, <3>8 DEF Complete
  <2> QED
    BY <1>4, <2>1, <2>2
<1> QED
  BY <1>1, <1>2, <1>5, SetBookOk

-----------------------------------------------------------------------------
(* SendMessages *)

(* The last block in common with the peer is complete. *)
LEMMA LastCommonOk ==
  ASSUME ChainOk, NEW s, s.best \in Chain, s.common \in Chain \cup {None},
         s.common # None => Complete(s.common)
  PROVE  LastCommon(s) \in Ancestors[s.best] /\ Complete(LastCommon(s))
<1> DEFINE S == {a \in Ancestors[tip] : Height[a] =< Height[s.best]}
           guess == IF s.common # None THEN s.common ELSE Highest(S)
           T == Ancestors[guess] \cap Ancestors[s.best]
<1>1. tip \in Chain /\ Complete(tip) /\ AncestorsOk(tip) /\ AncestorsOk(s.best)
  BY AncestorsFacts DEF ChainOk
<1>2. S \in SUBSET Chain /\ S # {}
  <2>1. Genesis \in Ancestors[tip] /\ Height[Genesis] =< Height[s.best]
    BY <1>1 DEF AncestorsOk
  <2> QED
    BY <1>1, <2>1 DEF AncestorsOk
<1>3. Highest(S) \in S
  <2> HIDE DEF S
  <2> QED
    BY <1>2, HighestIn
<1>4. Highest(S) \in Chain /\ Complete(Highest(S))
  <2>1. Highest(S) \in Ancestors[tip]
    BY <1>3
  <2> HIDE DEF S
  <2> QED
    BY <1>1, <2>1 DEF AncestorsOk, Complete
<1> HIDE DEF S
<1>5. guess \in Chain /\ Complete(guess)
  BY <1>4
<1>6. LastCommon(s) = Highest(T)
  BY DEF LastCommon, LastCommonAncestor, S
<1> HIDE DEF guess
<1>7. AncestorsOk(guess)
  BY <1>5, AncestorsFacts
<1>8. T \in SUBSET Chain /\ T # {}
  BY <1>1, <1>7 DEF AncestorsOk
<1>9. Highest(T) \in T
  <2> HIDE DEF T
  <2> QED
    BY <1>8, HighestIn
<1>10. Highest(T) \in Ancestors[guess] /\ Highest(T) \in Ancestors[s.best]
  BY <1>9
<1> HIDE DEF T
<1> QED
  BY <1>5, <1>6, <1>7, <1>10 DEF AncestorsOk, Complete

(* The blocks of the walk are above the last common block. *)
LEMMA WalkOk ==
  ASSUME NEW best \in Chain, NEW base \in Ancestors[best]
  PROVE  /\ Walk(best, base) \subseteq Blocks
         /\ \A b \in Walk(best, base) : base \in Ancestors[b]
<1>1. AncestorsOk(best) /\ base \in Chain /\ Height[base] \in Nat
  BY AncestorsFacts, DownloadAssumption DEF AncestorsOk
<1>2. ASSUME NEW b \in Walk(best, base)
      PROVE  b \in Blocks /\ base \in Ancestors[b]
  <2>1. b \in Ancestors[best] /\ Height[b] \in Height[base] + 1 .. Height[base] + Window + 1
    BY DEF Walk
  <2>2. b \in Chain /\ Height[b] \in Nat
    BY <1>1, <2>1, DownloadAssumption DEF AncestorsOk
  <2>3. Height[base] =< Height[b] /\ Height[b] # 0
    BY <1>1, <2>1, <2>2, DownloadAssumption
  <2>4. b # Genesis
    BY <2>3, DownloadAssumption
  <2>5. base \in Ancestors[b]
    BY <2>1, <2>3, AncestorsOrdered
  <2> QED
    BY <2>2, <2>4, <2>5 DEF Chain
<1> QED
  BY <1>2

(* What is fetched is near the last common block. *)
LEMMA FetchOk ==
  ASSUME NEW best \in Chain, NEW base \in Ancestors[best], Complete(base), NEW count,
         NEW fetch, fetch = Lowest(InWindow(Missing(Walk(best, base)), base), count)
  PROVE  fetch \in SUBSET Blocks /\ \A e \in Through(fetch) : Near(e)
<1>1. /\ fetch \subseteq Walk(best, base)
      /\ \A b \in fetch : Height[b] =< Height[base] + Window
  BY DEF Lowest, InWindow, Missing
<1>2. ASSUME NEW b \in fetch
      PROVE  b \in Blocks /\ Near([hash |-> b, validated |-> 1])
  <2>1. b \in Blocks /\ base \in Ancestors[b]
    BY <1>1, <1>2, WalkOk
  <2> QED
    BY <1>1, <1>2, <2>1 DEF Near
<1> QED
  BY <1>2 DEF Through

(* The new common block is complete too. *)
LEMMA CommonOk ==
  ASSUME NEW best \in Chain, NEW base \in Ancestors[best], Complete(base)
  PROVE  LET c == Highest({base} \cup {b \in Walk(best, base) : Here(b) /\ Complete(b)})
         IN c \in Chain /\ Complete(c)
<1> DEFINE S == {base} \cup {b \in Walk(best, base) : Here(b) /\ Complete(b)}
<1>1. base \in Chain /\ Walk(best, base) \subseteq Chain
  BY AncestorsFacts, WalkOk DEF AncestorsOk, Chain
<1>2. S \in SUBSET Chain /\ S # {} /\ \A b \in S : Complete(b)
  BY <1>1
<1> HIDE DEF S
<1>3. Highest(S) \in S
  BY <1>2, HighestIn
<1> QED
  BY <1>2, <1>3 DEF S

(* The node that keeps the window from moving owes a block. *)
LEMMA StallerOwes ==
  ASSUME IInv, NEW walk \in SUBSET Blocks, WaitingFor(walk) # None
  PROVE  WaitingFor(walk) \in Nodes /\ nodes[WaitingFor(walk)].flight # <<>>
<1> DEFINE flying == {b \in walk : ~Here(b) /\ inFlight[b] # None}
           first == CHOOSE b \in flying : \A c \in flying : Height[b] =< Height[c]
<1>1. flying # {} /\ WaitingFor(walk) = inFlight[first]
  BY DEF WaitingFor
<1>2. \A b \in flying : b \in Blocks /\ inFlight[b] # None /\ Height[b] \in Nat
  BY DownloadAssumption DEF Chain
<1> HIDE DEF flying
<1> DEFINE H == {Height[b] : b \in flying}
<1>3. H \in SUBSET Nat /\ H # {}
  BY <1>1, <1>2
<1>4. PICK h \in H : \A g \in H : h =< g
  <2> HIDE DEF H
  <2> QED
    BY <1>3, LeastNatural
<1>5. \E b \in flying : \A c \in flying : Height[b] =< Height[c]
  BY <1>4
<1>6. first \in flying
  BY <1>5
<1> HIDE DEF first
<1>7. first \in Blocks /\ inFlight[first] # None
  BY <1>2, <1>6
<1>8. inFlight[first] \in Nodes
  BY <1>7 DEF IInv, BookOk
<1>9. first \in Hashes(nodes[inFlight[first]].flight)
  BY <1>7, <1>8 DEF IInv, BookOk
<1>10. nodes[inFlight[first]].flight # <<>>
  <2>1. Range(<<>>) = {}
    BY DEF Range
  <2> QED
    BY <1>9, <2>1 DEF Hashes
<1> QED
  BY <1>1, <1>8, <1>10

(* A node that owes a block may be blamed. *)
LEMMA BlameOk ==
  ASSUME NEW book, Ok(book), NEW n \in Nodes, book.nodes[n].flight # <<>>
  PROVE  Keeps(book, SetNode(book, n, [book.nodes[n] EXCEPT !.stalling = TRUE]), {})
<1> DEFINE s == [book.nodes[n] EXCEPT !.stalling = TRUE]
           t == SetNode(book, n, s)
           r == book.nodes[n]
<1>1. r \in NodeRecord /\ NodeOk(r) /\ r.flight # <<>>
  BY DEF Ok, BookOk
<1>2. s = [r EXCEPT !.stalling = TRUE]
  OBVIOUS
<1> HIDE DEF r, s
<1>3. /\ s \in NodeRecord /\ s.conn = r.conn /\ s.flight = r.flight
      /\ s.sync = r.sync /\ s.common = r.common
      /\ s.nBlocksInFlight = r.nBlocksInFlight /\ s.nValidHeaders = r.nValidHeaders
  BY <1>1, <1>2 DEF NodeRecord
<1>4. NodeOk(s)
  BY <1>1, <1>3 DEF NodeOk
<1>5. Ok(t) /\ t.nodes[n] = s /\ \A m \in Nodes \ {n} : t.nodes[m] = book.nodes[m]
  BY <1>3, <1>4, SetNodeOk DEF r
<1> HIDE DEF t
<1>6. Keeps(book, t, {})
  BY <1>3, <1>5 DEF Keeps, SameNode, r
<1> QED
  BY <1>6 DEF t, s

(* A node as SendMessages may leave it before it requests anything. *)
Looked(s, r, sync) ==
  /\ r \in NodeRecord
  /\ r.conn = s.conn /\ r.flight = s.flight /\ r.stalling = s.stalling
  /\ r.nBlocksInFlight = s.nBlocksInFlight /\ r.nValidHeaders = s.nValidHeaders
  /\ r.sync = (s.sync \/ sync)
  /\ r.common # None => Complete(r.common)

(* The book with that node. *)
LEMMA LookedOk ==
  ASSUME IInv, NEW n \in Nodes, NEW sync \in BOOLEAN, NEW r, Looked(nodes[n], r, sync)
  PROVE  /\ Ok(SetNode(Book, n, r)) /\ SetNode(Book, n, r).nodes[n] = r
         /\ \A m \in Nodes \ {n} : SetNode(Book, n, r).nodes[m] = nodes[m]
<1>1. Ok(Book) /\ Book.nodes = nodes
  BY CurrentBook
<1>2. NodeOk(nodes[n])
  BY DEF IInv, BookOk
<1>3. r \in NodeRecord /\ r.flight = nodes[n].flight
  BY DEF Looked
<1>4. NodeOk(r)
  BY <1>2 DEF NodeOk, Looked
<1> QED
  BY <1>1, <1>3, <1>4, SetNodeOk

(* SendMessages, whatever it requests near a complete chain or whomever it blames. *)
LEMMA SendOk ==
  ASSUME IInv, NEW n \in Nodes, NEW sync \in BOOLEAN, sync => ~nodes[n].sync,
         NEW r, Looked(nodes[n], r, sync),
         NEW t, NEW New, Keeps(SetNode(Book, n, r), t, New), \A e \in New : Near(e), SetBook(t),
         nSyncStarted' = nSyncStarted + (IF sync THEN 1 ELSE 0),
         UNCHANGED <<nPreferredDownload, have, tip>>
  PROVE  IInv'
<1> DEFINE u == SetNode(Book, n, r)
<1>1. u.nodes[n] = r /\ \A m \in Nodes \ {n} : u.nodes[m] = nodes[m]
  BY LookedOk
<1>2. Keeps(u, t, New)
  OBVIOUS
<1> HIDE DEF u
<1>3. nodes' = t.nodes
  BY DEF SetBook
<1>4. BookOk(nodes', inFlight') /\ nQueuedValidatedHeaders' \in Int
  BY <1>2, NextBook DEF Keeps
<1>5. \A m \in Nodes : /\ SameNode(u.nodes[m], nodes'[m])
                       /\ Range(nodes'[m].flight) \subseteq Range(u.nodes[m].flight) \cup New
  BY <1>2, <1>3 DEF Keeps
<1>6. /\ nodes'[n].conn = nodes[n].conn /\ nodes'[n].sync = (nodes[n].sync \/ sync)
      /\ nodes'[n].common # None => Complete(nodes'[n].common)
      /\ \A m \in Nodes \ {n} : /\ nodes'[m].conn = nodes[m].conn /\ nodes'[m].sync = nodes[m].sync
                                /\ nodes'[m].common = nodes[m].common
  BY <1>1, <1>5 DEF SameNode, Looked
<1>7. \A m \in Nodes : Range(nodes'[m].flight) \subseteq Range(nodes[m].flight) \cup New
  BY <1>1, <1>5 DEF Looked
<1>8. \A m \in Nodes : \A e \in Range(nodes'[m].flight) : e \in Range(nodes[m].flight) \/ Near(e)
  BY <1>7
<1>9. \A m \in Nodes : nodes'[m].common \in {None, nodes[m].common} \/ Complete(nodes'[m].common)
  BY <1>6
<1>10. Cardinality(Syncing(nodes)) \in Nat
  BY CountsFinite, FS_CardinalityType
<1>11. nSyncStarted' = Cardinality(Syncing(nodes'))
  <2>1. CASE sync
    <3>1. Syncing(nodes') = Syncing(nodes) \cup {n} /\ n \notin Syncing(nodes)
      BY <1>6, <2>1 DEF Syncing
    <3>2. Cardinality(Syncing(nodes')) = Cardinality(Syncing(nodes)) + 1
      BY <3>1, CountsFinite, FS_AddElement
    <3> QED
      BY <2>1, <3>2 DEF IInv, CountsOk
  <2>2. CASE ~sync
    <3>1. nodes'[n].sync <=> nodes[n].sync
      BY <1>6, <2>2
    <3>2. Syncing(nodes') = Syncing(nodes)
      BY <1>6, <3>1 DEF Syncing
    <3> QED
      BY <1>10, <2>2, <3>2 DEF IInv, CountsOk
  <2> QED
    BY <2>1, <2>2
<1>12. Serving(nodes') = Serving(nodes)
  BY <1>6, DownloadAssumption DEF Serving
<1>13. CountsOk'
  BY <1>11, <1>12 DEF CountsOk, IInv
<1>14. have \subseteq have' /\ have' \subseteq Chain /\ tip' \in Chain /\ Complete(tip)'
  BY DEF IInv, ChainOk, Complete
<1> QED
  BY <1>4, <1>8, <1>9, <1>13, <1>14, StepOk

(* ProcessBlockAvailability changes only what is known of the peer's best block. *)
LEMMA AvailabilityOk ==
  ASSUME NEW s \in NodeRecord
  PROVE  LET p == ProcessBlockAvailability(s)
         IN /\ p.best \in Chain \cup {None} /\ p.unknown \in Blocks \cup {None}
            /\ p.common = s.common
<1> DEFINE best == IF s.best = None \/ Height[s.unknown] >= Height[s.best] THEN s.unknown ELSE s.best
           p == ProcessBlockAvailability(s)
<1>1. /\ s.best \in Chain \cup {None} /\ s.unknown \in Blocks \cup {None}
      /\ Blocks \subseteq Chain
  BY DEF NodeRecord, Chain
<1>2. CASE s.unknown = None \/ s.unknown \notin known
  <2>1. p = s
    BY <1>2 DEF ProcessBlockAvailability
  <2> QED
    BY <1>1, <2>1
<1>3. CASE ~(s.unknown = None \/ s.unknown \notin known)
  <2>1. p = [s EXCEPT !.best = best, !.unknown = None]
    BY <1>3 DEF ProcessBlockAvailability, NodeRecord
  <2>2. best \in Chain
    BY <1>1, <1>3
  <2> HIDE DEF best, p
  <2>3. p.best = best /\ p.unknown = None /\ p.common = s.common
    BY <2>1 DEF NodeRecord
  <2> QED
    BY <2>2, <2>3 DEF p
<1> QED
  BY <1>2, <1>3

(* SendMessages. *)
LEMMA SendMessagesOk ==
  ASSUME IInv, NEW n \in Nodes, NEW recent \in BOOLEAN, SendMessages(n, recent)
  PROVE  IInv'
<1> DEFINE sync == StartsSync(n, recent)
           s == ProcessBlockAvailability(nodes[n])
           begun == [nodes[n] EXCEPT !.sync = @ \/ sync, !.asked = @ \/ sync]
           seen == [begun EXCEPT !.best = s.best, !.unknown = s.unknown]
<1>1. /\ nodes[n].conn = "up" /\ UNCHANGED <<nPreferredDownload, have, tip>>
      /\ nSyncStarted' = nSyncStarted + (IF sync THEN 1 ELSE 0)
  BY DEF SendMessages
<1>2. \/ SetBook(SetNode(Book, n, begun))
      \/ SetBook(SetNode(Book, n, seen))
      \/ ~NothingInteresting(s) /\ Download(n, s, begun)
  BY DEF SendMessages
<1>3. nodes[n] \in NodeRecord /\ (nodes[n].common # None => Complete(nodes[n].common))
  BY DEF IInv, BookOk, ChainOk
<1>4. sync \in BOOLEAN /\ (sync => ~nodes[n].sync)
  BY DEF StartsSync
<1>5. /\ s.best \in Chain \cup {None} /\ s.unknown \in Blocks \cup {None}
      /\ s.common = nodes[n].common
  BY <1>3, AvailabilityOk
<1> HIDE DEF sync, s
<1>6. Looked(nodes[n], begun, sync)
  BY <1>3, <1>4 DEF NodeRecord, Looked
<1> DEFINE r(c) == [begun EXCEPT !.best = s.best, !.unknown = s.unknown, !.common = c]
<1>7. begun \in NodeRecord
  BY <1>6 DEF Looked
<1> HIDE DEF begun
<1>8. Looked(nodes[n], seen, sync)
  BY <1>5, <1>6, <1>7 DEF NodeRecord, Looked
<1>9. ASSUME NEW c \in Chain, Complete(c)
      PROVE  Looked(nodes[n], r(c), sync)
  BY <1>5, <1>6, <1>7, <1>9 DEF NodeRecord, Looked
<1> HIDE DEF seen, r
<1>10. ASSUME NEW x, Looked(nodes[n], x, sync), SetBook(SetNode(Book, n, x))
       PROVE  IInv'
  <2>1. Keeps(SetNode(Book, n, x), SetNode(Book, n, x), {})
    BY <1>4, <1>10, LookedOk DEF Keeps, SameNode
  <2> QED
    BY <1>1, <1>4, <1>10, <2>1, SendOk
<1>11. CASE SetBook(SetNode(Book, n, begun)) \/ SetBook(SetNode(Book, n, seen))
  BY <1>6, <1>8, <1>10, <1>11
<1>12. CASE ~(SetBook(SetNode(Book, n, begun)) \/ SetBook(SetNode(Book, n, seen)))
  <2>1. s.best \in Chain
    BY <1>2, <1>12 DEF NothingInteresting
  <2> DEFINE base == LastCommon(s)
             walk == Walk(s.best, base)
             fetch == Lowest(InWindow(Missing(walk), base), MaxInTransit - s.nBlocksInFlight)
             c == Highest({base} \cup {b \in walk : Here(b) /\ Complete(b)})
             looked == SetNode(Book, n, r(c))
             staller == WaitingFor(walk)
  <2>2. \/ /\ staller \notin {None, n}
           /\ SetBook(SetNode(looked, staller, [looked.nodes[staller] EXCEPT !.stalling = TRUE]))
        \/ SetBook(RequestAll(looked, n, fetch, Height[s.best]))
    <3>1. Download(n, s, begun)
      BY <1>2, <1>12
    <3> QED
      BY <3>1, Zenon DEF r, Download
  <2>3. base \in Ancestors[s.best] /\ Complete(base)
    <3>1. s.common \in Chain \cup {None} /\ (s.common # None => Complete(s.common))
      BY <1>3, <1>5 DEF NodeRecord
    <3> QED
      BY <2>1, <3>1, LastCommonOk DEF IInv
  <2> HIDE DEF base
  <2>4. walk \in SUBSET Blocks
    BY <2>1, <2>3, WalkOk
  <2>5. fetch \in SUBSET Blocks /\ \A e \in Through(fetch) : Near(e)
    BY <2>1, <2>3, FetchOk
  <2>6. c \in Chain /\ Complete(c)
    BY <2>1, <2>3, CommonOk
  <2> HIDE DEF walk, fetch, c
  <2>7. Looked(nodes[n], r(c), sync)
    BY <1>9, <2>6
  <2>8. /\ Ok(looked) /\ looked.nodes[n] = r(c)
        /\ \A m \in Nodes \ {n} : looked.nodes[m] = nodes[m]
    BY <1>4, <2>7, LookedOk
  <2>9. looked.nodes[n].conn = "up"
    BY <1>1, <2>7, <2>8 DEF Looked
  <2>10. ASSUME NEW t, NEW New, Keeps(looked, t, New), \A e \in New : Near(e), SetBook(t)
         PROVE  IInv'
    BY <1>1, <1>4, <2>7, <2>10, SendOk
  <2> HIDE DEF looked
  <2>11. CASE SetBook(RequestAll(looked, n, fetch, Height[s.best]))
    <3>1. Height[s.best] \in Nat /\ looked.nodes[n].conn \in {"up", "closing"}
      BY <2>1, <2>9, DownloadAssumption
    <3>2. Keeps(looked, RequestAll(looked, n, fetch, Height[s.best]), Through(fetch))
      BY <2>5, <2>8, <3>1, RequestAllOk
    <3> QED
      BY <2>5, <2>10, <2>11, <3>2
  <2>12. CASE /\ staller \notin {None, n}
              /\ SetBook(SetNode(looked, staller, [looked.nodes[staller] EXCEPT !.stalling = TRUE]))
    <3>1. staller \in Nodes /\ nodes[staller].flight # <<>>
      BY <2>4, <2>12, StallerOwes
    <3> HIDE DEF staller
    <3>2. looked.nodes[staller].flight # <<>>
      BY <2>8, <2>12, <3>1
    <3>3. Keeps(looked, SetNode(looked, staller, [looked.nodes[staller] EXCEPT !.stalling = TRUE]), {})
      BY <2>8, <3>1, <3>2, BlameOk
    <3> QED
      BY <2>10, <2>12, <3>3
  <2> QED
    BY <2>2, <2>11, <2>12
<1> QED
  BY <1>11, <1>12

-----------------------------------------------------------------------------
(* Theorems *)

(* The inductive invariant holds in every state. *)
THEOREM Invariance ==
  Spec => []IInv
<1>1. ASSUME IInv, Next
      PROVE  IInv'
  <2>1. PICK n \in Nodes :
             \/ Connect(n)
             \/ Drop(n) \/ TimeOut(n)
             \/ FinalizeNode(n)
             \/ \E b \in Blocks, recent \in BOOLEAN : Inv(n, b, recent)
             \/ Headers(n)
             \/ \E b \in Blocks, good \in BOOLEAN : Block(n, b, good)
             \/ \E recent \in BOOLEAN : SendMessages(n, recent)
    BY <1>1 DEF Next
  <2> QED
    BY <1>1, <2>1, ConnectOk, CloseOk, FinalizeOk, InvOk, HeadersOk, BlockOk, SendMessagesOk
<1>2. ASSUME IInv, UNCHANGED vars
      PROVE  IInv'
  BY <1>2 DEF vars, IInv, CountsOk, ChainOk, Complete, Near
<1>3. IInv /\ [Next]_vars => IInv'
  BY <1>1, <1>2
<1> QED
  BY InitOk, <1>3, PTL DEF Spec

(* mapBlocksInFlight, the peers' lists and every counter but the global one *)
(* of queued headers agree in every state: no iterator in the map dangles,  *)
(* whatever the peers do and for any number of them.                        *)
THEOREM RequestsAgree ==
  Spec => []InFlightConsistent
<1>1. IInv => InFlightConsistent
  <2> SUFFICES ASSUME IInv PROVE InFlightConsistent
    OBVIOUS
  <2>1. \A n \in Nodes : InFlightOf(n) = Hashes(nodes[n].flight)
    BY DEF InFlightOf, Hashes
  <2>2. \A n \in Nodes : NodeOk(nodes[n])
    BY DEF IInv, BookOk
  <2>3. \A n \in Nodes : Cardinality(InFlightOf(n)) = Len(nodes[n].flight)
    BY <2>1, <2>2, FlightFinite DEF NodeOk
  <2>4. \A b \in Blocks, n \in Nodes : inFlight[b] = n <=> b \in InFlightOf(n)
    BY <2>1 DEF IInv, BookOk
  <2>5. nSyncStarted = Cardinality(Syncing(nodes)) /\ nPreferredDownload = Cardinality(Serving(nodes))
    BY DEF IInv, CountsOk
  <2> QED
    BY <2>2, <2>3, <2>4, <2>5 DEF InFlightConsistent, NodeOk, Validated, Syncing, Serving
<1> QED
  BY Invariance, <1>1, PTL

(* Only a peer that owes a block is blamed for stalling. *)
THEOREM BlameIsEarned ==
  Spec => []StallersOwe
<1>1. IInv => StallersOwe
  BY DEF IInv, BookOk, NodeOk, StallersOwe
<1> QED
  BY Invariance, <1>1, PTL

(* No request made through a header is further than the window above a block *)
(* whose chain is all here, whichever branches the peers move to.            *)
THEOREM WindowIsKept ==
  Spec => []WindowRespected
<1>1. IInv => WindowRespected
  BY DEF IInv, Near, WindowRespected
<1> QED
  BY Invariance, <1>1, PTL

=============================================================================
