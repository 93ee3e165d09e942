------------------------- MODULE KomodoStateProofs -------------------------
(***************************************************************************)
(* Proofs about the dPoW state and the file komodostate: writing a record  *)
(* and applying it is the same as replaying it, except for ratifications,  *)
(* which a replay skips and which no rewind can tell; notarised heights    *)
(* only go up and are never forgotten, whatever is reorganised or checked  *)
(* and wherever the process dies.                                          *)
(***************************************************************************)
EXTENDS KomodoState, FiniteSetTheorems, SequenceTheorems, WellFoundedInduction, TLAPS

-----------------------------------------------------------------------------
(* Types *)

(* What the outputs of blocks may say. *)
Says(type) ==
  {out \in UNION {{Outputs[b][i] : i \in 1..Len(Outputs[b])} : b \in Blocks} : out.type = type}

Hash == {None} \cup {out.hash : out \in Says("notarise")}
Root == {0} \cup {out.MoM : out \in Says("notarise")}
Notaries == {FirstNotaries} \cup {out.pubkeys : out \in Says("ratify")}
Update == {out.update : out \in Says("kv")}

Event == [type : {"notarized", "ratify", "kmdheight", "opreturn", "rewind"}, height : Nat]
Point == [nHeight : Nat, notarized : Nat, hash : Hash, MoM : Root]

State == [events : Seq(Event), NPOINTS : Seq(Point), NOTARIZED_HEIGHT : Nat,
          NOTARIZED_HASH : Hash, MoM : Root, SAVEDHEIGHT : Nat,
          Pubkeys : [0..Epochs - 1 -> Notaries], ratified : Nat]

(* An entry has no flags but the ones it gets when its key is new. *)
KvEntry == [value : {u.value : u \in Update},
            pubkey : {None} \cup {u.pubkey : u \in Update} \cup {u.transfer : u \in Update},
            height : {u.height : u \in Update}, flags : {NoFlags}]
KvStore == [Keys -> KvEntry \cup {None}]

Record == [func : {"T"}, height : Nat, kmdheight : Int]
          \cup [func : {"P"}, height : Nat, pubkeys : Notaries]
          \cup [func : {"R"}, height : Nat, update : Update]
          \cup [func : {"M"}, height : Nat, notarized : Nat, hash : Hash, MoM : Root]
          \cup [func : {"N"}, height : Nat, notarized : Nat, hash : Hash]

-----------------------------------------------------------------------------
(* The inductive invariant *)

NeverOwnedIn(records, key) ==
  \A i \in 1..Len(records) :
    records[i].func = "R" /\ records[i].update.key = key =>
      records[i].update.pubkey = None /\ records[i].update.transfer = None

(* A key nobody ever owned has an entry that nobody owns. *)
Unowned(records, store) ==
  \A k \in Keys : NeverOwnedIn(records, k) => store[k] = None \/ store[k].pubkey = None

(* Searches may have deleted entries, but not changed them. *)
Agree(records, store, replayed) ==
  \A k \in Keys : NeverOwnedIn(records, k) => store[k] = None \/ store[k] = replayed[k]

(* Notarised heights go up to the one enforced. *)
Rising(s) ==
  /\ \A i, j \in 1..Len(s.NPOINTS) : i < j => s.NPOINTS[i].notarized < s.NPOINTS[j].notarized
  /\ s.NOTARIZED_HEIGHT = IF s.NPOINTS = <<>> THEN 0 ELSE Last(s.NPOINTS).notarized

(* No event is a rewind, and heights are those of blocks. *)
Bounded(s) ==
  /\ \A i \in 1..Len(s.events) : s.events[i].type # "rewind" /\ s.events[i].height \in Heights
  /\ s.NOTARIZED_HEIGHT \in Heights /\ s.SAVEDHEIGHT \in Heights

(* Events `part' are events `full' without the ratifications. *)
Drops(full, part) ==
  \E f \in [1..Len(part) -> 1..Len(full)] :
    /\ \A i, j \in 1..Len(part) : i < j => f[i] < f[j]
    /\ \A i \in 1..Len(part) : part[i] = full[f[i]]
    /\ \A j \in 1..Len(full) : full[j].type # "ratify" <=> \E i \in 1..Len(part) : f[i] = j

(* State p, replayed, is what there is of the running state s in the file. *)
Follows(s, p) ==
  /\ Drops(s.events, p.events)
  /\ p.NPOINTS = s.NPOINTS /\ p.NOTARIZED_HEIGHT = s.NOTARIZED_HEIGHT
  /\ p.NOTARIZED_HASH = s.NOTARIZED_HASH /\ p.MoM = s.MoM /\ p.SAVEDHEIGHT = s.SAVEDHEIGHT

(* Every ratification is followed by an event of its height, the height    *)
(* record of its block if no other: a rewind never stops at one.  While a  *)
(* block at height h is scanned the last event may be a ratification.      *)
SettledUpTo(events, h) ==
  \A i \in 1..Len(events) : events[i].type = "ratify" =>
    \/ i < Len(events) /\ events[i + 1].height = events[i].height
    \/ i = Len(events) /\ events[i].height = h

Settled(events) ==
  \A i \in 1..Len(events) : events[i].type = "ratify" =>
    i < Len(events) /\ events[i + 1].height = events[i].height

(* The high-water mark is not below the tip; if it does not warn of events *)
(* above the tip, the last event is not one.                               *)
Marked ==
  hwmheight # 0 =>
    \/ hwmheight > Height[tip]
    \/ /\ hwmheight = Height[tip]
       /\ Len(sp.events) # 0 /\ sp.events[Len(sp.events)].height =< Height[tip]

IInv ==
  /\ sp \in State /\ kv \in KvStore /\ file \in Seq(Record)
  /\ Len(file) =< MaxRecords
  /\ hwmheight \in Heights /\ last_NPOINTSi \in Nat
  /\ tip \in Chain /\ stored \in Chain /\ restarts \in Nat
  /\ Follows(sp, Replay(file).sp) /\ Settled(sp.events)
  /\ Unowned(file, kv) /\ Agree(file, kv, Replay(file).kv)
  /\ Rising(sp) /\ Bounded(sp)
  /\ last_NPOINTSi = 0 \/ last_NPOINTSi < Len(sp.NPOINTS)
  /\ Marked

-----------------------------------------------------------------------------
(* Recursion *)

(* A set of natural numbers has a least element. *)
LEMMA LeastNatural ==
  ASSUME NEW S \in SUBSET Nat, S # {}
  PROVE  \E n \in S : \A m \in S : n =< m
<1> DEFINE R == {p \in Nat \X Nat : p[1] < p[2]}
<1>1. OpToRel(<, Nat) = R
  BY DEF OpToRel
<1>2. IsWellFoundedOn(R, Nat)
  BY <1>1, NatLessThanWellFounded, Zenon
<1> HIDE DEF R
<1>3. PICK n \in S : \A m \in S : ~(<<m, n>> \in R)
  BY <1>2, WFMin, Zenon
<1>4. \A m \in S : ~(m < n)
  BY <1>3 DEF R
<1> QED
  BY <1>4

(* The states a replay goes through. *)
IsReplay(records, f) ==
  f = [i \in 0..Len(records) |-> IF i = 0 THEN [sp |-> FreshState, kv |-> NoKv]
                                 ELSE Parse(f[i - 1], records[i])]

(* There is such a function: the recursion is well founded. *)
LEMMA ReplayExists ==
  ASSUME NEW records, Len(records) \in Nat
  PROVE  \E f : IsReplay(records, f)
<1> DEFINE Zero == [sp |-> FreshState, kv |-> NoKv]
           Partial(n, f) == f = [i \in 0..n |-> IF i = 0 THEN Zero
                                                ELSE Parse(f[i - 1], records[i])]
           Bad == {n \in Nat : ~\E f : Partial(n, f)}
<1> HIDE DEF Zero
<1>1. Bad = {}
  <2> SUFFICES ASSUME Bad # {} PROVE FALSE
    OBVIOUS
  <2>1. PICK n \in Bad : \A m \in Bad : n =< m
    <3> HIDE DEF Bad
    <3>1. Bad \in SUBSET Nat
      BY DEF Bad
    <3> QED
      BY <3>1, LeastNatural
  <2>2. Partial(0, [i \in 0..0 |-> Zero])
    OBVIOUS
  <2>3. n \in Nat /\ n # 0
    BY <2>1, <2>2
  <2>4. n - 1 \in Nat /\ n - 1 \notin Bad
    BY <2>1, <2>3
  <2>5. PICK f : Partial(n - 1, f)
    BY <2>4
  <2> DEFINE g == [i \in 0..n |-> IF i = n THEN Parse(f[n - 1], records[n]) ELSE f[i]]
  <2>6. \A i \in 0..n : g[i] = IF i = 0 THEN Zero ELSE Parse(g[i - 1], records[i])
    <3> SUFFICES ASSUME NEW i \in 0..n
                 PROVE  g[i] = IF i = 0 THEN Zero ELSE Parse(g[i - 1], records[i])
      OBVIOUS
    <3>1. CASE i = n
      <4>1. g[i] = Parse(f[n - 1], records[n]) /\ g[n - 1] = f[n - 1]
        BY <2>3, <3>1
      <4> QED
        BY <2>3, <3>1, <4>1
    <3>2. CASE i # n
      <4>1. i \in 0..n - 1
        BY <2>3, <3>2
      <4>2. f[i] = IF i = 0 THEN Zero ELSE Parse(f[i - 1], records[i])
        BY <2>5, <4>1
      <4>3. g[i] = f[i] /\ (i # 0 => g[i - 1] = f[i - 1])
        BY <2>3, <3>2, <4>1
      <4> QED
        BY <4>2, <4>3
    <3> QED
      BY <3>1, <3>2
  <2>7. Partial(n, g)
    <3> HIDE DEF g
    <3>1. g = [i \in 0..n |-> g[i]]
      BY DEF g
    <3> QED
      BY <2>6, <3>1
  <2> QED
    BY <2>1, <2>7
<1>2. Len(records) \notin Bad
  BY <1>1
<1> QED
  BY <1>2 DEF IsReplay, Zero

(* A replay ends in the last of these states. *)
LEMMA ReplayIs ==
  ASSUME NEW records, Len(records) \in Nat
  PROVE  \E f : IsReplay(records, f) /\ Replay(records) = f[Len(records)]
<1> DEFINE f == CHOOSE after : IsReplay(records, after)
<1>1. IsReplay(records, f)
  BY ReplayExists
<1>2. Replay(records) = f[Len(records)]
  BY DEF Replay, IsReplay
<1> QED
  BY <1>1, <1>2

(* The largest of finitely many natural numbers. *)
LEMMA MaxExists ==
  ASSUME NEW S \in SUBSET Nat, S # {}, NEW bound \in Nat, \A x \in S : x =< bound
  PROVE  Max(S) \in S /\ \A x \in S : x =< Max(S)
<1> DEFINE T == {bound - x : x \in S}
<1>1. T \in SUBSET Nat /\ T # {}
  <2>1. \A x \in S : bound - x \in Nat
    OBVIOUS
  <2>2. PICK x \in S : TRUE
    OBVIOUS
  <2>3. bound - x \in T
    OBVIOUS
  <2> QED
    BY <2>1, <2>3
<1>2. PICK n \in T : \A m \in T : n =< m
  <2> HIDE DEF T
  <2> QED
    BY <1>1, LeastNatural
<1>3. PICK x \in S : n = bound - x
  BY <1>2
<1>4. \A y \in S : bound - y \in T
  OBVIOUS
<1>5. \A y \in S : x >= y
  BY <1>2, <1>3, <1>4
<1>6. \E z \in S : \A y \in S : z >= y
  BY <1>5
<1>7. Max(S) \in S /\ \A y \in S : Max(S) >= y
  BY <1>6 DEF Max
<1> QED
  BY <1>7

(* The least of some natural numbers. *)
LEMMA MinExists ==
  ASSUME NEW S \in SUBSET Nat, S # {}
  PROVE  Min(S) \in S /\ \A x \in S : Min(S) =< x
<1>1. \E z \in S : \A y \in S : z =< y
  BY LeastNatural
<1> QED
  BY <1>1 DEF Min

(* A replay takes the records one by one. *)
LEMMA ReplayAppend ==
  ASSUME NEW records \in Seq(Record), NEW r \in Record
  PROVE  Replay(Append(records, r)) = Parse(Replay(records), r)
<1> DEFINE more == Append(records, r)
           n == Len(records)
<1>1. n \in Nat /\ Len(more) = n + 1 /\ more[n + 1] = r /\ \A i \in 1..n : more[i] = records[i]
  OBVIOUS
<1> HIDE DEF more, n
<1>2. PICK f : IsReplay(records, f) /\ Replay(records) = f[n]
  BY <1>1, ReplayIs DEF n
<1>3. PICK g : IsReplay(more, g) /\ Replay(more) = g[n + 1]
  BY <1>1, ReplayIs
<1> DEFINE Zero == [sp |-> FreshState, kv |-> NoKv]
<1> HIDE DEF Zero
<1>4. \A i \in 0..n : f[i] = IF i = 0 THEN Zero ELSE Parse(f[i - 1], records[i])
  BY <1>1, <1>2 DEF IsReplay, n, Zero
<1>5. \A i \in 0..n + 1 : g[i] = IF i = 0 THEN Zero ELSE Parse(g[i - 1], more[i])
  BY <1>1, <1>3 DEF IsReplay, Zero
<1> DEFINE Bad == {i \in 0..n : f[i] # g[i]}
<1>6. Bad = {}
  <2> SUFFICES ASSUME Bad # {} PROVE FALSE
    OBVIOUS
  <2>1. Bad \in SUBSET Nat
    BY <1>1
  <2>2. PICK i \in Bad : \A m \in Bad : i =< m
    <3> HIDE DEF Bad
    <3> QED
      BY <2>1, LeastNatural
  <2>3. i \in 0..n /\ i # 0
    BY <1>1, <1>4, <1>5, <2>2
  <2>4. i - 1 \in 0..n /\ i - 1 \notin Bad /\ i \in 1..n
    BY <1>1, <2>2, <2>3
  <2>5. f[i - 1] = g[i - 1] /\ more[i] = records[i]
    BY <1>1, <2>4
  <2> QED
    BY <1>1, <1>4, <1>5, <2>2, <2>3, <2>5
<1>7. f[n] = g[n]
  BY <1>1, <1>6
<1>8. g[n + 1] = Parse(g[n], r)
  BY <1>1, <1>5
<1> QED
  BY <1>2, <1>3, <1>7, <1>8 DEF more

(* An empty file gives the initial state. *)
LEMMA ReplayEmpty ==
  Replay(<<>>) = [sp |-> FreshState, kv |-> NoKv]
<1>1. Len(<<>>) = 0
  OBVIOUS
<1>2. PICK f : IsReplay(<<>>, f) /\ Replay(<<>>) = f[0]
  BY <1>1, ReplayIs
<1> QED
  BY <1>1, <1>2 DEF IsReplay

-----------------------------------------------------------------------------
(* The state *)

(* States with equal fields are equal. *)
LEMMA StateEqual ==
  ASSUME NEW s \in State, NEW t \in State,
         s.events = t.events, s.NPOINTS = t.NPOINTS,
         s.NOTARIZED_HEIGHT = t.NOTARIZED_HEIGHT, s.NOTARIZED_HASH = t.NOTARIZED_HASH,
         s.MoM = t.MoM, s.SAVEDHEIGHT = t.SAVEDHEIGHT, s.Pubkeys = t.Pubkeys,
         s.ratified = t.ratified
  PROVE  s = t
BY DEF State

(* The initial state. *)
LEMMA FreshFacts ==
  /\ FreshState \in State /\ NoKv \in KvStore
  /\ FreshState.events = <<>> /\ FreshState.NPOINTS = <<>> /\ FreshState.NOTARIZED_HEIGHT = 0
<1>1. <<>> \in Seq(Event) /\ <<>> \in Seq(Point)
  OBVIOUS
<1>2. None \in Hash /\ 0 \in Root /\ FirstNotaries \in Notaries
  BY DEF Hash, Root, Notaries
<1>3. [i \in 0..Epochs - 1 |-> FirstNotaries] \in [0..Epochs - 1 -> Notaries]
  BY <1>2
<1>4. FreshState \in State
  BY <1>1, <1>2, <1>3 DEF FreshState, State
<1> QED
  BY <1>4 DEF FreshState, NoKv, KvStore

(* Appending an event. *)
LEMMA EventAddFacts ==
  ASSUME NEW s \in State, NEW h \in Nat,
         NEW type \in {"notarized", "ratify", "kmdheight", "opreturn", "rewind"}
  PROVE  LET t == EventAdd(s, type, h) IN
         /\ t \in State /\ t.events = Append(s.events, [type |-> type, height |-> h])
         /\ t.NPOINTS = s.NPOINTS /\ t.NOTARIZED_HEIGHT = s.NOTARIZED_HEIGHT
         /\ t.NOTARIZED_HASH = s.NOTARIZED_HASH /\ t.MoM = s.MoM
         /\ t.SAVEDHEIGHT = s.SAVEDHEIGHT /\ t.Pubkeys = s.Pubkeys /\ t.ratified = s.ratified
<1> DEFINE e == [type |-> type, height |-> h]
           more == Append(s.events, e)
<1>1. e \in Event
  BY DEF Event
<1>2. s.events \in Seq(Event)
  BY DEF State
<1>3. more \in Seq(Event)
  BY <1>1, <1>2
<1>4. EventAdd(s, type, h) = [s EXCEPT !.events = more]
  BY DEF EventAdd
<1> HIDE DEF more
<1>5. LET t == [s EXCEPT !.events = more] IN
      /\ t \in State /\ t.events = more
      /\ t.NPOINTS = s.NPOINTS /\ t.NOTARIZED_HEIGHT = s.NOTARIZED_HEIGHT
      /\ t.NOTARIZED_HASH = s.NOTARIZED_HASH /\ t.MoM = s.MoM
      /\ t.SAVEDHEIGHT = s.SAVEDHEIGHT /\ t.Pubkeys = s.Pubkeys /\ t.ratified = s.ratified
  BY <1>3 DEF State
<1> QED
  BY <1>4, <1>5 DEF more

(* The point that notarisation n in a block at height h adds. *)
PointOf(h, n) == [nHeight |-> h, notarized |-> n.height, hash |-> n.hash, MoM |-> n.MoM]

(* Appending a point. *)
LEMMA NotarizedUpdateFacts ==
  ASSUME NEW s \in State, NEW h \in Nat, NEW n, n.height \in Nat, n.hash \in Hash, n.MoM \in Root
  PROVE  LET t == NotarizedUpdate(s, h, n) IN
         /\ t \in State /\ t.events = s.events
         /\ t.SAVEDHEIGHT = s.SAVEDHEIGHT /\ t.Pubkeys = s.Pubkeys /\ t.ratified = s.ratified
         /\ n.height >= h => t = s
         /\ n.height < h =>
              /\ t.NPOINTS = Append(s.NPOINTS, PointOf(h, n))
              /\ t.NOTARIZED_HEIGHT = n.height /\ t.NOTARIZED_HASH = n.hash /\ t.MoM = n.MoM
<1> DEFINE p == [nHeight |-> h, notarized |-> n.height, hash |-> n.hash, MoM |-> n.MoM]
           more == Append(s.NPOINTS, p)
           a == n.height
           b == n.hash
           c == n.MoM
<1>1. p \in Point
  BY DEF Point
<1>2. s.NPOINTS \in Seq(Point)
  BY DEF State
<1>3. more \in Seq(Point)
  BY <1>1, <1>2
<1>4. NotarizedUpdate(s, h, n) =
        IF a >= h THEN s
        ELSE [s EXCEPT !.NPOINTS = more, !.NOTARIZED_HEIGHT = a, !.NOTARIZED_HASH = b, !.MoM = c]
  BY DEF NotarizedUpdate
<1>5. a \in Nat /\ b \in Hash /\ c \in Root
  OBVIOUS
<1> HIDE DEF more, a, b, c
<1>6. LET t == [s EXCEPT !.NPOINTS = more, !.NOTARIZED_HEIGHT = a, !.NOTARIZED_HASH = b, !.MoM = c] IN
      /\ t \in State /\ t.events = s.events
      /\ t.SAVEDHEIGHT = s.SAVEDHEIGHT /\ t.Pubkeys = s.Pubkeys /\ t.ratified = s.ratified
      /\ t.NPOINTS = more /\ t.NOTARIZED_HEIGHT = a /\ t.NOTARIZED_HASH = b /\ t.MoM = c
  BY <1>3, <1>5 DEF State
<1>7. CASE a >= h
  BY <1>4, <1>5, <1>7 DEF a
<1>8. CASE a < h
  <2>1. ~(a >= h)
    BY <1>5, <1>8
  <2> QED
    BY <1>4, <1>6, <1>8, <2>1 DEF a, b, c, more, PointOf
<1> QED
  BY <1>5, <1>7, <1>8

(* What a notarisation of a lower height does. *)
Notarised(s, t, h, n) ==
  /\ t \in State /\ t.events = s.events /\ t.NPOINTS = Append(s.NPOINTS, PointOf(h, n))
  /\ t.NOTARIZED_HEIGHT = n.height /\ t.NOTARIZED_HASH = n.hash /\ t.MoM = n.MoM
  /\ t.SAVEDHEIGHT = s.SAVEDHEIGHT /\ t.Pubkeys = s.Pubkeys /\ t.ratified = s.ratified

(* komodo_notarized_update does that. *)
LEMMA NotarizedUpdateIs ==
  ASSUME NEW s \in State, NEW h \in Nat, NEW n, n.height \in Nat, n.hash \in Hash, n.MoM \in Root,
         n.height < h
  PROVE  Notarised(s, NotarizedUpdate(s, h, n), h, n)
BY NotarizedUpdateFacts DEF Notarised

(* The entry from which on a ratification sets the notaries. *)
LEMMA ElectionType ==
  ASSUME NEW h \in Nat
  PROVE  ElectionOf(h) \in Nat
<1> DEFINE x == h + Gap \div 2
           S == {x \div Gap + 1, Epochs - 1}
<1>0. Gap \in Nat /\ Gap > 0 /\ Epochs - 1 \in Nat
  BY KomodoAssumption
<1>1. Gap \div 2 \in Nat
  BY <1>0
<1>2. x \in Nat
  BY <1>1
<1> HIDE DEF x
<1>3. x \div Gap \in Nat
  BY <1>0, <1>2
<1>4. S \in SUBSET Nat /\ S # {}
  BY <1>0, <1>3
<1> HIDE DEF S
<1>5. Min(S) \in S
  BY <1>4, MinExists
<1> QED
  BY <1>4, <1>5 DEF ElectionOf, S, x

(* A height in another entry than the last is before that entry. *)
LEMMA PastElections ==
  ASSUME NEW h \in Nat, NEW g \in 0..h, g \div Gap < Epochs - 1
  PROVE  /\ g \div Gap \in 0..Epochs - 1 /\ g \div Gap < ElectionOf(h)
         /\ Min({g \div Gap, Epochs - 1}) = g \div Gap
<1> DEFINE x == h + Gap \div 2
           q == x \div Gap
           d == g \div Gap
           S == {q + 1, Epochs - 1}
           T == {d, Epochs - 1}
<1>0. Gap \in Nat /\ Gap > 0 /\ Epochs - 1 \in Nat /\ g \in Nat /\ g =< h
  BY KomodoAssumption
<1>1. Gap \div 2 \in Nat
  BY <1>0
<1>2. x \in Nat /\ g =< x
  BY <1>0, <1>1
<1> HIDE DEF x
<1>3. q \in Nat /\ (q + 1) * Gap > x
  BY <1>0, <1>2
<1>4. d \in Nat /\ d * Gap =< g
  BY <1>0
<1>5. d < Epochs - 1
  OBVIOUS
<1> HIDE DEF q, d
<1>6. d < q + 1
  <2> SUFFICES ASSUME d >= q + 1 PROVE FALSE
    BY <1>3, <1>4
  <2>1. \A e \in Nat : (q + 1 + e) * Gap = (q + 1) * Gap + e * Gap /\ e * Gap >= 0
    BY <1>0, <1>3
  <2>2. d = q + 1 + (d - (q + 1)) /\ d - (q + 1) \in Nat
    BY <1>3, <1>4
  <2>3. (q + 1) * Gap \in Nat /\ (d - (q + 1)) * Gap \in Nat /\ d * Gap \in Nat
    BY <1>0, <1>3, <1>4, <2>2
  <2>4. d * Gap >= (q + 1) * Gap
    BY <2>1, <2>2, <2>3
  <2> QED
    BY <1>0, <1>2, <1>3, <1>4, <2>3, <2>4
<1>7. S \in SUBSET Nat /\ S # {} /\ T \in SUBSET Nat /\ T # {}
  BY <1>0, <1>3, <1>4
<1>8. (\A y \in S : d < y) /\ d \in T /\ \A y \in T : d =< y
  BY <1>0, <1>3, <1>4, <1>5, <1>6
<1> HIDE DEF S, T
<1>9. Min(S) \in S /\ Min(T) \in T /\ \A y \in T : Min(T) =< y
  BY <1>7, MinExists
<1>10. d < Min(S) /\ Min(T) = d
  <2>1. Min(T) \in Nat
    BY <1>7, <1>9
  <2> QED
    BY <1>4, <1>8, <1>9, <2>1
<1>11. ElectionOf(h) = Min(S)
  BY DEF ElectionOf, S, q, x
<1> QED
  BY <1>0, <1>4, <1>5, <1>10, <1>11 DEF d, T

(* A ratification. *)
LEMMA NotarysInitFacts ==
  ASSUME NEW s \in State, NEW h \in Nat, NEW pubkeys \in Notaries
  PROVE  LET t == NotarysInit(s, h, pubkeys) IN
         /\ t \in State /\ t.events = s.events /\ t.NPOINTS = s.NPOINTS
         /\ t.NOTARIZED_HEIGHT = s.NOTARIZED_HEIGHT
         /\ t.NOTARIZED_HASH = s.NOTARIZED_HASH /\ t.MoM = s.MoM
         /\ t.SAVEDHEIGHT = s.SAVEDHEIGHT
         /\ \A i \in 0..Epochs - 1 : i < ElectionOf(h) => t.Pubkeys[i] = s.Pubkeys[i]
<1> DEFINE keys == [i \in 0..Epochs - 1 |-> IF i >= ElectionOf(h) /\ h >= s.ratified
                                            THEN pubkeys ELSE s.Pubkeys[i]]
           newest == IF h > s.ratified THEN h ELSE s.ratified
<1>0. s.Pubkeys \in [0..Epochs - 1 -> Notaries] /\ s.ratified \in Nat /\ Epochs \in Nat
  BY KomodoAssumption DEF State
<1>1. keys \in [0..Epochs - 1 -> Notaries]
  BY <1>0
<1>2. newest \in Nat
  BY <1>0
<1>3. NotarysInit(s, h, pubkeys) = [s EXCEPT !.Pubkeys = keys, !.ratified = newest]
  BY DEF NotarysInit
<1>4. \A i \in 0..Epochs - 1 : i < ElectionOf(h) => keys[i] = s.Pubkeys[i]
  <2> SUFFICES ASSUME NEW i \in 0..Epochs - 1, i < ElectionOf(h) PROVE keys[i] = s.Pubkeys[i]
    OBVIOUS
  <2>1. ~(i >= ElectionOf(h))
    BY <1>0, ElectionType
  <2> QED
    BY <2>1
<1> HIDE DEF keys, newest
<1>5. LET t == [s EXCEPT !.Pubkeys = keys, !.ratified = newest] IN
      /\ t \in State /\ t.events = s.events /\ t.NPOINTS = s.NPOINTS
      /\ t.NOTARIZED_HEIGHT = s.NOTARIZED_HEIGHT
      /\ t.NOTARIZED_HASH = s.NOTARIZED_HASH /\ t.MoM = s.MoM
      /\ t.SAVEDHEIGHT = s.SAVEDHEIGHT /\ t.Pubkeys = keys
  BY <1>1, <1>2 DEF State
<1> QED
  BY <1>3, <1>4, <1>5

(* What a rewind to height h keeps of a list of events, and the SAVEDHEIGHTs *)
(* it takes back.                                                            *)
Keeps(events, h) == Max({0} \cup {i \in 1..Len(events) : events[i].height < h})
Undoes(events, h) ==
  {events[i].height : i \in {j \in Keeps(events, h)+1..Len(events) : events[j].type = "kmdheight"}}

(* The kept events end with the last one below the height. *)
LEMMA KeepsFacts ==
  ASSUME NEW events \in Seq(Event), NEW h \in Nat
  PROVE  /\ Keeps(events, h) \in 0..Len(events)
         /\ Keeps(events, h) # 0 => events[Keeps(events, h)].height < h
         /\ \A i \in 1..Len(events) : events[i].height < h => i =< Keeps(events, h)
         /\ Undoes(events, h) \subseteq Nat
<1> DEFINE S == {0} \cup {i \in 1..Len(events) : events[i].height < h}
<1>0. Len(events) \in Nat /\ \A i \in 1..Len(events) : events[i].height \in Nat
  <2>1. Len(events) \in Nat /\ \A i \in 1..Len(events) : events[i] \in Event
    OBVIOUS
  <2> QED
    BY <2>1 DEF Event
<1>1. S \in SUBSET Nat /\ S # {} /\ \A x \in S : x =< Len(events)
  BY <1>0
<1>2. Max(S) \in S /\ \A x \in S : x =< Max(S)
  <2> HIDE DEF S
  <2> QED
    BY <1>0, <1>1, MaxExists
<1>3. Keeps(events, h) = Max(S)
  BY DEF Keeps
<1>4. /\ Keeps(events, h) \in 0..Len(events)
      /\ Keeps(events, h) # 0 => events[Keeps(events, h)].height < h
      /\ \A i \in 1..Len(events) : events[i].height < h => i =< Keeps(events, h)
  BY <1>0, <1>2, <1>3
<1>5. Undoes(events, h) \subseteq Nat
  BY <1>0, <1>4 DEF Undoes
<1> QED
  BY <1>4, <1>5

(* A rewind. *)
LEMMA RewindFacts ==
  ASSUME NEW s \in State, NEW h \in Nat
  PROVE  LET t == EventRewind(s, h) IN
         /\ t \in State /\ t.NPOINTS = s.NPOINTS /\ t.NOTARIZED_HEIGHT = s.NOTARIZED_HEIGHT
         /\ t.NOTARIZED_HASH = s.NOTARIZED_HASH /\ t.MoM = s.MoM
         /\ t.Pubkeys = s.Pubkeys /\ t.ratified = s.ratified
         /\ t.events = SubSeq(s.events, 1, Keeps(s.events, h))
         /\ t.SAVEDHEIGHT = Min({s.SAVEDHEIGHT} \cup Undoes(s.events, h))
<1> DEFINE keep == Keeps(s.events, h)
           saved == Min({s.SAVEDHEIGHT} \cup Undoes(s.events, h))
           kept == SubSeq(s.events, 1, keep)
<1>0. s.events \in Seq(Event) /\ s.SAVEDHEIGHT \in Nat
  BY DEF State
<1>1. keep \in 0..Len(s.events) /\ Undoes(s.events, h) \subseteq Nat
  BY <1>0, KeepsFacts
<1>2. EventRewind(s, h) = [s EXCEPT !.events = kept, !.SAVEDHEIGHT = saved]
  BY DEF EventRewind, Keeps, Undoes
<1> HIDE DEF keep
<1>3. kept \in Seq(Event)
  BY <1>0, <1>1
<1>4. saved \in Nat
  <2> DEFINE T == {s.SAVEDHEIGHT} \cup Undoes(s.events, h)
  <2>1. T \in SUBSET Nat /\ T # {}
    BY <1>0, <1>1
  <2> HIDE DEF T
  <2>2. Min(T) \in T
    BY <2>1, MinExists
  <2> QED
    BY <2>1, <2>2 DEF T
<1> HIDE DEF kept, saved
<1>5. LET t == [s EXCEPT !.events = kept, !.SAVEDHEIGHT = saved] IN
      /\ t \in State /\ t.NPOINTS = s.NPOINTS /\ t.NOTARIZED_HEIGHT = s.NOTARIZED_HEIGHT
      /\ t.NOTARIZED_HASH = s.NOTARIZED_HASH /\ t.MoM = s.MoM
      /\ t.Pubkeys = s.Pubkeys /\ t.ratified = s.ratified
      /\ t.events = kept /\ t.SAVEDHEIGHT = saved
  BY <1>3, <1>4 DEF State
<1> QED
  BY <1>2, <1>5 DEF keep, kept, saved

(* Rewinding to a height forgets an event of that height that has just     *)
(* been added: komodo_eventadd_kmdheight pops the rewind it has added.     *)
LEMMA RewindForgets ==
  ASSUME NEW s \in State, NEW h \in Nat
  PROVE  EventRewind(EventAdd(s, "rewind", h), h) = EventRewind(s, h)
<1> DEFINE t == EventAdd(s, "rewind", h)
           e == [type |-> "rewind", height |-> h]
           old == s.events
           new == Append(old, e)
<1>0. old \in Seq(Event) /\ e \in Event
  BY DEF State, Event
<1>1. /\ t \in State /\ t.events = new /\ t.NPOINTS = s.NPOINTS
      /\ t.NOTARIZED_HEIGHT = s.NOTARIZED_HEIGHT
      /\ t.NOTARIZED_HASH = s.NOTARIZED_HASH /\ t.MoM = s.MoM
      /\ t.SAVEDHEIGHT = s.SAVEDHEIGHT /\ t.Pubkeys = s.Pubkeys /\ t.ratified = s.ratified
  BY EventAddFacts
<1>2. /\ new \in Seq(Event) /\ Len(new) = Len(old) + 1 /\ Len(old) \in Nat
      /\ new[Len(old) + 1] = e /\ \A i \in 1..Len(old) : new[i] = old[i]
  BY <1>0
<1>3. e.height = h /\ e.type = "rewind" /\ ~(h < h)
  OBVIOUS
<1> HIDE DEF t, e, old, new
<1>4. {i \in 1..Len(new) : new[i].height < h} = {i \in 1..Len(old) : old[i].height < h}
  BY <1>2, <1>3
<1>5. Keeps(new, h) = Keeps(old, h)
  BY <1>4 DEF Keeps
<1>6. Keeps(old, h) \in 0..Len(old)
  BY <1>0, KeepsFacts
<1>7. Undoes(new, h) = Undoes(old, h)
  <2> DEFINE k == Keeps(old, h)
             A == {j \in k+1..Len(new) : new[j].type = "kmdheight"}
             B == {j \in k+1..Len(old) : old[j].type = "kmdheight"}
  <2> HIDE DEF k
  <2>1. k \in 0..Len(old)
    BY <1>6 DEF k
  <2>2. A = B /\ \A i \in A : new[i].height = old[i].height
    BY <1>2, <1>3, <2>1
  <2>3. Undoes(new, h) = {new[i].height : i \in A} /\ Undoes(old, h) = {old[i].height : i \in B}
    BY <1>5 DEF Undoes, k
  <2> HIDE DEF A, B
  <2> QED
    BY <2>2, <2>3
<1>8. SubSeq(new, 1, Keeps(old, h)) = SubSeq(old, 1, Keeps(old, h))
  BY <1>0, <1>2, <1>6
<1> DEFINE a == EventRewind(t, h)
           b == EventRewind(s, h)
<1>9. /\ a \in State /\ a.NPOINTS = t.NPOINTS /\ a.NOTARIZED_HEIGHT = t.NOTARIZED_HEIGHT
      /\ a.NOTARIZED_HASH = t.NOTARIZED_HASH /\ a.MoM = t.MoM
      /\ a.Pubkeys = t.Pubkeys /\ a.ratified = t.ratified
      /\ a.events = SubSeq(new, 1, Keeps(new, h))
      /\ a.SAVEDHEIGHT = Min({t.SAVEDHEIGHT} \cup Undoes(new, h))
  BY <1>1, RewindFacts
<1>10. /\ b \in State /\ b.NPOINTS = s.NPOINTS /\ b.NOTARIZED_HEIGHT = s.NOTARIZED_HEIGHT
       /\ b.NOTARIZED_HASH = s.NOTARIZED_HASH /\ b.MoM = s.MoM
       /\ b.Pubkeys = s.Pubkeys /\ b.ratified = s.ratified
       /\ b.events = SubSeq(old, 1, Keeps(old, h))
       /\ b.SAVEDHEIGHT = Min({s.SAVEDHEIGHT} \cup Undoes(old, h))
  BY RewindFacts DEF old
<1> HIDE DEF a, b
<1>11. /\ a.events = b.events /\ a.NPOINTS = b.NPOINTS
       /\ a.NOTARIZED_HEIGHT = b.NOTARIZED_HEIGHT /\ a.NOTARIZED_HASH = b.NOTARIZED_HASH
       /\ a.MoM = b.MoM /\ a.SAVEDHEIGHT = b.SAVEDHEIGHT
       /\ a.Pubkeys = b.Pubkeys /\ a.ratified = b.ratified
  BY <1>1, <1>5, <1>7, <1>8, <1>9, <1>10, Zenon
<1>12. a = b
  BY <1>9, <1>10, <1>11, StateEqual
<1> QED
  BY <1>12 DEF a, b, t

(* Rewinding twice is rewinding once. *)
LEMMA RewindTwice ==
  ASSUME NEW s \in State, NEW h \in Nat
  PROVE  EventRewind(EventRewind(s, h), h) = EventRewind(s, h)
<1> DEFINE t == EventRewind(s, h)
           old == s.events
           k == Keeps(old, h)
           new == SubSeq(old, 1, k)
<1>0. old \in Seq(Event) /\ s.SAVEDHEIGHT \in Nat
  BY DEF State
<1>1. /\ t \in State /\ t.events = new /\ t.SAVEDHEIGHT \in Nat
  BY RewindFacts DEF State
<1>2. /\ k \in 0..Len(old) /\ (k # 0 => old[k].height < h)
  BY <1>0, KeepsFacts
<1> HIDE DEF k
<1>3. /\ new \in Seq(Event) /\ Len(new) = k /\ Len(old) \in Nat
      /\ \A i \in 1..k : new[i] = old[i]
  BY <1>0, <1>2
<1> HIDE DEF t, new, old
<1>4. Keeps(new, h) = k
  <2>1. /\ Keeps(new, h) \in 0..k
        /\ \A i \in 1..k : new[i].height < h => i =< Keeps(new, h)
    BY <1>3, KeepsFacts
  <2> QED
    BY <1>2, <1>3, <2>1
<1>5. SubSeq(new, 1, k) = new
  BY <1>2, <1>3
<1>6. Undoes(new, h) = {}
  BY <1>2, <1>3, <1>4 DEF Undoes
<1>7. Min({t.SAVEDHEIGHT} \cup {}) = t.SAVEDHEIGHT
  <2> DEFINE T == {t.SAVEDHEIGHT} \cup {}
  <2>1. T \in SUBSET Nat /\ T # {}
    BY <1>1
  <2> HIDE DEF T
  <2>2. Min(T) \in T
    BY <2>1, MinExists
  <2> QED
    BY <2>2 DEF T
<1> DEFINE a == EventRewind(t, h)
<1>8. /\ a \in State /\ a.NPOINTS = t.NPOINTS /\ a.NOTARIZED_HEIGHT = t.NOTARIZED_HEIGHT
      /\ a.NOTARIZED_HASH = t.NOTARIZED_HASH /\ a.MoM = t.MoM
      /\ a.Pubkeys = t.Pubkeys /\ a.ratified = t.ratified
      /\ a.events = SubSeq(t.events, 1, Keeps(t.events, h))
      /\ a.SAVEDHEIGHT = Min({t.SAVEDHEIGHT} \cup Undoes(t.events, h))
  BY <1>1, RewindFacts, Zenon
<1> HIDE DEF a
<1>9. a.events = t.events
  BY <1>1, <1>4, <1>5, <1>8, Zenon
<1>10. a.SAVEDHEIGHT = t.SAVEDHEIGHT
  BY <1>1, <1>6, <1>7, <1>8, Zenon
<1>11. a = t
  BY <1>1, <1>8, <1>9, <1>10, StateEqual
<1> QED
  BY <1>11 DEF a, t

(* A record of type 'T' with a positive height, and with another one. *)
LEMMA KmdHeightFacts ==
  ASSUME NEW s \in State, NEW h \in Nat, NEW k \in Int
  PROVE  LET t == EventAddKmdHeight(s, h, k) IN
         /\ t \in State /\ t.NPOINTS = s.NPOINTS /\ t.NOTARIZED_HEIGHT = s.NOTARIZED_HEIGHT
         /\ t.NOTARIZED_HASH = s.NOTARIZED_HASH /\ t.MoM = s.MoM
         /\ t.Pubkeys = s.Pubkeys /\ t.ratified = s.ratified
         /\ k > 0 => /\ t.events = Append(s.events, [type |-> "kmdheight", height |-> h])
                     /\ t.SAVEDHEIGHT = IF k > s.SAVEDHEIGHT THEN k ELSE s.SAVEDHEIGHT
         /\ ~(k > 0) => t = EventRewind(s, h)
<1>1. CASE k > 0
  <2> DEFINE a == EventAdd(s, "kmdheight", h)
             saved == IF k > a.SAVEDHEIGHT THEN k ELSE a.SAVEDHEIGHT
             same == IF k > s.SAVEDHEIGHT THEN k ELSE s.SAVEDHEIGHT
  <2>1. /\ a \in State /\ a.events = Append(s.events, [type |-> "kmdheight", height |-> h])
        /\ a.NPOINTS = s.NPOINTS /\ a.NOTARIZED_HEIGHT = s.NOTARIZED_HEIGHT
        /\ a.NOTARIZED_HASH = s.NOTARIZED_HASH /\ a.MoM = s.MoM
        /\ a.Pubkeys = s.Pubkeys /\ a.ratified = s.ratified /\ a.SAVEDHEIGHT = s.SAVEDHEIGHT
    BY EventAddFacts
  <2>2. EventAddKmdHeight(s, h, k) = [a EXCEPT !.SAVEDHEIGHT = saved]
    BY <1>1 DEF EventAddKmdHeight
  <2> HIDE DEF a
  <2>3. saved \in Nat /\ saved = same
    BY <1>1, <2>1 DEF State
  <2> HIDE DEF saved
  <2>4. LET t == [a EXCEPT !.SAVEDHEIGHT = saved] IN
        /\ t \in State /\ t.NPOINTS = a.NPOINTS /\ t.NOTARIZED_HEIGHT = a.NOTARIZED_HEIGHT
        /\ t.NOTARIZED_HASH = a.NOTARIZED_HASH /\ t.MoM = a.MoM
        /\ t.Pubkeys = a.Pubkeys /\ t.ratified = a.ratified /\ t.events = a.events
        /\ t.SAVEDHEIGHT = saved
    BY <2>1, <2>3 DEF State
  <2> QED
    BY <1>1, <2>1, <2>2, <2>3, <2>4
<1>2. CASE ~(k > 0)
  <2>1. EventAddKmdHeight(s, h, k) = EventRewind(s, h)
    BY <1>2, RewindForgets DEF EventAddKmdHeight
  <2> DEFINE t == EventRewind(s, h)
  <2>2. /\ t \in State /\ t.NPOINTS = s.NPOINTS /\ t.NOTARIZED_HEIGHT = s.NOTARIZED_HEIGHT
        /\ t.NOTARIZED_HASH = s.NOTARIZED_HASH /\ t.MoM = s.MoM
        /\ t.Pubkeys = s.Pubkeys /\ t.ratified = s.ratified
    BY RewindFacts, Zenon
  <2>3. EventAddKmdHeight(s, h, k) = t
    BY <2>1
  <2> HIDE DEF t
  <2> QED
    BY <1>2, <2>1, <2>2, <2>3, Zenon
<1> QED
  BY <1>1, <1>2

-----------------------------------------------------------------------------
(* Records *)

(* What a node does that writes a record, and what Parse does: the same,   *)
(* except for ratifications.                                               *)
ApplySp(s, r) ==
  CASE r.func = "T" -> EventAddKmdHeight(s, r.height, r.kmdheight)
    [] r.func = "P" -> EventAddPubkeys(s, r.height, r.pubkeys)
    [] r.func = "R" -> EventAdd(s, "opreturn", r.height)
    [] r.func = "M" -> EventAddNotarized(s, r.height,
                         [height |-> r.notarized, hash |-> r.hash, MoM |-> r.MoM])
    [] r.func = "N" -> EventAddNotarized(s, r.height,
                         [height |-> r.notarized, hash |-> r.hash, MoM |-> 0])

ParseSp(s, r) == IF r.func = "P" THEN s ELSE ApplySp(s, r)

ParseKv(store, r) == IF r.func = "R" THEN KvUpdate(store, r.update) ELSE store

(* The fields of a record. *)
LEMMA RecordFacts ==
  ASSUME NEW r \in Record
  PROVE  /\ r.func \in {"T", "P", "R", "M", "N"} /\ r.height \in Nat
         /\ r.func = "T" => r.kmdheight \in Int
         /\ r.func = "P" => r.pubkeys \in Notaries
         /\ r.func = "R" => r.update \in Update
         /\ r.func = "M" => r.notarized \in Nat /\ r.hash \in Hash /\ r.MoM \in Root
         /\ r.func = "N" => r.notarized \in Nat /\ r.hash \in Hash
BY DEF Record

(* The key of an update is one of the keys. *)
LEMMA UpdateFacts ==
  ASSUME NEW u \in Update
  PROVE  u.key \in Keys
<1>1. PICK out \in Says("kv") : u = out.update
  BY DEF Update
<1>2. PICK b \in Blocks : \E i \in 1..Len(Outputs[b]) : out = Outputs[b][i]
  BY <1>1 DEF Says
<1>3. PICK i \in 1..Len(Outputs[b]) : out = Outputs[b][i]
  BY <1>2
<1>4. out.type = "kv"
  BY <1>1 DEF Says
<1>5. \/ out.type = "kv" /\ out.update.key \in Keys
      \/ out.type = "ratify"
      \/ out.type = "notarise" /\ out.notarized \in Nat
  BY <1>2, <1>3, KomodoAssumption
<1> QED
  BY <1>1, <1>4, <1>5

(* Parse is its two halves. *)
LEMMA ParseIs ==
  ASSUME NEW st \in [sp : State, kv : KvStore], NEW r \in Record
  PROVE  Parse(st, r) = [sp |-> ParseSp(st.sp, r), kv |-> ParseKv(st.kv, r)]
<1>1. \A x : [st EXCEPT !.sp = x] = [sp |-> x, kv |-> st.kv]
  OBVIOUS
<1>2. ASSUME NEW x, NEW y
      PROVE  [st EXCEPT !.sp = x, !.kv = y] = [sp |-> x, kv |-> y]
  <2> DEFINE t == [st EXCEPT !.sp = x, !.kv = y]
  <2>1. t \in [sp : {x}, kv : {y}]
    OBVIOUS
  <2> HIDE DEF t
  <2>2. t = [sp |-> x, kv |-> y]
    BY <2>1
  <2> QED
    BY <2>2 DEF t
<1>3. CASE r.func = "T"
  <2>1. Parse(st, r) = [st EXCEPT !.sp = EventAddKmdHeight(st.sp, r.height, r.kmdheight)]
    BY <1>3 DEF Parse
  <2> QED
    BY <1>1, <1>3, <2>1 DEF ApplySp, ParseSp, ParseKv
<1>4. CASE r.func = "P"
  <2>1. Parse(st, r) = st
    BY <1>4 DEF Parse
  <2> QED
    BY <1>4, <2>1 DEF ParseSp, ParseKv
<1>5. CASE r.func = "R"
  <2>1. Parse(st, r) = [st EXCEPT !.sp = EventAdd(st.sp, "opreturn", r.height),
                                  !.kv = KvUpdate(st.kv, r.update)]
    BY <1>5 DEF Parse
  <2> QED
    BY <1>2, <1>5, <2>1 DEF ApplySp, ParseSp, ParseKv
<1>6. CASE r.func = "M"
  <2>1. Parse(st, r) = [st EXCEPT !.sp = EventAddNotarized(st.sp, r.height,
                          [height |-> r.notarized, hash |-> r.hash, MoM |-> r.MoM])]
    BY <1>6 DEF Parse
  <2> QED
    BY <1>1, <1>6, <2>1 DEF ApplySp, ParseSp, ParseKv
<1>7. CASE r.func = "N"
  <2>1. Parse(st, r) = [st EXCEPT !.sp = EventAddNotarized(st.sp, r.height,
                          [height |-> r.notarized, hash |-> r.hash, MoM |-> 0])]
    BY <1>7 DEF Parse
  <2> QED
    BY <1>1, <1>7, <2>1 DEF ApplySp, ParseSp, ParseKv
<1> QED
  BY <1>3, <1>4, <1>5, <1>6, <1>7, RecordFacts

(* Applying a record gives a state, and so does parsing it. *)
LEMMA ApplySpType ==
  ASSUME NEW s \in State, NEW r \in Record
  PROVE  ApplySp(s, r) \in State /\ ParseSp(s, r) \in State
<1> SUFFICES ApplySp(s, r) \in State
  BY DEF ParseSp
<1>1. CASE r.func = "T"
  BY <1>1, RecordFacts, KmdHeightFacts DEF ApplySp
<1>2. CASE r.func = "P"
  <2>1. EventAdd(s, "ratify", r.height) \in State
    BY RecordFacts, EventAddFacts
  <2> QED
    BY <1>2, <2>1, RecordFacts, NotarysInitFacts DEF ApplySp, EventAddPubkeys
<1>3. CASE r.func = "R"
  BY <1>3, RecordFacts, EventAddFacts DEF ApplySp
<1>4. CASE r.func \in {"M", "N"}
  <2> DEFINE a == EventAdd(s, "notarized", r.height)
             n(m) == [height |-> r.notarized, hash |-> r.hash, MoM |-> m]
  <2>1. a \in State /\ r.height \in Nat
    BY RecordFacts, EventAddFacts
  <2>2. \A m \in Root : n(m).height \in Nat /\ n(m).hash \in Hash /\ n(m).MoM \in Root
    BY <1>4, RecordFacts
  <2> HIDE DEF a, n
  <2>3. \A m \in Root : NotarizedUpdate(a, r.height, n(m)) \in State
    BY <2>1, <2>2, NotarizedUpdateFacts
  <2>4. r.func = "M" => ApplySp(s, r) = NotarizedUpdate(a, r.height, n(r.MoM)) /\ r.MoM \in Root
    BY RecordFacts DEF ApplySp, EventAddNotarized, a, n
  <2>5. r.func = "N" => ApplySp(s, r) = NotarizedUpdate(a, r.height, n(0)) /\ 0 \in Root
    BY DEF ApplySp, EventAddNotarized, a, n, Root
  <2> QED
    BY <1>4, <2>3, <2>4, <2>5
<1> QED
  BY <1>1, <1>2, <1>3, <1>4, RecordFacts

(* An update touches the entry of its key only.  A key without an owner    *)
(* gets the same entry, whatever entry it had.                             *)
LEMMA KvUpdateFacts ==
  ASSUME NEW store \in KvStore, NEW u \in Update
  PROVE  /\ KvUpdate(store, u) \in KvStore
         /\ \A k \in Keys : k # u.key => KvUpdate(store, u)[k] = store[k]
         /\ ~u.ok => KvUpdate(store, u) = store
         /\ /\ u.ok /\ u.pubkey = None /\ u.transfer = None
            /\ store[u.key] = None \/ store[u.key].pubkey = None
            => KvUpdate(store, u)[u.key] = [value |-> u.value, pubkey |-> None,
                                            height |-> u.height, flags |-> NoFlags]
<1> DEFINE key == u.key
           alive == KvSearch(store, key, u.height)
           old == alive[key]
           new == [value |-> u.value, pubkey |-> u.pubkey, height |-> u.height, flags |-> NoFlags]
           owner == IF u.transfer # None THEN u.transfer ELSE u.pubkey
           changed == [value |-> IF old.flags.protected THEN old.value ELSE u.value,
                       pubkey |-> owner, height |-> u.height, flags |-> old.flags]
<1>0. key \in Keys
  BY UpdateFacts
<1>1. /\ alive \in KvStore /\ \A k \in Keys : k # key => alive[k] = store[k]
      /\ alive[key] = None \/ alive[key] = store[key]
  BY <1>0 DEF KvSearch, KvStore
<1>2. KvUpdate(store, u) =
        IF ~u.ok THEN store
        ELSE IF old = None THEN [alive EXCEPT ![key] = new]
        ELSE IF old.pubkey # None /\ u.sig # old.pubkey THEN alive
        ELSE [alive EXCEPT ![key] = changed]
  BY DEF KvUpdate
<1>3. ~NoFlags.protected
  BY DEF NoFlags
<1>4. new \in KvEntry
  BY DEF KvEntry
<1> HIDE DEF alive, key
<1>5. old # None => old \in KvEntry
  BY <1>0, <1>1 DEF KvStore
<1>6. old # None => /\ old.flags = NoFlags /\ changed.value = u.value /\ changed.pubkey = owner
                    /\ changed.height = u.height /\ changed.flags = NoFlags
  BY <1>3, <1>5 DEF KvEntry
<1>7. old # None => changed = [value |-> u.value, pubkey |-> owner, height |-> u.height, flags |-> NoFlags]
  BY <1>6
<1>8. old # None => changed \in KvEntry
  <2>1. owner \in {v.pubkey : v \in Update} \cup {v.transfer : v \in Update}
    OBVIOUS
  <2> HIDE DEF owner, changed
  <2> QED
    BY <1>7, <2>1 DEF KvEntry
<1> HIDE DEF old, new, changed
<1>9. KvUpdate(store, u) \in KvStore
  BY <1>0, <1>1, <1>2, <1>4, <1>8 DEF KvStore
<1>10. \A k \in Keys : k # key => KvUpdate(store, u)[k] = store[k]
  BY <1>0, <1>1, <1>2 DEF KvStore
<1>11. ASSUME u.ok, u.pubkey = None, u.transfer = None,
              store[key] = None \/ store[key].pubkey = None
       PROVE  KvUpdate(store, u)[key] = [value |-> u.value, pubkey |-> None,
                                         height |-> u.height, flags |-> NoFlags]
  <2>1. old = None \/ old.pubkey = None
    BY <1>1, <1>11 DEF old
  <2>2. CASE old = None
    BY <1>0, <1>1, <1>2, <1>11, <2>2 DEF new, KvStore
  <2>3. CASE old # None
    <3>1. KvUpdate(store, u) = [alive EXCEPT ![key] = changed]
      BY <1>2, <1>11, <2>1, <2>3
    <3>2. owner = None
      BY <1>11
    <3> QED
      BY <1>0, <1>1, <1>7, <2>3, <3>1, <3>2 DEF KvStore
  <2> QED
    BY <2>2, <2>3
<1> QED
  BY <1>2, <1>9, <1>10, <1>11 DEF key

(* The keys that nobody owned in a longer file. *)
LEMMA NeverOwnedAppend ==
  ASSUME NEW records \in Seq(Record), NEW r \in Record, NEW k,
         NeverOwnedIn(Append(records, r), k)
  PROVE  /\ NeverOwnedIn(records, k)
         /\ r.func = "R" /\ r.update.key = k => r.update.pubkey = None /\ r.update.transfer = None
<1> DEFINE more == Append(records, r)
           n == Len(records)
<1>1. n \in Nat /\ Len(more) = n + 1 /\ more[n + 1] = r /\ \A i \in 1..n : more[i] = records[i]
  OBVIOUS
<1> HIDE DEF more
<1>2. \A i \in 1..n + 1 : more[i].func = "R" /\ more[i].update.key = k =>
        more[i].update.pubkey = None /\ more[i].update.transfer = None
  BY <1>1 DEF NeverOwnedIn, more
<1>3. NeverOwnedIn(records, k)
  BY <1>1, <1>2 DEF NeverOwnedIn
<1>4. n + 1 \in 1..n + 1
  BY <1>1
<1> QED
  BY <1>1, <1>2, <1>3, <1>4

(* A key nobody owned gets no owner. *)
LEMMA UnownedStep ==
  ASSUME NEW records \in Seq(Record), NEW r \in Record, NEW store \in KvStore,
         Unowned(records, store)
  PROVE  ParseKv(store, r) \in KvStore /\ Unowned(Append(records, r), ParseKv(store, r))
<1>1. CASE r.func # "R"
  BY <1>1, NeverOwnedAppend DEF ParseKv, Unowned
<1>2. CASE r.func = "R"
  <2> DEFINE u == r.update
             new == KvUpdate(store, u)
  <2>1. u \in Update /\ ParseKv(store, r) = new
    BY <1>2, RecordFacts DEF ParseKv
  <2>2. u.key \in Keys
    BY <2>1, UpdateFacts
  <2>3. /\ new \in KvStore
        /\ \A k \in Keys : k # u.key => new[k] = store[k]
        /\ ~u.ok => new = store
        /\ /\ u.ok /\ u.pubkey = None /\ u.transfer = None
           /\ store[u.key] = None \/ store[u.key].pubkey = None
           => new[u.key] = [value |-> u.value, pubkey |-> None,
                            height |-> u.height, flags |-> NoFlags]
    BY <2>1, KvUpdateFacts
  <2> HIDE DEF new
  <2>4. ASSUME NEW k \in Keys, NeverOwnedIn(Append(records, r), k)
        PROVE  new[k] = None \/ new[k].pubkey = None
    <3>1. /\ store[k] = None \/ store[k].pubkey = None
          /\ u.key = k => u.pubkey = None /\ u.transfer = None
      BY <1>2, <2>4, NeverOwnedAppend DEF Unowned
    <3>2. CASE k # u.key
      BY <2>3, <3>1, <3>2
    <3>3. CASE k = u.key
      BY <2>3, <3>1, <3>3
    <3> QED
      BY <3>2, <3>3
  <2> QED
    BY <2>1, <2>3, <2>4 DEF Unowned
<1> QED
  BY <1>1, <1>2

(* The running store and the replayed one go on agreeing. *)
LEMMA AgreeStep ==
  ASSUME NEW records \in Seq(Record), NEW r \in Record,
         NEW store \in KvStore, NEW replayed \in KvStore,
         Unowned(records, store), Unowned(records, replayed), Agree(records, store, replayed)
  PROVE  Agree(Append(records, r), ParseKv(store, r), ParseKv(replayed, r))
<1>1. CASE r.func # "R"
  BY <1>1, NeverOwnedAppend DEF ParseKv, Agree
<1>2. CASE r.func = "R"
  <2> DEFINE u == r.update
             a == KvUpdate(store, u)
             b == KvUpdate(replayed, u)
             entry == [value |-> u.value, pubkey |-> None, height |-> u.height, flags |-> NoFlags]
  <2>1. u \in Update /\ ParseKv(store, r) = a /\ ParseKv(replayed, r) = b
    BY <1>2, RecordFacts DEF ParseKv
  <2>2. u.key \in Keys
    BY <2>1, UpdateFacts
  <2>3. /\ \A k \in Keys : k # u.key => a[k] = store[k]
        /\ ~u.ok => a = store
        /\ /\ u.ok /\ u.pubkey = None /\ u.transfer = None
           /\ store[u.key] = None \/ store[u.key].pubkey = None
           => a[u.key] = entry
    BY <2>1, KvUpdateFacts
  <2>4. /\ \A k \in Keys : k # u.key => b[k] = replayed[k]
        /\ ~u.ok => b = replayed
        /\ /\ u.ok /\ u.pubkey = None /\ u.transfer = None
           /\ replayed[u.key] = None \/ replayed[u.key].pubkey = None
           => b[u.key] = entry
    BY <2>1, KvUpdateFacts
  <2> HIDE DEF a, b, entry
  <2>5. ASSUME NEW k \in Keys, NeverOwnedIn(Append(records, r), k)
        PROVE  a[k] = None \/ a[k] = b[k]
    <3>1. /\ store[k] = None \/ store[k].pubkey = None
          /\ replayed[k] = None \/ replayed[k].pubkey = None
          /\ store[k] = None \/ store[k] = replayed[k]
          /\ u.key = k => u.pubkey = None /\ u.transfer = None
      BY <1>2, <2>5, NeverOwnedAppend DEF Unowned, Agree
    <3>2. CASE k # u.key
      BY <2>3, <2>4, <3>1, <3>2
    <3>3. CASE k = u.key /\ u.ok
      BY <2>3, <2>4, <3>1, <3>3
    <3>4. CASE k = u.key /\ ~u.ok
      BY <2>3, <2>4, <3>1, <3>4
    <3> QED
      BY <3>2, <3>3, <3>4
  <2> QED
    BY <2>1, <2>5 DEF Agree
<1> QED
  BY <1>1, <1>2

(* What a replay gives for any file. *)
LEMMA ReplayTypes ==
  ASSUME NEW records \in Seq(Record)
  PROVE  /\ Replay(records) \in [sp : State, kv : KvStore]
         /\ Unowned(records, Replay(records).kv)
<1> DEFINE Fine(rs) == /\ Replay(rs) \in [sp : State, kv : KvStore]
                       /\ Unowned(rs, Replay(rs).kv)
           Bad == {n \in Nat : \E rs \in Seq(Record) : Len(rs) = n /\ ~Fine(rs)}
<1>1. Bad = {}
  <2> SUFFICES ASSUME Bad # {} PROVE FALSE
    OBVIOUS
  <2>1. PICK n \in Bad : \A m \in Bad : n =< m
    <3> HIDE DEF Bad
    <3>1. Bad \in SUBSET Nat
      BY DEF Bad
    <3> QED
      BY <3>1, LeastNatural
  <2>2. PICK rs \in Seq(Record) : Len(rs) = n /\ ~Fine(rs)
    BY <2>1
  <2>3. CASE n = 0
    <3>1. rs = <<>>
      BY <2>2, <2>3
    <3>2. Replay(rs) = [sp |-> FreshState, kv |-> NoKv]
      BY <3>1, ReplayEmpty
    <3>3. \A k \in Keys : NoKv[k] = None
      BY DEF NoKv
    <3>4. Replay(rs) \in [sp : State, kv : KvStore]
      BY <3>2, FreshFacts
    <3>5. Replay(rs).kv = NoKv
      BY <3>2
    <3>6. Unowned(rs, Replay(rs).kv)
      BY <3>3, <3>5 DEF Unowned
    <3> QED
      BY <2>2, <3>4, <3>6
  <2>4. CASE n # 0
    <3> DEFINE front == SubSeq(rs, 1, n - 1)
               r == rs[n]
    <3>1. n \in Nat /\ n - 1 \in Nat
      BY <2>1, <2>4
    <3>2. front \in Seq(Record) /\ Len(front) = n - 1 /\ r \in Record
      BY <2>2, <2>4, <3>1
    <3>3. rs = Append(front, r)
      BY <2>2, <2>4, <3>1, <3>2
    <3>4. n - 1 \notin Bad
      BY <2>1, <3>1
    <3> HIDE DEF front, r
    <3>5. Fine(front)
      BY <3>1, <3>2, <3>4
    <3> DEFINE st == Replay(front)
    <3>6. Replay(rs) = Parse(st, r)
      BY <3>2, <3>3, ReplayAppend
    <3>7. st \in [sp : State, kv : KvStore] /\ st.sp \in State /\ st.kv \in KvStore
      BY <3>5
    <3> HIDE DEF st
    <3>8. Replay(rs) = [sp |-> ParseSp(st.sp, r), kv |-> ParseKv(st.kv, r)]
      BY <3>2, <3>6, <3>7, ParseIs
    <3>9. ParseSp(st.sp, r) \in State
      BY <3>2, <3>7, ApplySpType
    <3>10. ParseKv(st.kv, r) \in KvStore /\ Unowned(rs, ParseKv(st.kv, r))
      BY <3>2, <3>3, <3>5, <3>7, UnownedStep DEF st
    <3>11. Replay(rs) \in [sp : State, kv : KvStore] /\ Replay(rs).kv = ParseKv(st.kv, r)
      BY <3>8, <3>9, <3>10
    <3>12. Fine(rs)
      BY <3>10, <3>11
    <3> QED
      BY <2>2, <3>12
  <2> QED
    BY <2>3, <2>4
<1>2. Len(records) \in Nat /\ Len(records) \notin Bad
  BY <1>1
<1> QED
  BY <1>2

-----------------------------------------------------------------------------
(* Heights *)

(* A function has a bound on a finite set. *)
LEMMA FiniteIsBounded ==
  ASSUME NEW S, IsFiniteSet(S), NEW f, \A x \in S : f[x] \in Nat
  PROVE  \E bound \in Nat : \A x \in S : f[x] =< bound
<1> DEFINE Within(T) == \E bound \in Nat : \A x \in T : f[x] =< bound
           Bad == {n \in Nat : \E T \in SUBSET S : /\ IsFiniteSet(T) /\ Cardinality(T) = n
                                                     /\ ~Within(T)}
<1>1. Bad = {}
  <2> SUFFICES ASSUME Bad # {} PROVE FALSE
    OBVIOUS
  <2>1. PICK n \in Bad : \A m \in Bad : n =< m
    <3> HIDE DEF Bad
    <3>1. Bad \in SUBSET Nat
      BY DEF Bad
    <3> QED
      BY <3>1, LeastNatural
  <2>2. PICK T \in SUBSET S : IsFiniteSet(T) /\ Cardinality(T) = n /\ ~Within(T)
    BY <2>1
  <2>3. PICK x \in T : TRUE
    <3>1. T # {}
      BY <2>2
    <3> QED
      BY <3>1
  <2> DEFINE U == T \ {x}
  <2>4. IsFiniteSet(U) /\ Cardinality(U) = n - 1
    BY <2>2, <2>3, FS_RemoveElement
  <2>5. n \in Nat /\ n - 1 \in Nat /\ U \in SUBSET S
    <3>1. Cardinality(U) \in Nat
      BY <2>4, FS_CardinalityType
    <3> QED
      BY <2>1, <2>4, <3>1
  <2>6. n - 1 \notin Bad
    <3> HIDE DEF Bad
    <3> QED
      BY <2>1, <2>5
  <2> HIDE DEF U, Within
  <2>7. Within(U)
    BY <2>4, <2>5, <2>6
  <2>8. PICK bound \in Nat : \A y \in U : f[y] =< bound
    BY <2>7 DEF Within
  <2>9. \A y \in T : f[y] =< bound + f[x]
    BY <2>2, <2>3, <2>8 DEF U
  <2>10. bound + f[x] \in Nat
    BY <2>3
  <2>11. Within(T)
    BY <2>9, <2>10 DEF Within
  <2> QED
    BY <2>2, <2>11
<1>2. Cardinality(S) \in Nat /\ Cardinality(S) \notin Bad
  BY <1>1, FS_CardinalityType
<1> QED
  BY <1>2

(* The heights of blocks go up to MaxHeight. *)
LEMMA HeightFacts ==
  /\ MaxHeight \in Nat /\ 0 \in Heights /\ Height[Base] \in Nat
  /\ \A b \in Blocks : /\ Height[b] \in Heights /\ Height[b] \in Nat \ {0}
                       /\ Parent[b] \in Chain /\ Height[Parent[b]] \in Nat
                       /\ Height[b] = Height[Parent[b]] + 1
<1> DEFINE S == {Height[b] : b \in Blocks}
<1>1. \A b \in Chain : Height[b] \in Nat
  BY KomodoAssumption
<1>2. \A b \in Blocks : /\ Parent[b] \in Chain /\ Height[Parent[b]] \in Nat
                        /\ Height[b] = Height[Parent[b]] + 1 /\ Height[b] \in Nat \ {0}
  BY <1>1, KomodoAssumption DEF Chain
<1>3. S \in SUBSET Nat /\ S # {}
  BY <1>2, KomodoAssumption
<1>4. PICK bound \in Nat : \A b \in Blocks : Height[b] =< bound
  BY <1>2, KomodoAssumption, FiniteIsBounded
<1>5. Max(S) \in S /\ \A x \in S : x =< Max(S)
  <2>1. \A x \in S : x =< bound
    BY <1>4
  <2> HIDE DEF S
  <2> QED
    BY <1>3, <2>1, MaxExists
<1>6. MaxHeight = Max(S)
  BY DEF MaxHeight
<1>7. MaxHeight \in Nat /\ \A b \in Blocks : Height[b] =< MaxHeight
  <2> HIDE DEF MaxHeight
  <2> QED
    BY <1>3, <1>5, <1>6
<1> QED
  BY <1>1, <1>2, <1>7 DEF Heights, Chain

-----------------------------------------------------------------------------
(* Steps *)

(* A record that a node may write in state s, for a block at height h. *)
Legal(s, r, h) ==
  /\ r \in Record /\ r.height = h
  /\ r.func = "T" => r.kmdheight \in {h, -h}
  /\ r.func \in {"M", "N"} => s.NOTARIZED_HEIGHT < r.notarized /\ r.notarized < h

IsRewind(r) == r.func = "T" /\ r.kmdheight =< 0

(* Points are kept. *)
Grows(s, t) ==
  /\ Len(s.NPOINTS) =< Len(t.NPOINTS)
  /\ \A i \in 1..Len(s.NPOINTS) : t.NPOINTS[i] = s.NPOINTS[i]

(* Notaries are kept, but for the elections that a ratification at height  *)
(* h is about.                                                             *)
Fixed(s, t, h) ==
  \A i \in 0..Epochs - 1 : i < ElectionOf(h) => t.Pubkeys[i] = s.Pubkeys[i]

(* What a legal record does. *)
Effect(s, t, r, h) ==
  /\ t \in State
  /\ IsRewind(r) => /\ t.events = SubSeq(s.events, 1, Keeps(s.events, h))
                    /\ t.SAVEDHEIGHT = Min({s.SAVEDHEIGHT} \cup Undoes(s.events, h))
  /\ ~IsRewind(r) =>
       /\ \E e \in Event : /\ e.height = h /\ e.type # "rewind"
                           /\ e.type = "ratify" <=> r.func = "P"
                           /\ t.events = Append(s.events, e)
       /\ t.SAVEDHEIGHT \in {s.SAVEDHEIGHT, h}
  /\ \/ t.NPOINTS = s.NPOINTS /\ t.NOTARIZED_HEIGHT = s.NOTARIZED_HEIGHT
     \/ \E p \in Point : /\ t.NPOINTS = Append(s.NPOINTS, p)
                         /\ s.NOTARIZED_HEIGHT < p.notarized /\ p.notarized < h
                         /\ t.NOTARIZED_HEIGHT = p.notarized
  /\ Fixed(s, t, h)

(* Applying a legal record has that effect. *)
LEMMA ApplySpFacts ==
  ASSUME NEW s \in State, NEW h \in Nat \ {0}, NEW r, Legal(s, r, h)
  PROVE  Effect(s, ApplySp(s, r), r, h)
<1> DEFINE t == ApplySp(s, r)
           ev(type) == [type |-> type, height |-> h]
<1>0. r \in Record /\ r.height = h /\ r.func \in {"T", "P", "R", "M", "N"}
  BY RecordFacts DEF Legal
<1>1. t \in State
  BY <1>0, ApplySpType
<1>2. \A type \in {"notarized", "ratify", "kmdheight", "opreturn"} :
        /\ ev(type) \in Event /\ ev(type).height = h /\ ev(type).type # "rewind"
        /\ ev(type).type = type
  BY DEF Event
<1> HIDE DEF ev, t
<1> SUFFICES Effect(s, t, r, h)
  BY DEF t
<1>3. CASE r.func = "T"
  <2> DEFINE k == r.kmdheight
  <2>1. t = EventAddKmdHeight(s, h, k)
    BY <1>0, <1>3 DEF ApplySp, t
  <2>2. k \in Int /\ k \in {h, -h}
    BY <1>3 DEF Legal
  <2>3. IsRewind(r) <=> ~(k > 0)
    BY <1>3, <2>2 DEF IsRewind
  <2> HIDE DEF k
  <2>4. /\ t.NPOINTS = s.NPOINTS /\ t.NOTARIZED_HEIGHT = s.NOTARIZED_HEIGHT
        /\ t.Pubkeys = s.Pubkeys
        /\ k > 0 => /\ t.events = Append(s.events, ev("kmdheight"))
                    /\ t.SAVEDHEIGHT = IF k > s.SAVEDHEIGHT THEN k ELSE s.SAVEDHEIGHT
        /\ ~(k > 0) => t = EventRewind(s, h)
    BY <2>1, <2>2, KmdHeightFacts DEF ev
  <2>5. k > 0 => k = h
    BY <2>2
  <2>6. ~(k > 0) => /\ t.events = SubSeq(s.events, 1, Keeps(s.events, h))
                    /\ t.SAVEDHEIGHT = Min({s.SAVEDHEIGHT} \cup Undoes(s.events, h))
    BY <2>4, RewindFacts
  <2> QED
    BY <1>1, <1>2, <1>3, <2>3, <2>4, <2>5, <2>6 DEF Effect, Fixed
<1>4. CASE r.func = "P"
  <2> DEFINE a == EventAdd(s, "ratify", h)
  <2>1. t = NotarysInit(a, h, r.pubkeys) /\ r.pubkeys \in Notaries
    BY <1>0, <1>4, RecordFacts DEF ApplySp, EventAddPubkeys, t
  <2>2. /\ a \in State /\ a.events = Append(s.events, ev("ratify"))
        /\ a.NPOINTS = s.NPOINTS /\ a.NOTARIZED_HEIGHT = s.NOTARIZED_HEIGHT
        /\ a.SAVEDHEIGHT = s.SAVEDHEIGHT /\ a.Pubkeys = s.Pubkeys
    BY EventAddFacts DEF ev
  <2> HIDE DEF a
  <2>3. /\ t.events = a.events /\ t.NPOINTS = a.NPOINTS /\ t.NOTARIZED_HEIGHT = a.NOTARIZED_HEIGHT
        /\ t.SAVEDHEIGHT = a.SAVEDHEIGHT
        /\ \A i \in 0..Epochs - 1 : i < ElectionOf(h) => t.Pubkeys[i] = a.Pubkeys[i]
    BY <2>1, <2>2, NotarysInitFacts
  <2>4. ~IsRewind(r)
    BY <1>4 DEF IsRewind
  <2> QED
    BY <1>1, <1>2, <1>4, <2>2, <2>3, <2>4 DEF Effect, Fixed
<1>5. CASE r.func = "R"
  <2>1. t = EventAdd(s, "opreturn", h)
    BY <1>0, <1>5 DEF ApplySp, t
  <2>2. /\ t.events = Append(s.events, ev("opreturn"))
        /\ t.NPOINTS = s.NPOINTS /\ t.NOTARIZED_HEIGHT = s.NOTARIZED_HEIGHT
        /\ t.SAVEDHEIGHT = s.SAVEDHEIGHT /\ t.Pubkeys = s.Pubkeys
    BY <2>1, EventAddFacts DEF ev
  <2>3. ~IsRewind(r)
    BY <1>5 DEF IsRewind
  <2> QED
    BY <1>1, <1>2, <1>5, <2>2, <2>3 DEF Effect, Fixed
<1>6. CASE r.func \in {"M", "N"}
  <2> DEFINE a == EventAdd(s, "notarized", h)
             m == IF r.func = "M" THEN r.MoM ELSE 0
             n == [height |-> r.notarized, hash |-> r.hash, MoM |-> m]
             p == PointOf(h, n)
  <2>1. t = NotarizedUpdate(a, h, n)
    BY <1>0, <1>6 DEF ApplySp, EventAddNotarized, t
  <2>2. /\ a \in State /\ a.events = Append(s.events, ev("notarized"))
        /\ a.NPOINTS = s.NPOINTS /\ a.NOTARIZED_HEIGHT = s.NOTARIZED_HEIGHT
        /\ a.SAVEDHEIGHT = s.SAVEDHEIGHT /\ a.Pubkeys = s.Pubkeys
    BY EventAddFacts DEF ev
  <2>3. n.height \in Nat /\ n.hash \in Hash /\ n.MoM \in Root
    BY <1>0, <1>6, RecordFacts DEF Root
  <2>4. s.NOTARIZED_HEIGHT < n.height /\ n.height < h
    BY <1>6 DEF Legal
  <2>5. p \in Point /\ p.notarized = n.height
    BY <2>3 DEF Point, PointOf
  <2> HIDE DEF a, n
  <2>6. /\ t.events = a.events /\ t.SAVEDHEIGHT = a.SAVEDHEIGHT /\ t.Pubkeys = a.Pubkeys
        /\ t.NPOINTS = Append(a.NPOINTS, p) /\ t.NOTARIZED_HEIGHT = n.height
    <3>1. h \in Nat
      OBVIOUS
    <3>2. Notarised(a, t, h, n)
      BY <2>1, <2>2, <2>3, <2>4, <3>1, NotarizedUpdateIs
    <3> QED
      BY <3>2, Zenon DEF Notarised
  <2>7. ~IsRewind(r)
    BY <1>6 DEF IsRewind
  <2> HIDE DEF p
  <2> QED
    BY <1>1, <1>2, <1>6, <2>2, <2>4, <2>5, <2>6, <2>7 DEF Effect, Fixed
<1> QED
  BY <1>0, <1>3, <1>4, <1>5, <1>6

(* A legal record keeps notarised heights rising. *)
LEMMA LegalRises ==
  ASSUME NEW s \in State, NEW h \in Nat \ {0}, NEW r, Legal(s, r, h), Rising(s)
  PROVE  Rising(ApplySp(s, r)) /\ Grows(s, ApplySp(s, r))
<1> DEFINE t == ApplySp(s, r)
           old == s.NPOINTS
           new == t.NPOINTS
<1>1. /\ t \in State
      /\ \/ new = old /\ t.NOTARIZED_HEIGHT = s.NOTARIZED_HEIGHT
         \/ \E p \in Point : /\ new = Append(old, p)
                             /\ s.NOTARIZED_HEIGHT < p.notarized
                             /\ t.NOTARIZED_HEIGHT = p.notarized
  <2>1. Effect(s, t, r, h)
    BY ApplySpFacts
  <2> HIDE DEF t
  <2> QED
    BY <2>1, Zenon DEF Effect
<1>2. old \in Seq(Point) /\ s.NOTARIZED_HEIGHT \in Nat
  BY DEF State
<1>3. Len(old) \in Nat /\ \A i \in 1..Len(old) : old[i].notarized \in Nat
  <2>1. Len(old) \in Nat /\ \A i \in 1..Len(old) : old[i] \in Point
    BY <1>2
  <2> QED
    BY <2>1 DEF Point
<1>4. /\ \A i, j \in 1..Len(old) : i < j => old[i].notarized < old[j].notarized
      /\ s.NOTARIZED_HEIGHT = IF old = <<>> THEN 0 ELSE old[Len(old)].notarized
  BY DEF Rising, Last
<1> HIDE DEF t
<1>5. CASE new = old /\ t.NOTARIZED_HEIGHT = s.NOTARIZED_HEIGHT
  <2> HIDE DEF old, new
  <2>1. Rising(t)
    BY <1>4, <1>5 DEF Rising, Last, new
  <2>2. Grows(s, t)
    BY <1>1, <1>3, <1>5 DEF Grows, old, new
  <2> QED
    BY <2>1, <2>2 DEF t
<1>6. ASSUME NEW p \in Point, new = Append(old, p), s.NOTARIZED_HEIGHT < p.notarized,
             t.NOTARIZED_HEIGHT = p.notarized
      PROVE  Rising(t) /\ Grows(s, t)
  <2> DEFINE n == Len(old)
  <2>1. /\ n \in Nat /\ Len(new) = n + 1 /\ new[n + 1] = p /\ new # <<>>
        /\ \A i \in 1..n : new[i] = old[i]
    BY <1>2, <1>6
  <2>2. p.notarized \in Nat
    BY DEF Point
  <2>3. \A i \in 1..n : old[i].notarized =< s.NOTARIZED_HEIGHT
    <3> SUFFICES ASSUME NEW i \in 1..n PROVE old[i].notarized =< s.NOTARIZED_HEIGHT
      OBVIOUS
    <3>1. old # <<>> /\ n \in 1..n
      BY <1>2, <2>1
    <3>2. s.NOTARIZED_HEIGHT = old[n].notarized
      BY <1>4, <3>1
    <3>3. i = n \/ i < n
      BY <2>1
    <3> HIDE DEF old, n
    <3>4. old[i].notarized \in Nat /\ old[n].notarized \in Nat
      BY <1>3, <3>1 DEF n
    <3>5. i < n => old[i].notarized < old[n].notarized
      BY <1>4, <3>1 DEF n
    <3> QED
      BY <3>2, <3>3, <3>4, <3>5
  <2> HIDE DEF new
  <2>4. \A i, j \in 1..n + 1 : i < j => new[i].notarized < new[j].notarized
    <3> SUFFICES ASSUME NEW i \in 1..n + 1, NEW j \in 1..n + 1, i < j
                 PROVE  new[i].notarized < new[j].notarized
      OBVIOUS
    <3>1. i \in 1..n /\ new[i] = old[i] /\ old[i].notarized \in Nat
      BY <1>3, <2>1
    <3>2. CASE j = n + 1
      BY <1>2, <1>6, <2>1, <2>2, <2>3, <3>1, <3>2
    <3>3. CASE j # n + 1
      <4>1. j \in 1..n /\ new[j] = old[j]
        BY <2>1, <3>3
      <4> QED
        BY <1>4, <3>1, <4>1
    <3> QED
      BY <3>2, <3>3
  <2>5. Rising(t)
    BY <1>6, <2>1, <2>4 DEF Rising, Last, new
  <2>6. Grows(s, t)
    BY <1>1, <2>1 DEF Grows, new
  <2> QED
    BY <2>5, <2>6
<1> QED
  BY <1>1, <1>5, <1>6 DEF t

(* A legal record keeps heights within those of blocks. *)
LEMMA LegalBounded ==
  ASSUME NEW s \in State, NEW h \in Nat \ {0}, NEW r, Legal(s, r, h), h \in Heights, Bounded(s)
  PROVE  Bounded(ApplySp(s, r))
<1> DEFINE t == ApplySp(s, r)
           old == s.events
           Ok(e) == e.type # "rewind" /\ e.height \in Heights
<1>1. /\ t \in State
      /\ IsRewind(r) => /\ t.events = SubSeq(s.events, 1, Keeps(s.events, h))
                        /\ t.SAVEDHEIGHT = Min({s.SAVEDHEIGHT} \cup Undoes(s.events, h))
      /\ ~IsRewind(r) =>
           /\ \E e \in Event : /\ e.height = h /\ e.type # "rewind"
                               /\ t.events = Append(s.events, e)
           /\ t.SAVEDHEIGHT \in {s.SAVEDHEIGHT, h}
      /\ \/ t.NOTARIZED_HEIGHT = s.NOTARIZED_HEIGHT
         \/ \E p \in Point : p.notarized < h /\ t.NOTARIZED_HEIGHT = p.notarized
  <2>1. Effect(s, t, r, h)
    BY ApplySpFacts
  <2> HIDE DEF t
  <2> QED
    BY <2>1, Zenon DEF Effect
<1> HIDE DEF t
<1>2. old \in Seq(Event) /\ Len(old) \in Nat /\ \A i \in 1..Len(old) : Ok(old[i])
  BY DEF State, Bounded
<1>3. s.NOTARIZED_HEIGHT \in Heights /\ s.SAVEDHEIGHT \in Heights
  BY DEF Bounded
<1>4. MaxHeight \in Nat /\ Heights = 0..MaxHeight
  BY HeightFacts DEF Heights
<1>5. t.NOTARIZED_HEIGHT \in Heights
  <2>1. \A p \in Point : p.notarized \in Nat
    BY DEF Point
  <2> QED
    BY <1>1, <1>3, <1>4, <2>1
<1> HIDE DEF Ok
<1>6. CASE IsRewind(r)
  <2> DEFINE k == Keeps(old, h)
             U == Undoes(old, h)
             S == {s.SAVEDHEIGHT} \cup U
  <2>1. k \in 0..Len(old)
    BY <1>2, KeepsFacts
  <2>2. U \subseteq Heights
    BY <1>2, <2>1 DEF Undoes, Ok
  <2>3. S \in SUBSET Nat /\ S # {} /\ S \subseteq Heights
    BY <1>3, <1>4, <2>2
  <2>4. t.SAVEDHEIGHT \in Heights
    <3>1. t.SAVEDHEIGHT = Min(S)
      BY <1>1, <1>6
    <3> HIDE DEF S
    <3> QED
      BY <2>3, <3>1, MinExists
  <2>5. Len(t.events) = k /\ \A i \in 1..k : t.events[i] = old[i]
    <3>1. t.events = SubSeq(old, 1, k)
      BY <1>1, <1>6
    <3> HIDE DEF k, old
    <3> QED
      BY <1>2, <2>1, <3>1
  <2> QED
    BY <1>2, <1>5, <2>1, <2>4, <2>5 DEF Bounded, t, Ok
<1>7. CASE ~IsRewind(r)
  <2>1. PICK e \in Event : /\ e.height = h /\ e.type # "rewind"
                           /\ t.events = Append(old, e)
    BY <1>1, <1>7
  <2>2. t.SAVEDHEIGHT \in Heights
    BY <1>1, <1>3, <1>7
  <2>3. Ok(e)
    BY <2>1 DEF Ok
  <2>4. \A i \in 1..Len(t.events) : Ok(t.events[i])
    <3>1. /\ Len(t.events) = Len(old) + 1 /\ t.events[Len(old) + 1] = e
          /\ \A i \in 1..Len(old) : t.events[i] = old[i]
      BY <1>2, <2>1
    <3> QED
      BY <1>2, <2>3, <3>1
  <2> QED
    BY <1>5, <2>2, <2>4 DEF Bounded, t, Ok
<1> QED
  BY <1>6, <1>7

(* Growth is transitive. *)
LEMMA GrowsTransitive ==
  ASSUME NEW s \in State, NEW t \in State, NEW u \in State, Grows(s, t), Grows(t, u)
  PROVE  Grows(s, u)
<1>1. Len(s.NPOINTS) \in Nat /\ Len(t.NPOINTS) \in Nat /\ Len(u.NPOINTS) \in Nat
  <2>1. s.NPOINTS \in Seq(Point) /\ t.NPOINTS \in Seq(Point) /\ u.NPOINTS \in Seq(Point)
    BY DEF State
  <2> QED
    BY <2>1
<1> QED
  BY <1>1 DEF Grows

(* Nothing that stays the same shrinks. *)
LEMMA GrowsReflexive ==
  ASSUME NEW s \in State
  PROVE  Grows(s, s)
<1>1. Len(s.NPOINTS) \in Nat
  <2>1. s.NPOINTS \in Seq(Point)
    BY DEF State
  <2> QED
    BY <2>1
<1> QED
  BY <1>1 DEF Grows

-----------------------------------------------------------------------------
(* Writing is applying *)

(* What komodo_connectblock works on. *)
Store == [sp : State, kv : KvStore, file : Seq(Record)]

(* Store t is st after record r has been written and applied. *)
Applies(st, t, r) ==
  /\ t \in Store
  /\ t.sp = ApplySp(st.sp, r) /\ t.kv = ParseKv(st.kv, r)
  /\ t.file = Append(st.file, r)

(* A record that changes the state only. *)
LEMMA AppliesSp ==
  ASSUME NEW st \in Store, NEW r \in Record, r.func # "R", NEW x, x = ApplySp(st.sp, r)
  PROVE  Applies(st, Append_([st EXCEPT !.sp = x], r), r)
<1> DEFINE t == Append_([st EXCEPT !.sp = x], r)
           more == Append(st.file, r)
<1>1. st.sp \in State /\ st.kv \in KvStore /\ st.file \in Seq(Record)
  BY DEF Store
<1>2. x \in State
  BY <1>1, ApplySpType
<1>3. more \in Seq(Record)
  BY <1>1
<1>4. t = [[st EXCEPT !.sp = x] EXCEPT !.file = more]
  BY DEF Append_, Store
<1> HIDE DEF more
<1>5. LET u == [[st EXCEPT !.sp = x] EXCEPT !.file = more] IN
      u \in Store /\ u.sp = x /\ u.kv = st.kv /\ u.file = more
  BY <1>2, <1>3 DEF Store
<1> HIDE DEF t
<1>6. t \in Store /\ t.sp = x /\ t.kv = st.kv /\ t.file = more
  BY <1>4, <1>5
<1> QED
  BY <1>6 DEF Applies, ParseKv, t, more

(* The rewind that komodo_connectblock starts a reorganised height with:    *)
(* applied twice, written once.                                             *)
LEMMA WriteRewindFacts ==
  ASSUME NEW st \in Store, NEW h \in Nat \ {0}
  PROVE  \E r : Legal(st.sp, r, h) /\ IsRewind(r) /\ Applies(st, WriteRewind(st, h), r)
<1> DEFINE r == [func |-> "T", height |-> h, kmdheight |-> -h]
           x == EventAddKmdHeight(EventRewind(st.sp, h), h, -h)
<1>0. st.sp \in State /\ h \in Nat /\ -h \in Int /\ ~(-h > 0)
  BY DEF Store
<1>1. r \in Record /\ r.func = "T" /\ r.height = h /\ r.kmdheight = -h
  BY DEF Record
<1>2. Legal(st.sp, r, h) /\ IsRewind(r)
  BY <1>1 DEF Legal, IsRewind
<1>3. WriteRewind(st, h) = Append_([st EXCEPT !.sp = x], r)
  BY DEF WriteRewind
<1> HIDE DEF r
<1>4. x = EventRewind(st.sp, h)
  <2>1. EventRewind(st.sp, h) \in State
    BY <1>0, RewindFacts
  <2>2. x = EventRewind(EventRewind(st.sp, h), h)
    BY <1>0, <2>1, KmdHeightFacts
  <2> QED
    BY <1>0, <2>2, RewindTwice
<1>5. ApplySp(st.sp, r) = EventRewind(st.sp, h)
  <2>1. ApplySp(st.sp, r) = EventAddKmdHeight(st.sp, h, -h)
    BY <1>1 DEF ApplySp
  <2> QED
    BY <1>0, <2>1, KmdHeightFacts
<1> HIDE DEF x
<1>6. Applies(st, Append_([st EXCEPT !.sp = x], r), r)
  BY <1>1, <1>4, <1>5, AppliesSp
<1> QED
  BY <1>2, <1>3, <1>6

(* The record of the height that komodo_connectblock ends with. *)
LEMMA WriteKmdHeightFacts ==
  ASSUME NEW st \in Store, NEW h \in Nat \ {0}
  PROVE  \E r : /\ Legal(st.sp, r, h) /\ ~IsRewind(r) /\ r.func = "T"
                /\ Applies(st, WriteKmdHeight(st, h), r)
<1> DEFINE r == [func |-> "T", height |-> h, kmdheight |-> h]
           x == EventAddKmdHeight(st.sp, h, h)
<1>1. r \in Record /\ r.func = "T" /\ r.height = h /\ r.kmdheight = h
  BY DEF Record
<1>2. Legal(st.sp, r, h) /\ ~IsRewind(r)
  BY <1>1 DEF Legal, IsRewind
<1>3. WriteKmdHeight(st, h) = Append_([st EXCEPT !.sp = x], r)
  BY DEF WriteKmdHeight
<1> HIDE DEF r
<1>4. x = ApplySp(st.sp, r)
  BY <1>1 DEF ApplySp
<1> HIDE DEF x
<1>5. Applies(st, Append_([st EXCEPT !.sp = x], r), r)
  BY <1>1, <1>4, AppliesSp
<1> QED
  BY <1>1, <1>2, <1>3, <1>5

(* A ratification. *)
LEMMA WritePubkeysFacts ==
  ASSUME NEW st \in Store, NEW h \in Nat \ {0}, NEW pubkeys \in Notaries
  PROVE  \E r : Legal(st.sp, r, h) /\ ~IsRewind(r) /\ Applies(st, WritePubkeys(st, h, pubkeys), r)
<1> DEFINE r == [func |-> "P", height |-> h, pubkeys |-> pubkeys]
           x == EventAddPubkeys(st.sp, h, pubkeys)
<1>1. r \in Record /\ r.func = "P" /\ r.height = h /\ r.pubkeys = pubkeys
  BY DEF Record
<1>2. Legal(st.sp, r, h) /\ ~IsRewind(r)
  BY <1>1 DEF Legal, IsRewind
<1>3. WritePubkeys(st, h, pubkeys) = Append_([st EXCEPT !.sp = x], r)
  BY DEF WritePubkeys
<1> HIDE DEF r
<1>4. x = ApplySp(st.sp, r)
  BY <1>1 DEF ApplySp
<1> HIDE DEF x
<1>5. Applies(st, Append_([st EXCEPT !.sp = x], r), r)
  BY <1>1, <1>4, AppliesSp
<1> QED
  BY <1>2, <1>3, <1>5

(* An update of the key-value store. *)
LEMMA WriteOpreturnFacts ==
  ASSUME NEW st \in Store, NEW h \in Nat \ {0}, NEW update \in Update
  PROVE  \E r : /\ Legal(st.sp, r, h) /\ ~IsRewind(r) /\ r.func = "R"
                /\ Applies(st, WriteOpreturn(st, h, update), r)
<1> DEFINE r == [func |-> "R", height |-> h, update |-> update]
           x == EventAdd(st.sp, "opreturn", h)
           y == KvUpdate(st.kv, update)
           t == WriteOpreturn(st, h, update)
           more == Append(st.file, r)
<1>0. st.sp \in State /\ st.kv \in KvStore /\ st.file \in Seq(Record)
  BY DEF Store
<1>1. r \in Record /\ r.func = "R" /\ r.height = h /\ r.update = update
  BY DEF Record
<1>2. Legal(st.sp, r, h) /\ ~IsRewind(r)
  BY <1>1 DEF Legal, IsRewind
<1>3. t = [[st EXCEPT !.sp = x, !.kv = y] EXCEPT !.file = more]
  <2>1. t = Append_([st EXCEPT !.sp = x, !.kv = y], r)
    BY DEF WriteOpreturn
  <2>2. [st EXCEPT !.sp = x, !.kv = y].file = st.file
    BY DEF Store
  <2> QED
    BY <2>1, <2>2 DEF Append_
<1> HIDE DEF r
<1>4. x = ApplySp(st.sp, r) /\ y = ParseKv(st.kv, r)
  BY <1>1 DEF ApplySp, ParseKv
<1>5. x \in State /\ y \in KvStore
  BY <1>0, EventAddFacts, KvUpdateFacts
<1>6. more \in Seq(Record)
  BY <1>0, <1>1
<1> HIDE DEF x, y, more, t
<1>7. LET u == [[st EXCEPT !.sp = x, !.kv = y] EXCEPT !.file = more] IN
      u \in Store /\ u.sp = x /\ u.kv = y /\ u.file = more
  BY <1>5, <1>6 DEF Store
<1>8. t \in Store /\ t.sp = x /\ t.kv = y /\ t.file = more
  BY <1>3, <1>7
<1>9. Applies(st, t, r)
  BY <1>4, <1>8 DEF Applies, more
<1> QED
  BY <1>1, <1>2, <1>9 DEF t

(* A notarisation: the node changes what it enforces before it writes. *)
LEMMA WriteNotarizedFacts ==
  ASSUME NEW st \in Store, NEW h \in Nat \ {0}, NEW a \in Nat, NEW b \in Hash, NEW c \in Root,
         st.sp.NOTARIZED_HEIGHT < a, a < h
  PROVE  LET mid == [st EXCEPT !.sp.NOTARIZED_HEIGHT = a, !.sp.NOTARIZED_HASH = b, !.sp.MoM = c] IN
         \E r : Legal(st.sp, r, h) /\ ~IsRewind(r) /\ Applies(st, WriteNotarized(mid, h), r)
<1> DEFINE s == st.sp
           m == [s EXCEPT !.NOTARIZED_HEIGHT = a, !.NOTARIZED_HASH = b, !.MoM = c]
           mid == [st EXCEPT !.sp.NOTARIZED_HEIGHT = a, !.sp.NOTARIZED_HASH = b, !.sp.MoM = c]
           n == [height |-> a, hash |-> b, MoM |-> c]
           r == IF c # 0
                THEN [func |-> "M", height |-> h, notarized |-> a, hash |-> b, MoM |-> c]
                ELSE [func |-> "N", height |-> h, notarized |-> a, hash |-> b]
           x == EventAddNotarized(m, h, n)
           more == Append(st.file, r)
           t == WriteNotarized(mid, h)
<1>0. s \in State /\ st.kv \in KvStore /\ st.file \in Seq(Record)
  BY DEF Store
<1> HIDE DEF s
<1>1. /\ m \in State /\ m.events = s.events /\ m.NPOINTS = s.NPOINTS
      /\ m.NOTARIZED_HEIGHT = a /\ m.NOTARIZED_HASH = b /\ m.MoM = c
      /\ m.SAVEDHEIGHT = s.SAVEDHEIGHT /\ m.Pubkeys = s.Pubkeys /\ m.ratified = s.ratified
  BY <1>0 DEF State
<1>2. mid = [st EXCEPT !.sp = m]
  BY <1>0 DEF Store, State, s
<1> HIDE DEF m, mid
<1>3. mid.sp = m /\ mid.kv = st.kv /\ mid.file = st.file /\ mid \in Store
  BY <1>1, <1>2 DEF Store
<1>4. /\ r \in Record /\ r.func \in {"M", "N"} /\ r.height = h /\ r.notarized = a /\ r.hash = b
      /\ r.func = "M" => r.MoM = c
      /\ r.func = "N" => c = 0
  <2>1. CASE c # 0
    BY <2>1 DEF Record
  <2>2. CASE c = 0
    BY <2>2 DEF Record
  <2> QED
    BY <2>1, <2>2
<1>5. t = Append_([mid EXCEPT !.sp = x], r)
  BY <1>1, <1>3 DEF WriteNotarized
<1> HIDE DEF r
<1>6. Legal(s, r, h) /\ ~IsRewind(r)
  BY <1>4 DEF Legal, IsRewind, s
<1>7. ApplySp(s, r) = EventAddNotarized(s, h, n)
  <2>1. CASE r.func = "M"
    BY <1>4, <2>1 DEF ApplySp
  <2>2. CASE r.func = "N"
    BY <1>4, <2>2 DEF ApplySp
  <2> QED
    BY <1>4, <2>1, <2>2
<1>8. x = ApplySp(s, r)
  <2> DEFINE e == EventAdd(s, "notarized", h)
             f == EventAdd(m, "notarized", h)
             y == NotarizedUpdate(e, h, n)
             z == NotarizedUpdate(f, h, n)
  <2>0. n.height = a /\ n.hash = b /\ n.MoM = c /\ h \in Nat
    OBVIOUS
  <2> HIDE DEF n
  <2>1. /\ e \in State /\ e.events = Append(s.events, [type |-> "notarized", height |-> h])
        /\ e.NPOINTS = s.NPOINTS /\ e.SAVEDHEIGHT = s.SAVEDHEIGHT
        /\ e.Pubkeys = s.Pubkeys /\ e.ratified = s.ratified
    BY <1>0, EventAddFacts
  <2>2. /\ f \in State /\ f.events = Append(m.events, [type |-> "notarized", height |-> h])
        /\ f.NPOINTS = m.NPOINTS /\ f.SAVEDHEIGHT = m.SAVEDHEIGHT
        /\ f.Pubkeys = m.Pubkeys /\ f.ratified = m.ratified
    BY <1>1, EventAddFacts
  <2> HIDE DEF e, f
  <2>3. n.height \in Nat /\ n.hash \in Hash /\ n.MoM \in Root /\ n.height < h
    BY <2>0
  <2>4. Notarised(e, y, h, n)
    BY <2>0, <2>1, <2>3, NotarizedUpdateIs
  <2>5. Notarised(f, z, h, n)
    BY <2>0, <2>2, <2>3, NotarizedUpdateIs
  <2>7. x = z /\ ApplySp(s, r) = y
    BY <1>7 DEF EventAddNotarized, e, f
  <2> HIDE DEF x, y, z
  <2>8. /\ y.events = z.events /\ y.NPOINTS = z.NPOINTS
        /\ y.NOTARIZED_HEIGHT = z.NOTARIZED_HEIGHT /\ y.NOTARIZED_HASH = z.NOTARIZED_HASH
        /\ y.MoM = z.MoM /\ y.SAVEDHEIGHT = z.SAVEDHEIGHT
        /\ y.Pubkeys = z.Pubkeys /\ y.ratified = z.ratified
        /\ y \in State /\ z \in State
    BY <1>1, <2>1, <2>2, <2>4, <2>5, Zenon DEF Notarised
  <2>9. y = z
    BY <2>8, StateEqual
  <2> QED
    BY <2>7, <2>9
<1>9. x \in State
  BY <1>0, <1>4, <1>8, ApplySpType
<1>10. more \in Seq(Record)
  BY <1>0, <1>4
<1> HIDE DEF x, t
<1>11. t = [[mid EXCEPT !.sp = x] EXCEPT !.file = more]
  <2>1. [mid EXCEPT !.sp = x].file = mid.file
    BY <1>3 DEF Store
  <2> QED
    BY <1>3, <1>5, <2>1 DEF Append_
<1> HIDE DEF more
<1>12. LET u == [[mid EXCEPT !.sp = x] EXCEPT !.file = more] IN
       u \in Store /\ u.sp = x /\ u.kv = mid.kv /\ u.file = more
  BY <1>3, <1>9, <1>10 DEF Store
<1>13. t \in Store /\ t.sp = x /\ t.kv = st.kv /\ t.file = more
  BY <1>3, <1>11, <1>12
<1>14. ParseKv(st.kv, r) = st.kv
  BY <1>4 DEF ParseKv
<1>15. Applies(st, t, r)
  BY <1>8, <1>13, <1>14 DEF Applies, more, s
<1> QED
  BY <1>6, <1>15 DEF t, mid, s

(* What an output of a block says is of the types above. *)
LEMMA OutputFacts ==
  ASSUME NEW b \in Blocks, NEW i \in 1..Len(Outputs[b])
  PROVE  LET out == Outputs[b][i] IN
         \/ out.type = "kv" /\ out.update \in Update
         \/ out.type = "ratify" /\ out.pubkeys \in Notaries
         \/ out.type = "notarise" /\ out.notarized \in Nat /\ out.hash \in Hash /\ out.MoM \in Root
<1> DEFINE out == Outputs[b][i]
<1>1. \/ out.type = "kv"
      \/ out.type = "ratify"
      \/ out.type = "notarise" /\ out.notarized \in Nat
  BY KomodoAssumption
<1> DEFINE All == UNION {{Outputs[c][j] : j \in 1..Len(Outputs[c])} : c \in Blocks}
<1>2. out \in All
  OBVIOUS
<1> HIDE DEF out, All
<1>3. out \in Says(out.type)
  BY <1>2 DEF Says, All
<1>4. CASE out.type = "kv"
  BY <1>3, <1>4 DEF Update, out
<1>5. CASE out.type = "ratify"
  BY <1>3, <1>5 DEF Notaries, out
<1>6. CASE out.type = "notarise"
  BY <1>1, <1>3, <1>6 DEF Hash, Root, out
<1> QED
  BY <1>1, <1>4, <1>5, <1>6

(* An output writes one record, or none; a check no ratification. *)
LEMMA VoutUpdateFacts ==
  ASSUME NEW st \in Store, NEW h \in Nat \ {0}, NEW b \in Blocks,
         NEW i \in 1..Len(Outputs[b]), NEW ibd, NEW check \in BOOLEAN
  PROVE  LET t == VoutUpdate(st, h, Outputs[b][i], ibd, check) IN
         \/ t = st
         \/ \E r : /\ Legal(st.sp, r, h) /\ ~IsRewind(r) /\ Applies(st, t, r)
                   /\ check => r.func # "P"
<1> DEFINE out == Outputs[b][i]
           t == VoutUpdate(st, h, out, ibd, check)
<1>1. \/ out.type = "kv" /\ out.update \in Update
      \/ out.type = "ratify" /\ out.pubkeys \in Notaries
      \/ out.type = "notarise" /\ out.notarized \in Nat /\ out.hash \in Hash /\ out.MoM \in Root
  BY OutputFacts
<1> HIDE DEF out
<1>2. CASE out.type = "kv" /\ out.update \in Update
  <2>1. t = WriteOpreturn(st, h, out.update)
    BY <1>2 DEF VoutUpdate
  <2> QED
    BY <1>2, <2>1, WriteOpreturnFacts DEF out
<1>3. CASE out.type = "ratify" /\ out.pubkeys \in Notaries
  <2>1. t = IF check THEN st ELSE WritePubkeys(st, h, out.pubkeys)
    BY <1>3 DEF VoutUpdate
  <2> QED
    BY <1>3, <2>1, WritePubkeysFacts DEF out
<1>4. CASE /\ out.type = "notarise" /\ out.notarized \in Nat
           /\ out.hash \in Hash /\ out.MoM \in Root
  <2> DEFINE c == IF out.MoM # 0 THEN out.MoM ELSE st.sp.MoM
             mid == [st EXCEPT !.sp.NOTARIZED_HEIGHT = out.notarized,
                               !.sp.NOTARIZED_HASH = out.hash, !.sp.MoM = c]
             wide == /\ ~check
                     /\ ValidateChain(out, ibd) /\ out.notarized > st.sp.NOTARIZED_HEIGHT
                     /\ out.notarized < h
  <2>1. c \in Root /\ st.sp.NOTARIZED_HEIGHT \in Nat
    BY <1>4 DEF Store, State
  <2>2. t = IF wide THEN WriteNotarized(mid, h) ELSE st
    BY <1>4 DEF VoutUpdate, Store, State
  <2>3. CASE ~wide
    BY <2>2, <2>3 DEF out
  <2>4. CASE wide
    <3>1. st.sp.NOTARIZED_HEIGHT < out.notarized /\ out.notarized < h
      BY <1>4, <2>1, <2>4
    <3> HIDE DEF c
    <3>2. \E r : Legal(st.sp, r, h) /\ ~IsRewind(r) /\ Applies(st, WriteNotarized(mid, h), r)
      BY <1>4, <2>1, <3>1, WriteNotarizedFacts
    <3> QED
      BY <2>2, <2>4, <3>2 DEF out
  <2> QED
    BY <2>3, <2>4
<1> QED
  BY <1>1, <1>2, <1>3, <1>4

-----------------------------------------------------------------------------
(* What a replay follows *)

(* An event of a list has a height and a type. *)
LEMMA EventsFacts ==
  ASSUME NEW events \in Seq(Event)
  PROVE  /\ Len(events) \in Nat
         /\ \A i \in 1..Len(events) : events[i] \in Event /\ events[i].height \in Nat
<1>1. Len(events) \in Nat /\ \A i \in 1..Len(events) : events[i] \in Event
  OBVIOUS
<1> QED
  BY <1>1 DEF Event

(* An event that is no ratification goes into both lists. *)
LEMMA DropsAppend ==
  ASSUME NEW full \in Seq(Event), NEW part \in Seq(Event), Drops(full, part),
         NEW e \in Event, e.type # "ratify"
  PROVE  Drops(Append(full, e), Append(part, e))
<1> DEFINE F == Append(full, e)
           P == Append(part, e)
           n == Len(full)
           m == Len(part)
<1>1. /\ n \in Nat /\ m \in Nat /\ Len(F) = n + 1 /\ Len(P) = m + 1
      /\ F[n + 1] = e /\ P[m + 1] = e
      /\ \A i \in 1..n : F[i] = full[i]
      /\ \A i \in 1..m : P[i] = part[i]
  OBVIOUS
<1>2. PICK f \in [1..m -> 1..n] :
        /\ \A i, j \in 1..m : i < j => f[i] < f[j]
        /\ \A i \in 1..m : part[i] = full[f[i]]
        /\ \A j \in 1..n : full[j].type # "ratify" <=> \E i \in 1..m : f[i] = j
  BY DEF Drops
<1> HIDE DEF F, P, n, m
<1> DEFINE g == [i \in 1..m + 1 |-> IF i = m + 1 THEN n + 1 ELSE f[i]]
<1>3. /\ g[m + 1] = n + 1
      /\ \A i \in 1..m : g[i] = f[i] /\ f[i] \in 1..n
  BY <1>1, <1>2
<1>4. g \in [1..m + 1 -> 1..n + 1]
  BY <1>1, <1>3
<1> HIDE DEF g
<1>5. \A i \in 1..m + 1 : i \in 1..m \/ i = m + 1
  BY <1>1
<1>6. \A i, j \in 1..m + 1 : i < j => g[i] < g[j]
  <2> SUFFICES ASSUME NEW i \in 1..m + 1, NEW j \in 1..m + 1, i < j PROVE g[i] < g[j]
    OBVIOUS
  <2>1. i \in 1..m
    BY <1>1
  <2>2. CASE j = m + 1
    BY <1>1, <1>3, <2>1, <2>2
  <2>3. CASE j \in 1..m
    BY <1>2, <1>3, <2>1, <2>3
  <2> QED
    BY <1>5, <2>2, <2>3
<1>7. \A i \in 1..m + 1 : P[i] = F[g[i]]
  <2> SUFFICES ASSUME NEW i \in 1..m + 1 PROVE P[i] = F[g[i]]
    OBVIOUS
  <2>1. CASE i \in 1..m
    BY <1>1, <1>2, <1>3, <2>1
  <2>2. CASE i = m + 1
    BY <1>1, <1>3, <2>2
  <2> QED
    BY <1>5, <2>1, <2>2
<1>8. \A j \in 1..n + 1 : F[j].type # "ratify" <=> \E i \in 1..m + 1 : g[i] = j
  <2> SUFFICES ASSUME NEW j \in 1..n + 1
               PROVE  F[j].type # "ratify" <=> \E i \in 1..m + 1 : g[i] = j
    OBVIOUS
  <2>1. CASE j = n + 1
    <3>1. m + 1 \in 1..m + 1
      BY <1>1
    <3> QED
      BY <1>1, <1>3, <2>1, <3>1
  <2>2. CASE j # n + 1
    <3>1. j \in 1..n /\ F[j] = full[j]
      BY <1>1, <2>2
    <3>2. \A i \in 1..m : i \in 1..m + 1
      BY <1>1
    <3>3. (\E i \in 1..m : f[i] = j) <=> \E i \in 1..m + 1 : g[i] = j
      BY <1>3, <1>5, <2>2, <3>2
    <3> QED
      BY <1>2, <3>1, <3>3
  <2> QED
    BY <2>1, <2>2
<1>9. Drops(F, P)
  <2>1. Len(F) = n + 1 /\ Len(P) = m + 1
    BY <1>1
  <2>2. g \in [1..Len(P) -> 1..Len(F)]
    BY <1>4, <2>1
  <2>3. \A i, j \in 1..Len(P) : i < j => g[i] < g[j]
    BY <1>6, <2>1
  <2>4. \A i \in 1..Len(P) : P[i] = F[g[i]]
    BY <1>7, <2>1
  <2>5. \A j \in 1..Len(F) : F[j].type # "ratify" <=> \E i \in 1..Len(P) : g[i] = j
    BY <1>8, <2>1
  <2> QED
    BY <2>2, <2>3, <2>4, <2>5, Zenon DEF Drops
<1> QED
  BY <1>9 DEF F, P

(* A ratification goes into the longer list only. *)
LEMMA DropsRatify ==
  ASSUME NEW full \in Seq(Event), NEW part \in Seq(Event), Drops(full, part),
         NEW e \in Event, e.type = "ratify"
  PROVE  Drops(Append(full, e), part)
<1> DEFINE F == Append(full, e)
           n == Len(full)
           m == Len(part)
<1>1. /\ n \in Nat /\ m \in Nat /\ Len(F) = n + 1 /\ F[n + 1] = e
      /\ \A i \in 1..n : F[i] = full[i]
  OBVIOUS
<1>2. PICK f \in [1..m -> 1..n] :
        /\ \A i, j \in 1..m : i < j => f[i] < f[j]
        /\ \A i \in 1..m : part[i] = full[f[i]]
        /\ \A j \in 1..n : full[j].type # "ratify" <=> \E i \in 1..m : f[i] = j
  BY DEF Drops
<1> HIDE DEF F, n, m
<1>3. f \in [1..m -> 1..n + 1] /\ \A i \in 1..m : f[i] \in 1..n
  BY <1>1, <1>2
<1>4. \A i \in 1..m : part[i] = F[f[i]]
  BY <1>1, <1>2, <1>3
<1>5. \A j \in 1..n + 1 : F[j].type # "ratify" <=> \E i \in 1..m : f[i] = j
  <2> SUFFICES ASSUME NEW j \in 1..n + 1
               PROVE  F[j].type # "ratify" <=> \E i \in 1..m : f[i] = j
    OBVIOUS
  <2>1. CASE j = n + 1
    BY <1>1, <1>3, <2>1
  <2>2. CASE j # n + 1
    <3>1. j \in 1..n /\ F[j] = full[j]
      BY <1>1, <2>2
    <3> QED
      BY <1>2, <3>1
  <2> QED
    BY <2>1, <2>2
<1>6. Drops(F, part)
  <2>1. Len(F) = n + 1 /\ Len(part) = m
    BY <1>1 DEF m
  <2>2. f \in [1..Len(part) -> 1..Len(F)]
    BY <1>3, <2>1
  <2>3. \A i, j \in 1..Len(part) : i < j => f[i] < f[j]
    BY <1>2, <2>1
  <2>4. \A i \in 1..Len(part) : part[i] = F[f[i]]
    BY <1>4, <2>1
  <2>5. \A j \in 1..Len(F) : F[j].type # "ratify" <=> \E i \in 1..Len(part) : f[i] = j
    BY <1>5, <2>1
  <2> QED
    BY <2>2, <2>3, <2>4, <2>5, Zenon DEF Drops
<1> QED
  BY <1>6 DEF F

(* Where no rewind stops at a ratification, rewinds of both lists stop at  *)
(* the same event and take the same heights back.                          *)
LEMMA DropsRewind ==
  ASSUME NEW full \in Seq(Event), NEW part \in Seq(Event), Drops(full, part),
         Settled(full), NEW h \in Nat
  PROVE  /\ Drops(SubSeq(full, 1, Keeps(full, h)), SubSeq(part, 1, Keeps(part, h)))
         /\ Undoes(full, h) = Undoes(part, h)
<1> DEFINE n == Len(full)
           m == Len(part)
           k == Keeps(full, h)
           l == Keeps(part, h)
<1>0. /\ n \in Nat /\ m \in Nat
      /\ \A i \in 1..n : full[i].height \in Nat
      /\ \A i \in 1..m : part[i].height \in Nat
  BY EventsFacts
<1>1. PICK f \in [1..m -> 1..n] :
        /\ \A i, j \in 1..m : i < j => f[i] < f[j]
        /\ \A i \in 1..m : part[i] = full[f[i]]
        /\ \A j \in 1..n : full[j].type # "ratify" <=> \E i \in 1..m : f[i] = j
  BY DEF Drops
<1>2. /\ k \in 0..n /\ (k # 0 => full[k].height < h)
      /\ \A i \in 1..n : full[i].height < h => i =< k
  BY KeepsFacts
<1>3. /\ l \in 0..m /\ (l # 0 => part[l].height < h)
      /\ \A i \in 1..m : part[i].height < h => i =< l
  BY KeepsFacts
<1> HIDE DEF n, m, k, l
<1>4. \A i \in 1..m : f[i] \in 1..n /\ f[i] \in Nat
  BY <1>0, <1>1
<1>5. k # 0 => \E j \in 1..m : f[j] = k /\ j =< l
  <2> SUFFICES ASSUME k # 0 PROVE \E j \in 1..m : f[j] = k /\ j =< l
    OBVIOUS
  <2>1. k \in 1..n
    BY <1>0, <1>2
  <2>2. full[k].type # "ratify"
    <3> SUFFICES ASSUME full[k].type = "ratify" PROVE FALSE
      OBVIOUS
    <3>1. k < n /\ full[k + 1].height = full[k].height
      BY <2>1 DEF Settled, n
    <3>2. k + 1 \in 1..n
      BY <1>0, <2>1, <3>1
    <3>3. k + 1 =< k
      BY <1>2, <2>1, <3>1, <3>2
    <3> QED
      BY <1>0, <2>1, <3>3
  <2>3. PICK j \in 1..m : f[j] = k
    BY <1>1, <2>1, <2>2
  <2>4. part[j].height < h
    BY <1>1, <1>2, <2>1, <2>3
  <2> QED
    BY <1>3, <2>3, <2>4
<1>6. l # 0 => f[l] =< k /\ l \in 1..m
  <2> SUFFICES ASSUME l # 0 PROVE f[l] =< k /\ l \in 1..m
    OBVIOUS
  <2>1. l \in 1..m
    BY <1>0, <1>3
  <2> QED
    BY <1>1, <1>2, <1>3, <1>4, <2>1
<1>7. \A i \in 1..m : i =< l <=> f[i] =< k
  <2> SUFFICES ASSUME NEW i \in 1..m PROVE i =< l <=> f[i] =< k
    OBVIOUS
  <2>0. i \in Nat /\ i >= 1 /\ k \in Nat /\ l \in Nat /\ f[i] \in Nat /\ f[i] >= 1
    BY <1>0, <1>2, <1>3, <1>4
  <2>1. ASSUME i =< l PROVE f[i] =< k
    <3>1. l # 0 /\ l \in 1..m /\ f[l] =< k /\ f[l] \in Nat
      BY <1>4, <1>6, <2>0, <2>1
    <3>2. i = l \/ f[i] < f[l]
      BY <1>1, <2>0, <2>1, <3>1
    <3> QED
      BY <2>0, <3>1, <3>2
  <2>2. ASSUME f[i] =< k PROVE i =< l
    <3>1. k # 0
      BY <2>0, <2>2
    <3>2. PICK j \in 1..m : f[j] = k /\ j =< l
      BY <1>5, <3>1
    <3>3. j < i => f[j] < f[i]
      BY <1>1
    <3>4. j \in Nat
      BY <1>0
    <3> QED
      BY <2>0, <2>2, <3>2, <3>3, <3>4
  <2> QED
    BY <2>1, <2>2
<1> DEFINE F == SubSeq(full, 1, k)
           P == SubSeq(part, 1, l)
<1>8. /\ Len(F) = k /\ Len(P) = l
      /\ \A i \in 1..k : F[i] = full[i] /\ i \in 1..n
      /\ \A i \in 1..l : P[i] = part[i] /\ i \in 1..m
  BY <1>0, <1>2, <1>3 DEF n, m
<1> HIDE DEF F, P
<1>9. Drops(F, P)
  <2> DEFINE g == [i \in 1..l |-> f[i]]
  <2>1. \A i \in 1..l : g[i] = f[i] /\ f[i] \in 1..k
    BY <1>2, <1>3, <1>4, <1>7, <1>8
  <2>2. g \in [1..l -> 1..k]
    BY <2>1
  <2> HIDE DEF g
  <2>3. \A i, j \in 1..l : i < j => g[i] < g[j]
    BY <1>1, <1>8, <2>1
  <2>4. \A i \in 1..l : P[i] = F[g[i]]
    BY <1>1, <1>8, <2>1
  <2>5. \A j \in 1..k : F[j].type # "ratify" <=> \E i \in 1..l : g[i] = j
    <3> SUFFICES ASSUME NEW j \in 1..k
                 PROVE  F[j].type # "ratify" <=> \E i \in 1..l : g[i] = j
      OBVIOUS
    <3>1. j \in 1..n /\ F[j] = full[j] /\ j =< k
      BY <1>2, <1>8
    <3>2. \A i \in 1..m : f[i] = j => i \in 1..l
      BY <1>0, <1>3, <1>7, <3>1
    <3>3. (\E i \in 1..m : f[i] = j) <=> \E i \in 1..l : g[i] = j
      BY <1>8, <2>1, <3>2
    <3> QED
      BY <1>1, <3>1, <3>3
  <2>6. Len(F) = k /\ Len(P) = l
    BY <1>8
  <2>7. g \in [1..Len(P) -> 1..Len(F)]
    BY <2>2, <2>6
  <2>8. \A i, j \in 1..Len(P) : i < j => g[i] < g[j]
    BY <2>3, <2>6
  <2>9. \A i \in 1..Len(P) : P[i] = F[g[i]]
    BY <2>4, <2>6
  <2>10. \A j \in 1..Len(F) : F[j].type # "ratify" <=> \E i \in 1..Len(P) : g[i] = j
    BY <2>5, <2>6
  <2> QED
    BY <2>7, <2>8, <2>9, <2>10, Zenon DEF Drops
<1>10. Undoes(full, h) = Undoes(part, h)
  <2> DEFINE A == {j \in k+1..n : full[j].type = "kmdheight"}
             B == {i \in l+1..m : part[i].type = "kmdheight"}
  <2>1. Undoes(full, h) = {full[j].height : j \in A} /\ Undoes(part, h) = {part[i].height : i \in B}
    BY DEF Undoes, k, l, n, m
  <2>2. \A j \in A : \E i \in B : part[i].height = full[j].height
    <3> SUFFICES ASSUME NEW j \in A PROVE \E i \in B : part[i].height = full[j].height
      OBVIOUS
    <3>1. j \in 1..n /\ ~(j =< k) /\ full[j].type = "kmdheight"
      BY <1>0, <1>2
    <3>2. PICK i \in 1..m : f[i] = j
      BY <1>1, <3>1
    <3>3. part[i] = full[j] /\ ~(i =< l)
      BY <1>1, <1>7, <3>1, <3>2
    <3>4. i \in l+1..m
      BY <1>0, <1>3, <3>2, <3>3
    <3> QED
      BY <3>1, <3>3, <3>4
  <2>3. \A i \in B : \E j \in A : part[i].height = full[j].height
    <3> SUFFICES ASSUME NEW i \in B PROVE \E j \in A : part[i].height = full[j].height
      OBVIOUS
    <3>1. i \in 1..m /\ ~(i =< l) /\ part[i].type = "kmdheight"
      BY <1>0, <1>3
    <3>2. part[i] = full[f[i]] /\ ~(f[i] =< k) /\ f[i] \in 1..n
      BY <1>1, <1>4, <1>7, <3>1
    <3>3. f[i] \in k+1..n
      BY <1>0, <1>2, <3>2
    <3> QED
      BY <3>1, <3>2, <3>3
  <2> HIDE DEF A, B
  <2> QED
    BY <2>1, <2>2, <2>3
<1> QED
  BY <1>9, <1>10 DEF F, P, k, l

(* The shorter list has no ratification. *)
NoRatify(events) == \A i \in 1..Len(events) : events[i].type # "ratify"

LEMMA DropsFacts ==
  ASSUME NEW full \in Seq(Event), NEW part \in Seq(Event), Drops(full, part)
  PROVE  /\ NoRatify(part)
         /\ \A i \in 1..Len(part) : \E j \in 1..Len(full) : part[i] = full[j]
<1> DEFINE n == Len(full)
           m == Len(part)
<1>1. PICK f \in [1..m -> 1..n] :
        /\ \A i, j \in 1..m : i < j => f[i] < f[j]
        /\ \A i \in 1..m : part[i] = full[f[i]]
        /\ \A j \in 1..n : full[j].type # "ratify" <=> \E i \in 1..m : f[i] = j
  BY DEF Drops
<1> HIDE DEF n, m
<1>2. \A i \in 1..m : f[i] \in 1..n /\ part[i] = full[f[i]] /\ full[f[i]].type # "ratify"
  BY <1>1
<1> QED
  BY <1>2 DEF NoRatify, n, m

(* A list without ratifications is settled, and follows itself. *)
LEMMA DropsSelf ==
  ASSUME NEW events \in Seq(Event), NoRatify(events)
  PROVE  Drops(events, events) /\ Settled(events)
<1> DEFINE n == Len(events)
           f == [i \in 1..n |-> i]
<1>1. n \in Nat
  OBVIOUS
<1> HIDE DEF n
<1>2. f \in [1..n -> 1..n] /\ \A i \in 1..n : f[i] = i
  OBVIOUS
<1> HIDE DEF f
<1>3. \A j \in 1..n : events[j].type # "ratify"
  BY DEF NoRatify, n
<1>4. Drops(events, events)
  BY <1>2, <1>3 DEF Drops, n
<1> QED
  BY <1>3, <1>4 DEF Settled, n

(* Counted out, the shorter list is the longer one without ratifications. *)
LEMMA DropsIs ==
  ASSUME NEW full \in Seq(Event), NEW part \in Seq(Event), Drops(full, part)
  PROVE  WithoutRatifications(full, part)
<1> DEFINE n == Len(full)
           m == Len(part)
           kept == {i \in 1..n : full[i].type # "ratify"}
           Upto(i) == {j \in kept : j =< i}
<1>0. n \in Nat /\ m \in Nat
  OBVIOUS
<1>1. PICK f \in [1..m -> 1..n] :
        /\ \A i, j \in 1..m : i < j => f[i] < f[j]
        /\ \A i \in 1..m : part[i] = full[f[i]]
        /\ \A j \in 1..n : full[j].type # "ratify" <=> \E i \in 1..m : f[i] = j
  BY DEF Drops
<1> HIDE DEF n, m
<1>2. \A i \in 1..m : f[i] \in kept /\ f[i] \in Nat
  BY <1>0, <1>1
<1>3. \A i, j \in 1..m : i =< j <=> f[i] =< f[j]
  <2> SUFFICES ASSUME NEW i \in 1..m, NEW j \in 1..m PROVE i =< j <=> f[i] =< f[j]
    OBVIOUS
  <2>1. i \in Nat /\ j \in Nat /\ f[i] \in Nat /\ f[j] \in Nat
    BY <1>0, <1>2
  <2>2. (i < j => f[i] < f[j]) /\ (j < i => f[j] < f[i])
    BY <1>1
  <2> QED
    BY <2>1, <2>2
<1>4. \A j \in kept : \E i \in 1..m : f[i] = j
  BY <1>1
<1>5. ASSUME NEW i \in 1..m
      PROVE  Cardinality(Upto(f[i])) = i
  <2> DEFINE g == [j \in 1..i |-> f[j]]
             T == Upto(f[i])
  <2>1. i \in Nat /\ i >= 1 /\ \A j \in 1..i : j \in 1..m /\ j =< i
    BY <1>0
  <2>2. \A j \in 1..i : g[j] = f[j] /\ f[j] \in T
    BY <1>2, <1>3, <2>1
  <2>3. g \in [1..i -> T]
    BY <2>2
  <2>4. \A x \in T : \E j \in 1..i : g[j] = x
    <3> SUFFICES ASSUME NEW x \in T PROVE \E j \in 1..i : g[j] = x
      OBVIOUS
    <3>1. x \in kept /\ x =< f[i]
      OBVIOUS
    <3>2. PICK j \in 1..m : f[j] = x
      BY <1>4, <3>1
    <3>3. j =< i
      BY <1>3, <3>1, <3>2
    <3>4. j \in 1..i
      BY <1>0, <2>1, <3>2, <3>3
    <3> QED
      BY <2>2, <3>2, <3>4
  <2>5. \A a, c \in 1..i : g[a] = g[c] => a = c
    <3> SUFFICES ASSUME NEW a \in 1..i, NEW c \in 1..i, g[a] = g[c] PROVE a = c
      OBVIOUS
    <3>1. a \in 1..m /\ c \in 1..m /\ f[a] = f[c] /\ f[a] \in Nat
      BY <1>2, <2>1, <2>2
    <3>2. a =< c /\ c =< a
      BY <1>3, <3>1
    <3> QED
      BY <3>2
  <2> HIDE DEF g, T
  <2>6. ExistsBijection(1..i, T)
    BY <2>3, <2>4, <2>5 DEF ExistsBijection, Bijection, Injection, Surjection, IsInjective
  <2>7. IsFiniteSet(1..i) /\ Cardinality(1..i) = i
    <3>1. 1 \in Int /\ i \in Int /\ ~(1 > i) /\ i - 1 + 1 = i
      BY <2>1
    <3> QED
      BY <3>1, FS_Interval
  <2>8. Cardinality(T) = i
    BY <2>6, <2>7, FS_Bijection
  <2> QED
    BY <2>8 DEF T
<1>6. m = Cardinality(kept)
  <2>1. CASE m = 0
    <3>1. kept = {}
      BY <1>4, <2>1
    <3> HIDE DEF kept
    <3> QED
      BY <2>1, <3>1, FS_EmptySet
  <2>2. CASE m # 0
    <3>1. m \in 1..m
      BY <1>0, <2>2
    <3>2. \A j \in kept : j =< f[m]
      <4> SUFFICES ASSUME NEW j \in kept PROVE j =< f[m]
        OBVIOUS
      <4>1. PICK i \in 1..m : f[i] = j
        BY <1>4
      <4>2. i =< m
        BY <1>0
      <4> QED
        BY <1>3, <3>1, <4>1, <4>2
    <3>3. kept = Upto(f[m])
      BY <3>2
    <3>4. Cardinality(Upto(f[m])) = m
      BY <1>5, <3>1
    <3> HIDE DEF kept, Upto
    <3> QED
      BY <3>3, <3>4
  <2> QED
    BY <2>1, <2>2
<1>7. ASSUME NEW i \in kept
      PROVE  part[Cardinality(Upto(i))] = full[i]
  <2>1. PICK j \in 1..m : f[j] = i
    BY <1>4
  <2>2. Cardinality(Upto(i)) = j
    BY <1>5, <2>1
  <2> QED
    BY <1>1, <2>1, <2>2
<1> QED
  BY <1>6, <1>7 DEF WithoutRatifications, n, m

(* What a node does to its state, a replay does to what follows it. *)
LEMMA FollowsStep ==
  ASSUME NEW s \in State, NEW p \in State, NEW h \in Nat \ {0}, NEW r, Legal(s, r, h),
         Follows(s, p), IsRewind(r) => Settled(s.events)
  PROVE  Follows(ApplySp(s, r), ParseSp(p, r))
<1> DEFINE t == ApplySp(s, r)
           q == ParseSp(p, r)
           ev(type) == [type |-> type, height |-> h]
           Both(type) == /\ t.events = Append(s.events, ev(type))
                         /\ q.events = Append(p.events, ev(type))
<1>0. /\ r \in Record /\ r.height = h /\ r.func \in {"T", "P", "R", "M", "N"} /\ h \in Nat
      /\ s.events \in Seq(Event) /\ p.events \in Seq(Event)
  BY RecordFacts DEF Legal, State
<1>1. /\ Drops(s.events, p.events)
      /\ p.NPOINTS = s.NPOINTS /\ p.NOTARIZED_HEIGHT = s.NOTARIZED_HEIGHT
      /\ p.NOTARIZED_HASH = s.NOTARIZED_HASH /\ p.MoM = s.MoM /\ p.SAVEDHEIGHT = s.SAVEDHEIGHT
  BY DEF Follows
<1>2. \A type \in {"notarized", "ratify", "kmdheight", "opreturn"} :
        ev(type) \in Event /\ ev(type).type = type
  BY DEF Event
<1> HIDE DEF ev
<1>3. ASSUME NEW type \in {"notarized", "kmdheight", "opreturn"}, Both(type)
      PROVE  Drops(t.events, q.events)
  BY <1>0, <1>1, <1>2, <1>3, DropsAppend
<1>4. CASE r.func = "T"
  <2> DEFINE k == r.kmdheight
  <2>1. t = EventAddKmdHeight(s, h, k) /\ q = EventAddKmdHeight(p, h, k)
    BY <1>0, <1>4 DEF ApplySp, ParseSp
  <2>2. k \in Int /\ k \in {h, -h}
    BY <1>4 DEF Legal
  <2>3. IsRewind(r) <=> ~(k > 0)
    BY <1>4, <2>2 DEF IsRewind
  <2> HIDE DEF k, t, q
  <2>4. /\ t.NPOINTS = s.NPOINTS /\ t.NOTARIZED_HEIGHT = s.NOTARIZED_HEIGHT
        /\ t.NOTARIZED_HASH = s.NOTARIZED_HASH /\ t.MoM = s.MoM
        /\ k > 0 => /\ t.events = Append(s.events, ev("kmdheight"))
                    /\ t.SAVEDHEIGHT = IF k > s.SAVEDHEIGHT THEN k ELSE s.SAVEDHEIGHT
        /\ ~(k > 0) => t = EventRewind(s, h)
    BY <1>0, <2>1, <2>2, KmdHeightFacts DEF ev
  <2>5. /\ q.NPOINTS = p.NPOINTS /\ q.NOTARIZED_HEIGHT = p.NOTARIZED_HEIGHT
        /\ q.NOTARIZED_HASH = p.NOTARIZED_HASH /\ q.MoM = p.MoM
        /\ k > 0 => /\ q.events = Append(p.events, ev("kmdheight"))
                    /\ q.SAVEDHEIGHT = IF k > p.SAVEDHEIGHT THEN k ELSE p.SAVEDHEIGHT
        /\ ~(k > 0) => q = EventRewind(p, h)
    BY <1>0, <2>1, <2>2, KmdHeightFacts DEF ev
  <2>6. Drops(t.events, q.events) /\ t.SAVEDHEIGHT = q.SAVEDHEIGHT
    <3>1. CASE k > 0
      <4>1. Drops(t.events, q.events)
        BY <1>3, <2>4, <2>5, <3>1
      <4>2. t.SAVEDHEIGHT = q.SAVEDHEIGHT
        BY <1>1, <2>4, <2>5, <3>1
      <4> QED
        BY <4>1, <4>2
    <3>2. CASE ~(k > 0)
      <4>1. /\ t.events = SubSeq(s.events, 1, Keeps(s.events, h))
            /\ t.SAVEDHEIGHT = Min({s.SAVEDHEIGHT} \cup Undoes(s.events, h))
        <5>1. LET u == EventRewind(s, h) IN
              /\ u.events = SubSeq(s.events, 1, Keeps(s.events, h))
              /\ u.SAVEDHEIGHT = Min({s.SAVEDHEIGHT} \cup Undoes(s.events, h))
          BY <1>0, RewindFacts
        <5>2. t = EventRewind(s, h)
          BY <2>4, <3>2
        <5> QED
          BY <5>1, <5>2, Zenon
      <4>2. /\ q.events = SubSeq(p.events, 1, Keeps(p.events, h))
            /\ q.SAVEDHEIGHT = Min({p.SAVEDHEIGHT} \cup Undoes(p.events, h))
        <5>1. LET u == EventRewind(p, h) IN
              /\ u.events = SubSeq(p.events, 1, Keeps(p.events, h))
              /\ u.SAVEDHEIGHT = Min({p.SAVEDHEIGHT} \cup Undoes(p.events, h))
          BY <1>0, RewindFacts
        <5>2. q = EventRewind(p, h)
          BY <2>5, <3>2
        <5> QED
          BY <5>1, <5>2, Zenon
      <4>3. Settled(s.events)
        BY <2>3, <3>2
      <4>4. /\ Drops(SubSeq(s.events, 1, Keeps(s.events, h)), SubSeq(p.events, 1, Keeps(p.events, h)))
            /\ Undoes(s.events, h) = Undoes(p.events, h)
        BY <1>0, <1>1, <4>3, DropsRewind
      <4> QED
        BY <1>1, <4>1, <4>2, <4>4
    <3> QED
      BY <3>1, <3>2
  <2>7. Follows(t, q)
    BY <1>1, <2>4, <2>5, <2>6 DEF Follows
  <2> QED
    BY <2>7 DEF t, q
<1>5. CASE r.func = "P"
  <2> DEFINE a == EventAdd(s, "ratify", h)
  <2>1. t = NotarysInit(a, h, r.pubkeys) /\ r.pubkeys \in Notaries /\ q = p
    BY <1>0, <1>5, RecordFacts DEF ApplySp, EventAddPubkeys, ParseSp
  <2>2. /\ a \in State /\ a.events = Append(s.events, ev("ratify"))
        /\ a.NPOINTS = s.NPOINTS /\ a.NOTARIZED_HEIGHT = s.NOTARIZED_HEIGHT
        /\ a.NOTARIZED_HASH = s.NOTARIZED_HASH /\ a.MoM = s.MoM /\ a.SAVEDHEIGHT = s.SAVEDHEIGHT
    BY <1>0, EventAddFacts DEF ev
  <2> HIDE DEF a, t, q
  <2>3. /\ t.events = a.events /\ t.NPOINTS = a.NPOINTS /\ t.NOTARIZED_HEIGHT = a.NOTARIZED_HEIGHT
        /\ t.NOTARIZED_HASH = a.NOTARIZED_HASH /\ t.MoM = a.MoM /\ t.SAVEDHEIGHT = a.SAVEDHEIGHT
    <3> DEFINE keys == r.pubkeys
               u == NotarysInit(a, h, keys)
    <3>0. a \in State /\ h \in Nat /\ keys \in Notaries
      BY <1>0, <2>1, <2>2
    <3> HIDE DEF keys
    <3>1. /\ u.events = a.events /\ u.NPOINTS = a.NPOINTS /\ u.NOTARIZED_HEIGHT = a.NOTARIZED_HEIGHT
          /\ u.NOTARIZED_HASH = a.NOTARIZED_HASH /\ u.MoM = a.MoM /\ u.SAVEDHEIGHT = a.SAVEDHEIGHT
      BY <3>0, NotarysInitFacts
    <3>2. t = u
      BY <2>1 DEF keys
    <3> QED
      BY <3>1, <3>2, Zenon
  <2>4. Drops(t.events, q.events)
    BY <1>0, <1>1, <1>2, <2>1, <2>2, <2>3, DropsRatify
  <2>5. Follows(t, q)
    BY <1>1, <2>1, <2>2, <2>3, <2>4 DEF Follows
  <2> QED
    BY <2>5 DEF t, q
<1>6. CASE r.func = "R"
  <2>1. t = EventAdd(s, "opreturn", h) /\ q = EventAdd(p, "opreturn", h)
    BY <1>0, <1>6 DEF ApplySp, ParseSp
  <2> HIDE DEF t, q
  <2>2. /\ t.events = Append(s.events, ev("opreturn"))
        /\ t.NPOINTS = s.NPOINTS /\ t.NOTARIZED_HEIGHT = s.NOTARIZED_HEIGHT
        /\ t.NOTARIZED_HASH = s.NOTARIZED_HASH /\ t.MoM = s.MoM /\ t.SAVEDHEIGHT = s.SAVEDHEIGHT
    BY <1>0, <2>1, EventAddFacts DEF ev
  <2>3. /\ q.events = Append(p.events, ev("opreturn"))
        /\ q.NPOINTS = p.NPOINTS /\ q.NOTARIZED_HEIGHT = p.NOTARIZED_HEIGHT
        /\ q.NOTARIZED_HASH = p.NOTARIZED_HASH /\ q.MoM = p.MoM /\ q.SAVEDHEIGHT = p.SAVEDHEIGHT
    BY <1>0, <2>1, EventAddFacts DEF ev
  <2>4. Drops(t.events, q.events)
    BY <1>3, <2>2, <2>3
  <2>5. Follows(t, q)
    BY <1>1, <2>2, <2>3, <2>4 DEF Follows
  <2> QED
    BY <2>5 DEF t, q
<1>7. CASE r.func \in {"M", "N"}
  <2> DEFINE a == EventAdd(s, "notarized", h)
             c == EventAdd(p, "notarized", h)
             m == IF r.func = "M" THEN r.MoM ELSE 0
             n == [height |-> r.notarized, hash |-> r.hash, MoM |-> m]
  <2>1. t = NotarizedUpdate(a, h, n) /\ q = NotarizedUpdate(c, h, n)
    BY <1>0, <1>7 DEF ApplySp, ParseSp, EventAddNotarized
  <2>2. /\ a \in State /\ a.events = Append(s.events, ev("notarized"))
        /\ a.NPOINTS = s.NPOINTS /\ a.SAVEDHEIGHT = s.SAVEDHEIGHT
    BY <1>0, EventAddFacts DEF ev
  <2>3. /\ c \in State /\ c.events = Append(p.events, ev("notarized"))
        /\ c.NPOINTS = p.NPOINTS /\ c.SAVEDHEIGHT = p.SAVEDHEIGHT
    BY <1>0, EventAddFacts DEF ev
  <2>4. n.height \in Nat /\ n.hash \in Hash /\ n.MoM \in Root /\ n.height < h
    BY <1>0, <1>7, RecordFacts DEF Root, Legal
  <2> HIDE DEF a, c, n, t, q
  <2>5. Notarised(a, t, h, n) /\ Notarised(c, q, h, n)
    BY <1>0, <2>1, <2>2, <2>3, <2>4, NotarizedUpdateIs
  <2>6. /\ t.events = a.events /\ t.NPOINTS = Append(a.NPOINTS, PointOf(h, n))
        /\ t.NOTARIZED_HEIGHT = n.height /\ t.NOTARIZED_HASH = n.hash /\ t.MoM = n.MoM
        /\ t.SAVEDHEIGHT = a.SAVEDHEIGHT
        /\ q.events = c.events /\ q.NPOINTS = Append(c.NPOINTS, PointOf(h, n))
        /\ q.NOTARIZED_HEIGHT = n.height /\ q.NOTARIZED_HASH = n.hash /\ q.MoM = n.MoM
        /\ q.SAVEDHEIGHT = c.SAVEDHEIGHT
    BY <2>5, Zenon DEF Notarised
  <2>7. Drops(t.events, q.events)
    BY <1>3, <2>2, <2>3, <2>6
  <2>8. q.NPOINTS = t.NPOINTS /\ q.SAVEDHEIGHT = t.SAVEDHEIGHT
    BY <1>1, <2>2, <2>3, <2>6, Zenon
  <2>9. Follows(t, q)
    BY <2>6, <2>7, <2>8, Zenon DEF Follows
  <2> QED
    BY <2>9 DEF t, q
<1> QED
  BY <1>0, <1>4, <1>5, <1>6, <1>7

(* A state that is fit to go on from, s0 being an earlier one. *)
Sound(s0, s) == Rising(s) /\ Bounded(s) /\ Grows(s0, s)

(* What follows a sound state is sound. *)
LEMMA FollowsSound ==
  ASSUME NEW s0, NEW s \in State, NEW p \in State, Follows(s, p), Sound(s0, s)
  PROVE  Sound(s0, p) /\ NoRatify(p.events)
<1>1. /\ Drops(s.events, p.events)
      /\ p.NPOINTS = s.NPOINTS /\ p.NOTARIZED_HEIGHT = s.NOTARIZED_HEIGHT
      /\ p.SAVEDHEIGHT = s.SAVEDHEIGHT
  BY DEF Follows
<1>2. Rising(p) /\ Grows(s0, p)
  BY <1>1 DEF Sound, Rising, Grows
<1>3. s.events \in Seq(Event) /\ p.events \in Seq(Event)
  BY DEF State
<1>4. /\ NoRatify(p.events)
      /\ \A i \in 1..Len(p.events) : \E j \in 1..Len(s.events) : p.events[i] = s.events[j]
  BY <1>1, <1>3, DropsFacts
<1>5. Bounded(p)
  BY <1>1, <1>4 DEF Sound, Bounded
<1> QED
  BY <1>2, <1>4, <1>5 DEF Sound

(* Settled lists: an event of the height of the last one settles it. *)
LEMMA SettledAppend ==
  ASSUME NEW events \in Seq(Event), NEW h \in Nat, NEW e \in Event, e.height = h,
         SettledUpTo(events, h)
  PROVE  /\ SettledUpTo(Append(events, e), h)
         /\ e.type # "ratify" => Settled(Append(events, e))
<1> DEFINE more == Append(events, e)
           n == Len(events)
<1>1. /\ n \in Nat /\ Len(more) = n + 1 /\ more[n + 1] = e
      /\ \A i \in 1..n : more[i] = events[i]
  OBVIOUS
<1>2. \A i \in 1..n : events[i].type = "ratify" =>
        \/ i < n /\ events[i + 1].height = events[i].height
        \/ i = n /\ events[i].height = h
  BY DEF SettledUpTo
<1> HIDE DEF more, n
<1>3. ASSUME NEW i \in 1..n, more[i].type = "ratify"
      PROVE  i < n + 1 /\ more[i + 1].height = more[i].height
  <2>1. CASE i < n /\ events[i + 1].height = events[i].height
    <3>1. i + 1 \in 1..n
      BY <1>1, <2>1
    <3> QED
      BY <1>1, <2>1, <3>1
  <2>2. CASE i = n /\ events[i].height = h
    BY <1>1, <2>2
  <2> QED
    BY <1>1, <1>2, <1>3, <2>1, <2>2
<1>4. \A i \in 1..n + 1 : i \in 1..n \/ i = n + 1
  BY <1>1
<1>5. SettledUpTo(more, h)
  BY <1>1, <1>3, <1>4 DEF SettledUpTo
<1>6. e.type # "ratify" => Settled(more)
  BY <1>1, <1>3, <1>4 DEF Settled
<1> QED
  BY <1>5, <1>6 DEF more

(* A rewind does not cut between a ratification and the event after it. *)
LEMMA SettledRewind ==
  ASSUME NEW events \in Seq(Event), NEW h \in Nat, Settled(events)
  PROVE  Settled(SubSeq(events, 1, Keeps(events, h)))
<1> DEFINE n == Len(events)
           k == Keeps(events, h)
           kept == SubSeq(events, 1, k)
<1>0. n \in Nat /\ \A i \in 1..n : events[i].height \in Nat
  BY EventsFacts
<1>1. /\ k \in 0..n /\ (k # 0 => events[k].height < h)
      /\ \A i \in 1..n : events[i].height < h => i =< k
  BY KeepsFacts
<1>2. \A i \in 1..n : events[i].type = "ratify" => i < n /\ events[i + 1].height = events[i].height
  BY DEF Settled
<1> HIDE DEF k
<1>3. Len(kept) = k /\ \A i \in 1..k : kept[i] = events[i]
  BY <1>1
<1> HIDE DEF n, kept
<1>4. ASSUME NEW i \in 1..k, kept[i].type = "ratify"
      PROVE  i < k /\ kept[i + 1].height = kept[i].height
  <2>1. i \in 1..n /\ i < n /\ events[i + 1].height = events[i].height /\ i + 1 \in 1..n
    BY <1>0, <1>1, <1>2, <1>3, <1>4
  <2>2. i # k
    BY <1>0, <1>1, <2>1
  <2>3. i < k /\ i + 1 \in 1..k
    BY <1>1, <2>2
  <2> QED
    BY <1>3, <2>1, <2>3
<1>5. Settled(kept)
  BY <1>3, <1>4 DEF Settled
<1> QED
  BY <1>5 DEF kept, k

(* A settled list is settled while a block is scanned. *)
LEMMA SettledIsUpTo ==
  ASSUME NEW events, Settled(events), NEW h
  PROVE  SettledUpTo(events, h)
BY DEF Settled, SettledUpTo

-----------------------------------------------------------------------------
(* The order of events *)

(* Events in the order of heights, none above h. *)
Low(events, h) ==
  /\ \A i \in 1..Len(events) - 1 : events[i].height =< events[i + 1].height
  /\ \A i \in 1..Len(events) : events[i].height =< h

(* Neighbours in order are all in order. *)
LEMMA AllOrdered ==
  ASSUME NEW n \in Nat, NEW g, \A k \in 1..n : g[k] \in Nat,
         \A k \in 1..n - 1 : g[k] =< g[k + 1],
         NEW i \in 1..n, NEW j \in 1..n, i =< j
  PROVE  g[i] =< g[j]
<1> DEFINE Bad == {m \in Nat : m \in i..n /\ ~(g[i] =< g[m])}
<1>1. Bad = {}
  <2> SUFFICES ASSUME Bad # {} PROVE FALSE
    OBVIOUS
  <2>1. PICK m \in Bad : \A l \in Bad : m =< l
    <3> HIDE DEF Bad
    <3>1. Bad \in SUBSET Nat
      BY DEF Bad
    <3> QED
      BY <3>1, LeastNatural
  <2>2. m # i /\ m \in Nat /\ m \in i..n /\ ~(g[i] =< g[m])
    BY <2>1
  <2>3. m - 1 \in Nat /\ m - 1 \in i..n /\ m - 1 \in 1..n - 1
    BY <2>2
  <2>4. m - 1 \notin Bad
    <3> HIDE DEF Bad
    <3> QED
      BY <2>1, <2>2, <2>3
  <2>5. g[i] =< g[m - 1]
    BY <2>3, <2>4
  <2>6. g[m - 1] =< g[m - 1 + 1] /\ m - 1 + 1 = m
    BY <2>2, <2>3
  <2>7. g[m] \in Nat /\ g[m - 1] \in Nat /\ g[i] \in Nat
    BY <2>2, <2>3
  <2> QED
    BY <2>2, <2>5, <2>6, <2>7
<1>2. j \in Nat /\ j \in i..n /\ j \notin Bad
  BY <1>1
<1> QED
  BY <1>2

(* So are the first n events. *)
LEMMA OrderedPairs ==
  ASSUME NEW events \in Seq(Event), NEW n \in 0..Len(events),
         \A k \in 1..n - 1 : events[k].height =< events[k + 1].height,
         NEW i \in 1..n, NEW j \in 1..n, i =< j
  PROVE  events[i].height =< events[j].height
<1> DEFINE g == [k \in 1..n |-> events[k].height]
<1>1. n \in Nat /\ \A k \in 1..n : events[k].height \in Nat
  <2>1. /\ Len(events) \in Nat /\ \A k \in 1..Len(events) : events[k].height \in Nat
    BY EventsFacts
  <2> QED
    BY <2>1
<1>2. \A k \in 1..n : g[k] = events[k].height /\ g[k] \in Nat
  BY <1>1
<1>3. \A k \in 1..n - 1 : k \in 1..n /\ k + 1 \in 1..n
  BY <1>1
<1> HIDE DEF g
<1>4. \A k \in 1..n - 1 : g[k] =< g[k + 1]
  BY <1>2, <1>3
<1>5. g[i] =< g[j]
  BY <1>1, <1>2, <1>4, AllOrdered
<1> QED
  BY <1>2, <1>5

(* An event of height h goes behind the events of lower heights. *)
LEMMA OrderAppend ==
  ASSUME NEW events \in Seq(Event), NEW h \in Nat \ {0}, NEW e \in Event, e.height = h
  PROVE  /\ Low(events, h) => Low(Append(events, e), h)
         /\ Tidy(events, h - 1) => Tidy(Append(events, e), h - 1)
<1> DEFINE more == Append(events, e)
           n == Len(events)
<1>1. /\ n \in Nat /\ Len(more) = n + 1 /\ more[n + 1] = e
      /\ \A i \in 1..n : more[i] = events[i]
  OBVIOUS
<1> HIDE DEF more, n
<1>2. ASSUME Low(events, h) PROVE Low(more, h)
  <2>1. /\ \A i \in 1..n - 1 : events[i].height =< events[i + 1].height
        /\ \A i \in 1..n : events[i].height =< h
    BY <1>2 DEF Low, n
  <2>2. ASSUME NEW i \in 1..n PROVE more[i].height =< more[i + 1].height
    <3>1. CASE i = n
      BY <1>1, <2>1, <3>1
    <3>2. CASE i # n
      <4>1. i \in 1..n - 1 /\ i + 1 \in 1..n
        BY <1>1, <3>2
      <4> QED
        BY <1>1, <2>1, <4>1
    <3> QED
      BY <3>1, <3>2
  <2>3. \A i \in 1..n + 1 : more[i].height =< h
    <3>1. \A i \in 1..n + 1 : i \in 1..n \/ i = n + 1
      BY <1>1
    <3> QED
      BY <1>1, <2>1, <3>1
  <2>4. Len(more) - 1 = n
    BY <1>1
  <2> QED
    BY <1>1, <2>2, <2>3, <2>4 DEF Low
<1>3. ASSUME Tidy(events, h - 1) PROVE Tidy(more, h - 1)
  <2>1. PICK m \in 0..n : /\ \A i \in 1..m : events[i].height =< h - 1
                          /\ \A i \in 1..m - 1 : events[i].height =< events[i + 1].height
                          /\ \A i \in m + 1..n : events[i].height > h - 1
    BY <1>3 DEF Tidy, n
  <2>2. m \in 0..n + 1
    BY <1>1
  <2>3. \A i \in 1..m : i \in 1..n /\ more[i].height =< h - 1
    BY <1>1, <2>1
  <2>4. \A i \in 1..m - 1 : more[i].height =< more[i + 1].height
    <3>1. \A i \in 1..m - 1 : i \in 1..n /\ i + 1 \in 1..n
      BY <1>1
    <3> QED
      BY <1>1, <2>1, <3>1
  <2>5. \A i \in m + 1..n + 1 : more[i].height > h - 1
    <3>1. \A i \in m + 1..n + 1 : (i \in m + 1..n /\ i \in 1..n) \/ i = n + 1
      BY <1>1
    <3>2. h > h - 1
      OBVIOUS
    <3> QED
      BY <1>1, <2>1, <3>1, <3>2
  <2> QED
    BY <1>1, <2>2, <2>3, <2>4, <2>5 DEF Tidy
<1> QED
  BY <1>2, <1>3 DEF more

(* A rewind to height h takes away all of what is behind lower heights. *)
LEMMA OrderRewind ==
  ASSUME NEW events \in Seq(Event), NEW h \in Nat \ {0}, Tidy(events, h - 1)
  PROVE  Low(SubSeq(events, 1, Keeps(events, h)), h)
<1> DEFINE n == Len(events)
           k == Keeps(events, h)
           kept == SubSeq(events, 1, k)
<1>0. n \in Nat /\ \A i \in 1..n : events[i].height \in Nat
  BY EventsFacts
<1>1. /\ k \in 0..n /\ (k # 0 => events[k].height < h)
      /\ \A i \in 1..n : events[i].height < h => i =< k
  BY KeepsFacts
<1>2. PICK m \in 0..n : /\ \A i \in 1..m : events[i].height =< h - 1
                        /\ \A i \in 1..m - 1 : events[i].height =< events[i + 1].height
                        /\ \A i \in m + 1..n : events[i].height > h - 1
  BY DEF Tidy
<1> HIDE DEF k
<1>3. Len(kept) = k /\ \A i \in 1..k : kept[i] = events[i]
  BY <1>1
<1> HIDE DEF n, kept
<1>4. k =< m
  <2> SUFFICES ASSUME ~(k =< m) PROVE FALSE
    OBVIOUS
  <2>1. k \in m + 1..n /\ k \in 1..n /\ k # 0
    BY <1>0, <1>1, <1>2
  <2> QED
    BY <1>0, <1>1, <1>2, <2>1
<1>5. \A i \in 1..k : i \in 1..m /\ i \in 1..n
  BY <1>0, <1>1, <1>4
<1>6. \A i \in 1..k : kept[i].height =< h
  BY <1>0, <1>2, <1>3, <1>5
<1>7. \A i \in 1..k - 1 : kept[i].height =< kept[i + 1].height
  <2>1. \A i \in 1..k - 1 : i \in 1..k /\ i + 1 \in 1..k /\ i \in 1..m - 1
    BY <1>0, <1>1, <1>4
  <2> QED
    BY <1>2, <1>3, <2>1
<1>8. Low(kept, h)
  BY <1>3, <1>6, <1>7 DEF Low
<1> QED
  BY <1>8 DEF kept, k

(* A low list is tidy. *)
LEMMA LowIsTidy ==
  ASSUME NEW events \in Seq(Event), NEW h \in Nat, Low(events, h)
  PROVE  Tidy(events, h)
<1> DEFINE n == Len(events)
<1>1. n \in Nat /\ n \in 0..n /\ \A i \in n + 1..n : FALSE
  OBVIOUS
<1>2. /\ \A i \in 1..n : events[i].height =< h
      /\ \A i \in 1..n - 1 : events[i].height =< events[i + 1].height
  BY DEF Low
<1> QED
  BY <1>1, <1>2 DEF Tidy

(* A tidy list that ends with a low event is low. *)
LEMMA TidyIsLow ==
  ASSUME NEW events \in Seq(Event), NEW g \in Nat, Tidy(events, g),
         Len(events) # 0, events[Len(events)].height =< g
  PROVE  Low(events, g + 1)
<1> DEFINE n == Len(events)
<1>0. n \in Nat /\ n # 0 /\ (\A i \in 1..n : events[i].height \in Nat) /\ events[n].height =< g
  BY EventsFacts
<1>1. PICK m \in 0..n : /\ \A i \in 1..m : events[i].height =< g
                        /\ \A i \in 1..m - 1 : events[i].height =< events[i + 1].height
                        /\ \A i \in m + 1..n : events[i].height > g
  BY DEF Tidy
<1> HIDE DEF n
<1>2. m = n
  <2> SUFFICES ASSUME m # n PROVE FALSE
    OBVIOUS
  <2>1. n \in m + 1..n /\ n \in 1..n
    BY <1>0, <1>1
  <2> QED
    BY <1>0, <1>1, <2>1
<1>3. \A i \in 1..n : events[i].height =< g + 1
  BY <1>0, <1>1, <1>2
<1> QED
  BY <1>1, <1>2, <1>3 DEF Low, n

(* What is in order up to a height is in order up to a lower one. *)
LEMMA TidyLower ==
  ASSUME NEW events \in Seq(Event), NEW g \in Nat, Tidy(events, g + 1)
  PROVE  Tidy(events, g)
<1> DEFINE n == Len(events)
           h == g + 1
           k == Keeps(events, h)
<1>0. n \in Nat /\ h \in Nat /\ \A i \in 1..n : events[i].height \in Nat
  BY EventsFacts
<1>1. /\ k \in 0..n /\ (k # 0 => events[k].height < h)
      /\ \A i \in 1..n : events[i].height < h => i =< k
  BY <1>0, KeepsFacts
<1>2. PICK m \in 0..n : /\ \A i \in 1..m : events[i].height =< h
                        /\ \A i \in 1..m - 1 : events[i].height =< events[i + 1].height
                        /\ \A i \in m + 1..n : events[i].height > h
  BY DEF Tidy
<1> HIDE DEF k
<1>3. k =< m
  <2> SUFFICES ASSUME ~(k =< m) PROVE FALSE
    OBVIOUS
  <2>1. k \in m + 1..n /\ k \in 1..n /\ k # 0
    BY <1>0, <1>1, <1>2
  <2> QED
    BY <1>0, <1>1, <1>2, <2>1
<1>4. \A i \in 1..k : events[i].height =< g
  <2> SUFFICES ASSUME NEW i \in 1..k PROVE events[i].height =< g
    OBVIOUS
  <2>1. i \in 1..m /\ k \in 1..m /\ i =< k /\ i \in 1..n /\ k \in 1..n /\ k # 0
    BY <1>0, <1>1, <1>2, <1>3
  <2>2. events[i].height =< events[k].height
    BY <1>2, <2>1, OrderedPairs
  <2> QED
    BY <1>0, <1>1, <2>1, <2>2
<1>5. \A i \in 1..k - 1 : events[i].height =< events[i + 1].height
  <2>1. \A i \in 1..k - 1 : i \in 1..m - 1
    BY <1>1, <1>2, <1>3
  <2> QED
    BY <1>2, <2>1
<1>6. \A i \in k + 1..n : events[i].height > g
  <2> SUFFICES ASSUME NEW i \in k + 1..n PROVE events[i].height > g
    OBVIOUS
  <2>1. i \in 1..n /\ ~(i =< k)
    BY <1>0, <1>1
  <2> QED
    BY <1>0, <1>1, <2>1
<1> QED
  BY <1>1, <1>4, <1>5, <1>6 DEF Tidy

-----------------------------------------------------------------------------
(* Connecting a block *)

(* Store st is what legal records of height h make of state s0 and file f0; *)
(* wherever the process dies on the way, the state replayed is sound.       *)
Reached(f0, s0, st, h) ==
  /\ st \in Store
  /\ Follows(st.sp, Replay(st.file).sp)
  /\ Sound(s0, st.sp) /\ Fixed(s0, st.sp, h) /\ SettledUpTo(st.sp.events, h)
  /\ Unowned(st.file, st.kv) /\ Agree(st.file, st.kv, Replay(st.file).kv)
  /\ Len(f0) =< Len(st.file)
  /\ \A n \in Len(f0)..Len(st.file) :
       /\ Sound(s0, Replay(SubSeq(st.file, 1, n)).sp)
       /\ NoRatify(Replay(SubSeq(st.file, 1, n)).sp.events)

(* The parts of a store reached. *)
LEMMA ReachedTypes ==
  ASSUME NEW f0, NEW s0, NEW st, NEW h, Reached(f0, s0, st, h)
  PROVE  /\ st \in Store /\ st.sp \in State /\ st.kv \in KvStore /\ st.file \in Seq(Record)
         /\ st.sp.events \in Seq(Event)
<1>1. st \in Store
  BY DEF Reached
<1>2. st.sp \in State /\ st.kv \in KvStore /\ st.file \in Seq(Record)
  BY <1>1 DEF Store
<1> QED
  BY <1>1, <1>2 DEF State

(* One more record. *)
LEMMA ReachedStep ==
  ASSUME NEW f0 \in Seq(Record), NEW s0 \in State, NEW st, NEW t, NEW r,
         NEW h \in Nat \ {0}, h \in Heights,
         Reached(f0, s0, st, h), Legal(st.sp, r, h), Applies(st, t, r),
         IsRewind(r) => Settled(st.sp.events)
  PROVE  /\ Reached(f0, s0, t, h) /\ Effect(st.sp, t.sp, r, h)
         /\ r.func # "P" /\ ~IsRewind(r) => Settled(t.sp.events)
         /\ IsRewind(r) => Settled(t.sp.events)
<1> DEFINE rep == Replay(st.file)
<1>1. /\ st.sp \in State /\ st.kv \in KvStore /\ st.file \in Seq(Record)
      /\ st.sp.events \in Seq(Event)
  BY ReachedTypes
<1>2. /\ t \in Store /\ t.sp = ApplySp(st.sp, r) /\ t.kv = ParseKv(st.kv, r)
      /\ t.file = Append(st.file, r) /\ r \in Record
  BY DEF Applies, Legal
<1>3. rep \in [sp : State, kv : KvStore] /\ Unowned(st.file, rep.kv)
  BY <1>1, ReplayTypes
<1>4. Replay(t.file) = Parse(rep, r)
  BY <1>1, <1>2, ReplayAppend
<1>5. Parse(rep, r) = [sp |-> ParseSp(rep.sp, r), kv |-> ParseKv(rep.kv, r)]
  BY <1>2, <1>3, ParseIs
<1>6. /\ Follows(st.sp, rep.sp) /\ Sound(s0, st.sp) /\ Fixed(s0, st.sp, h)
      /\ SettledUpTo(st.sp.events, h)
      /\ Unowned(st.file, st.kv) /\ Agree(st.file, st.kv, rep.kv)
  BY DEF Reached
<1>7. rep.kv \in KvStore /\ rep.sp \in State
  BY <1>3
<1> HIDE DEF rep
<1>8. Replay(t.file).sp = ParseSp(rep.sp, r) /\ Replay(t.file).kv = ParseKv(rep.kv, r)
  BY <1>4, <1>5
<1>9. Unowned(t.file, t.kv)
  BY <1>1, <1>2, <1>6, UnownedStep
<1>10. Agree(t.file, t.kv, Replay(t.file).kv)
  BY <1>1, <1>2, <1>3, <1>6, <1>7, <1>8, AgreeStep
<1>11. Effect(st.sp, t.sp, r, h) /\ t.sp \in State
  <2>1. Effect(st.sp, ApplySp(st.sp, r), r, h)
    BY <1>1, ApplySpFacts
  <2> QED
    BY <1>2, <2>1 DEF Effect
<1>12. Sound(s0, t.sp)
  <2>1. Rising(t.sp) /\ Grows(st.sp, t.sp)
    BY <1>1, <1>2, <1>6, LegalRises DEF Sound
  <2>2. Bounded(t.sp)
    BY <1>1, <1>2, <1>6, LegalBounded DEF Sound
  <2>3. Grows(s0, t.sp)
    BY <1>1, <1>6, <1>11, <2>1, GrowsTransitive DEF Sound
  <2> QED
    BY <2>1, <2>2, <2>3 DEF Sound
<1>13. Fixed(s0, t.sp, h)
  BY <1>6, <1>11 DEF Effect, Fixed
<1>14. Follows(t.sp, Replay(t.file).sp)
  BY <1>1, <1>2, <1>6, <1>7, <1>8, FollowsStep
<1>15. /\ SettledUpTo(t.sp.events, h)
       /\ r.func # "P" /\ ~IsRewind(r) => Settled(t.sp.events)
       /\ IsRewind(r) => Settled(t.sp.events)
  <2>1. CASE IsRewind(r)
    <3>1. t.sp.events = SubSeq(st.sp.events, 1, Keeps(st.sp.events, h))
      BY <1>11, <2>1 DEF Effect
    <3>2. Settled(t.sp.events)
      BY <1>1, <2>1, <3>1, SettledRewind
    <3> QED
      BY <2>1, <3>2, SettledIsUpTo
  <2>2. CASE ~IsRewind(r)
    <3>1. PICK e \in Event : /\ e.height = h /\ (e.type = "ratify" <=> r.func = "P")
                             /\ t.sp.events = Append(st.sp.events, e)
      BY <1>11, <2>2 DEF Effect
    <3>2. h \in Nat
      OBVIOUS
    <3>3. /\ SettledUpTo(Append(st.sp.events, e), h)
          /\ e.type # "ratify" => Settled(Append(st.sp.events, e))
      BY <1>1, <1>6, <3>1, <3>2, SettledAppend
    <3> QED
      BY <2>2, <3>1, <3>3
  <2> QED
    BY <2>1, <2>2
<1>16. Sound(s0, Replay(t.file).sp) /\ NoRatify(Replay(t.file).sp.events)
  <2>1. ParseSp(rep.sp, r) \in State
    BY <1>2, <1>7, ApplySpType
  <2> QED
    BY <1>8, <1>11, <1>12, <1>14, <2>1, FollowsSound
<1>17. /\ Len(t.file) = Len(st.file) + 1 /\ Len(st.file) \in Nat /\ Len(f0) \in Nat
       /\ Len(f0) =< Len(st.file)
  BY <1>1, <1>2 DEF Reached
<1>18. ASSUME NEW n \in Len(f0)..Len(t.file)
       PROVE  /\ Sound(s0, Replay(SubSeq(t.file, 1, n)).sp)
              /\ NoRatify(Replay(SubSeq(t.file, 1, n)).sp.events)
  <2>1. CASE n = Len(t.file)
    <3>1. SubSeq(t.file, 1, n) = t.file
      BY <1>1, <1>2, <1>17, <2>1
    <3> QED
      BY <1>16, <3>1
  <2>2. CASE n # Len(t.file)
    <3>1. n \in Len(f0)..Len(st.file) /\ n \in Nat /\ n =< Len(st.file)
      BY <1>17, <2>2
    <3>2. SubSeq(t.file, 1, n) = SubSeq(st.file, 1, n)
      BY <1>1, <1>2, <1>17, <3>1
    <3> QED
      BY <3>1, <3>2 DEF Reached
  <2> QED
    BY <2>1, <2>2
<1>19. Len(f0) =< Len(t.file)
  BY <1>17
<1>20. Reached(f0, s0, t, h)
  BY <1>2, <1>9, <1>10, <1>12, <1>13, <1>14, <1>15, <1>18, <1>19 DEF Reached
<1> QED
  BY <1>11, <1>15, <1>20

(* Where connecting a block starts. *)
LEMMA ReachedStart ==
  ASSUME IInv, NEW h
  PROVE  Reached(file, sp, [sp |-> sp, kv |-> kv, file |-> file], h)
<1> DEFINE st == [sp |-> sp, kv |-> kv, file |-> file]
<1>1. st \in Store /\ st.sp = sp /\ st.kv = kv /\ st.file = file
  BY DEF IInv, Store
<1>2. file \in Seq(Record) /\ Len(file) \in Nat /\ sp \in State
  BY DEF IInv
<1>3. Sound(sp, sp)
  BY <1>2, GrowsReflexive DEF Sound, IInv
<1>4. Fixed(sp, sp, h) /\ SettledUpTo(sp.events, h)
  BY SettledIsUpTo DEF IInv, Fixed
<1>5. Sound(sp, Replay(file).sp) /\ NoRatify(Replay(file).sp.events)
  <2>1. Replay(file) \in [sp : State, kv : KvStore]
    BY <1>2, ReplayTypes
  <2>2. Replay(file).sp \in State
    BY <2>1
  <2> QED
    BY <1>2, <1>3, <2>2, FollowsSound DEF IInv
<1> HIDE DEF st
<1>6. ASSUME NEW n \in Len(file)..Len(file)
      PROVE  /\ Sound(sp, Replay(SubSeq(file, 1, n)).sp)
             /\ NoRatify(Replay(SubSeq(file, 1, n)).sp.events)
  <2>1. SubSeq(file, 1, n) = file
    BY <1>2
  <2> QED
    BY <1>5, <2>1
<1>7. Reached(file, sp, st, h)
  BY <1>1, <1>2, <1>3, <1>4, <1>6 DEF Reached, IInv
<1> QED
  BY <1>7 DEF st

(* The rewind of a reorganised height. *)
LEMMA RewindStep ==
  ASSUME NEW f0 \in Seq(Record), NEW s0 \in State, NEW st,
         NEW h \in Nat \ {0}, h \in Heights, Reached(f0, s0, st, h), Settled(st.sp.events)
  PROVE  LET t == WriteRewind(st, h) IN
         /\ Reached(f0, s0, t, h) /\ Settled(t.sp.events)
         /\ Tidy(st.sp.events, h - 1) => Low(t.sp.events, h)
<1> DEFINE t == WriteRewind(st, h)
<1>1. st \in Store /\ st.sp.events \in Seq(Event)
  BY ReachedTypes
<1>2. PICK r : Legal(st.sp, r, h) /\ IsRewind(r) /\ Applies(st, t, r)
  BY <1>1, WriteRewindFacts
<1> HIDE DEF t
<1>3. Reached(f0, s0, t, h) /\ Effect(st.sp, t.sp, r, h) /\ Settled(t.sp.events)
  BY <1>2, ReachedStep
<1>4. t.sp.events = SubSeq(st.sp.events, 1, Keeps(st.sp.events, h))
  BY <1>2, <1>3 DEF Effect
<1>5. Tidy(st.sp.events, h - 1) => Low(t.sp.events, h)
  BY <1>1, <1>4, OrderRewind
<1> QED
  BY <1>3, <1>5 DEF t

(* Any other record. *)
LEMMA RecordStep ==
  ASSUME NEW f0 \in Seq(Record), NEW s0 \in State, NEW st, NEW t, NEW r,
         NEW h \in Nat \ {0}, h \in Heights,
         Reached(f0, s0, st, h), Legal(st.sp, r, h), ~IsRewind(r), Applies(st, t, r)
  PROVE  /\ Reached(f0, s0, t, h)
         /\ Low(st.sp.events, h) => Low(t.sp.events, h)
         /\ Tidy(st.sp.events, h - 1) => Tidy(t.sp.events, h - 1)
         /\ r.func # "P" => Settled(t.sp.events)
         /\ \E e \in Event : e.height = h /\ t.sp.events = Append(st.sp.events, e)
<1>1. st.sp.events \in Seq(Event)
  BY ReachedTypes
<1>2. /\ Reached(f0, s0, t, h) /\ Effect(st.sp, t.sp, r, h)
      /\ r.func # "P" => Settled(t.sp.events)
  BY ReachedStep
<1>3. PICK e \in Event : e.height = h /\ t.sp.events = Append(st.sp.events, e)
  BY <1>2 DEF Effect
<1>4. /\ Low(st.sp.events, h) => Low(t.sp.events, h)
      /\ Tidy(st.sp.events, h - 1) => Tidy(t.sp.events, h - 1)
  BY <1>1, <1>3, OrderAppend
<1> QED
  BY <1>2, <1>3, <1>4

(* The stores that a scan goes through. *)
ScanStep(st, b, i, ibd, check) ==
  IF Scanned(Outputs[b][i], check)
  THEN VoutUpdate(st, Height[b], Outputs[b][i], ibd, check) ELSE st

IsScan(st, b, ibd, check, f) ==
  f = [i \in 0..Len(Outputs[b]) |->
         IF i = 0 THEN st ELSE ScanStep(f[i - 1], b, i, ibd, check)]

(* There is such a function. *)
LEMMA ScanExists ==
  ASSUME NEW b \in Blocks, NEW ibd, NEW check, NEW st
  PROVE  \E f : IsScan(st, b, ibd, check, f)
<1> DEFINE Step(u, i) == ScanStep(u, b, i, ibd, check)
           Partial(n, f) == f = [i \in 0..n |-> IF i = 0 THEN st ELSE Step(f[i - 1], i)]
           Bad == {n \in Nat : ~\E f : Partial(n, f)}
<1> HIDE DEF Step
<1>1. Bad = {}
  <2> SUFFICES ASSUME Bad # {} PROVE FALSE
    OBVIOUS
  <2>1. PICK n \in Bad : \A m \in Bad : n =< m
    <3> HIDE DEF Bad
    <3>1. Bad \in SUBSET Nat
      BY DEF Bad
    <3> QED
      BY <3>1, LeastNatural
  <2>2. Partial(0, [i \in 0..0 |-> st])
    OBVIOUS
  <2>3. n \in Nat /\ n # 0
    BY <2>1, <2>2
  <2>4. n - 1 \in Nat /\ n - 1 \notin Bad
    <3> HIDE DEF Bad
    <3> QED
      BY <2>1, <2>3
  <2>5. PICK f : Partial(n - 1, f)
    BY <2>4
  <2> DEFINE g == [i \in 0..n |-> IF i = n THEN Step(f[n - 1], n) ELSE f[i]]
  <2>6. \A i \in 0..n : g[i] = IF i = 0 THEN st ELSE Step(g[i - 1], i)
    <3> SUFFICES ASSUME NEW i \in 0..n
                 PROVE  g[i] = IF i = 0 THEN st ELSE Step(g[i - 1], i)
      OBVIOUS
    <3>1. CASE i = n
      <4>1. g[i] = Step(f[n - 1], n) /\ g[n - 1] = f[n - 1]
        BY <2>3, <3>1
      <4> QED
        BY <2>3, <3>1, <4>1
    <3>2. CASE i # n
      <4>1. i \in 0..n - 1
        BY <2>3, <3>2
      <4>2. f[i] = IF i = 0 THEN st ELSE Step(f[i - 1], i)
        BY <2>5, <4>1
      <4>3. g[i] = f[i] /\ (i # 0 => g[i - 1] = f[i - 1])
        BY <2>3, <3>2, <4>1
      <4> QED
        BY <4>2, <4>3
    <3> QED
      BY <3>1, <3>2
  <2>7. Partial(n, g)
    <3> HIDE DEF g
    <3>1. g = [i \in 0..n |-> g[i]]
      BY DEF g
    <3> QED
      BY <2>6, <3>1
  <2> QED
    BY <2>1, <2>7
<1>2. Len(Outputs[b]) \in Nat /\ Len(Outputs[b]) \notin Bad
  BY <1>1, KomodoAssumption
<1> QED
  BY <1>2 DEF IsScan, Step

(* A scan takes the outputs one by one. *)
LEMMA ScanIs ==
  ASSUME NEW b \in Blocks, NEW ibd, NEW check, NEW st
  PROVE  \E f : IsScan(st, b, ibd, check, f) /\ Scan(st, b, ibd, check) = f[Len(Outputs[b])]
<1> DEFINE f == CHOOSE applied : IsScan(st, b, ibd, check, applied)
<1>1. IsScan(st, b, ibd, check, f)
  BY ScanExists
<1>2. Scan(st, b, ibd, check) = f[Len(Outputs[b])]
  BY DEF Scan, IsScan, ScanStep
<1> QED
  BY <1>1, <1>2

(* What a scan keeps. *)
LEMMA ScanFacts ==
  ASSUME NEW b \in Blocks, NEW ibd, NEW check \in BOOLEAN,
         NEW f0 \in Seq(Record), NEW s0 \in State, NEW st, Reached(f0, s0, st, Height[b])
  PROVE  LET t == Scan(st, b, ibd, check)
             h == Height[b]
         IN /\ Reached(f0, s0, t, h)
            /\ Low(st.sp.events, h) => Low(t.sp.events, h)
            /\ Tidy(st.sp.events, h - 1) => Tidy(t.sp.events, h - 1)
            /\ check /\ Settled(st.sp.events) => Settled(t.sp.events)
<1> DEFINE h == Height[b]
           n == Len(Outputs[b])
           Kept(u) == /\ Reached(f0, s0, u, h)
                      /\ Low(st.sp.events, h) => Low(u.sp.events, h)
                      /\ Tidy(st.sp.events, h - 1) => Tidy(u.sp.events, h - 1)
                      /\ check /\ Settled(st.sp.events) => Settled(u.sp.events)
<1>0. h \in Nat \ {0} /\ h \in Heights /\ n \in Nat
  BY HeightFacts, KomodoAssumption
<1>1. Kept(st)
  OBVIOUS
<1>2. ASSUME NEW u, Kept(u), NEW i \in 1..n
      PROVE  Kept(ScanStep(u, b, i, ibd, check))
  <2> DEFINE v == ScanStep(u, b, i, ibd, check)
  <2>1. u \in Store
    BY <1>2, ReachedTypes
  <2>2. v = u \/ v = VoutUpdate(u, h, Outputs[b][i], ibd, check)
    BY DEF ScanStep
  <2>3. v = u \/ \E r : /\ Legal(u.sp, r, h) /\ ~IsRewind(r) /\ Applies(u, v, r)
                        /\ check => r.func # "P"
    <3> DEFINE w == VoutUpdate(u, h, Outputs[b][i], ibd, check)
    <3>1. h \in Nat \ {0} /\ i \in 1..Len(Outputs[b])
      BY <1>0
    <3> HIDE DEF h, n, v
    <3>2. w = u \/ \E r : /\ Legal(u.sp, r, h) /\ ~IsRewind(r) /\ Applies(u, w, r)
                          /\ check => r.func # "P"
      BY <2>1, <3>1, VoutUpdateFacts
    <3> HIDE DEF w
    <3> QED
      BY <2>2, <3>2 DEF w
  <2> HIDE DEF v
  <2>4. CASE v = u
    BY <1>2, <2>4 DEF v
  <2>5. CASE \E r : /\ Legal(u.sp, r, h) /\ ~IsRewind(r) /\ Applies(u, v, r)
                    /\ check => r.func # "P"
    <3>1. PICK r : /\ Legal(u.sp, r, h) /\ ~IsRewind(r) /\ Applies(u, v, r)
                   /\ check => r.func # "P"
      BY <2>5
    <3> HIDE DEF h
    <3>2. /\ Reached(f0, s0, v, h)
          /\ Low(u.sp.events, h) => Low(v.sp.events, h)
          /\ Tidy(u.sp.events, h - 1) => Tidy(v.sp.events, h - 1)
          /\ r.func # "P" => Settled(v.sp.events)
      BY <1>0, <1>2, <3>1, RecordStep
    <3> QED
      BY <1>2, <3>1, <3>2 DEF v
  <2> QED
    BY <2>3, <2>4, <2>5
<1>3. PICK f : IsScan(st, b, ibd, check, f) /\ Scan(st, b, ibd, check) = f[n]
  BY ScanIs
<1>4. \A i \in 0..n : f[i] = IF i = 0 THEN st ELSE ScanStep(f[i - 1], b, i, ibd, check)
  BY <1>3 DEF IsScan
<1> HIDE DEF Kept, n, h
<1> DEFINE Bad == {i \in Nat : i \in 0..n /\ ~Kept(f[i])}
<1>5. Bad = {}
  <2> SUFFICES ASSUME Bad # {} PROVE FALSE
    OBVIOUS
  <2>1. PICK i \in Bad : \A m \in Bad : i =< m
    <3> HIDE DEF Bad
    <3>1. Bad \in SUBSET Nat
      BY DEF Bad
    <3> QED
      BY <3>1, LeastNatural
  <2>2. i \in Nat /\ i \in 0..n /\ ~Kept(f[i])
    BY <2>1
  <2>3. i # 0
    BY <1>1, <1>4, <2>2
  <2>4. i - 1 \in Nat /\ i - 1 \in 0..n /\ i \in 1..n
    BY <1>0, <2>2, <2>3
  <2>5. i - 1 \notin Bad
    <3> HIDE DEF Bad
    <3> QED
      BY <2>1, <2>2, <2>4
  <2>6. Kept(f[i - 1])
    BY <2>4, <2>5
  <2>7. f[i] = ScanStep(f[i - 1], b, i, ibd, check)
    BY <1>4, <2>2, <2>3
  <2> QED
    BY <1>2, <2>2, <2>4, <2>6, <2>7
<1>6. Kept(f[n])
  BY <1>0, <1>5
<1> QED
  BY <1>3, <1>6 DEF Kept, h

(* A check reaches a settled store, and adds events of its height only. *)
LEMMA CheckedFacts ==
  ASSUME IInv, NEW b \in Blocks, Parent[b] = tip
  PROVE  LET st == Checked(b) IN
         /\ Reached(file, sp, st, Height[b]) /\ Settled(st.sp.events)
         /\ Tidy(sp.events, Height[tip]) => Tidy(st.sp.events, Height[tip])
<1> DEFINE start == [sp |-> sp, kv |-> kv, file |-> file]
           st == Checked(b)
           h == Height[b]
<1>1. h \in Nat \ {0} /\ Height[tip] = h - 1
  BY HeightFacts
<1>2. Reached(file, sp, start, h) /\ start.sp = sp
  BY ReachedStart
<1>3. file \in Seq(Record) /\ sp \in State /\ Settled(sp.events)
  BY DEF IInv
<1>4. st = Scan(start, b, FALSE, TRUE)
  BY DEF Checked
<1> HIDE DEF start, st
<1>5. /\ Reached(file, sp, st, h)
      /\ Tidy(start.sp.events, h - 1) => Tidy(st.sp.events, h - 1)
      /\ Settled(start.sp.events) => Settled(st.sp.events)
  BY <1>2, <1>3, <1>4, ScanFacts
<1> QED
  BY <1>1, <1>2, <1>3, <1>5 DEF st

(* Connecting a block reaches a settled store that ends with its height;   *)
(* while the node runs, the order of events is kept.                       *)
LEMMA ConnectedFacts ==
  ASSUME IInv, NEW b \in Blocks, Parent[b] = tip, NEW ibd
  PROVE  LET st == Connected(b, ibd)
             h == Height[b]
         IN /\ Reached(file, sp, st, h) /\ Settled(st.sp.events)
            /\ Len(st.sp.events) # 0 /\ st.sp.events[Len(st.sp.events)].height = h
            /\ hwmheight # 0 /\ Tidy(sp.events, Height[tip]) => Tidy(st.sp.events, h)
<1> DEFINE h == Height[b]
           start == [sp |-> sp, kv |-> kv, file |-> file]
           first == IF Checks(b) THEN Checked(b) ELSE start
           mark == IF Checks(b) THEN h ELSE hwmheight
           clean == IF h =< mark THEN WriteRewind(first, h) ELSE first
           last == Scan(clean, b, ibd, FALSE)
           st == Connected(b, ibd)
           running == hwmheight # 0 /\ Tidy(sp.events, Height[tip])
<1>0. /\ h \in Nat \ {0} /\ h \in Nat /\ h \in Heights /\ Height[tip] \in Nat
      /\ Height[tip] = h - 1 /\ h = Height[tip] + 1
      /\ file \in Seq(Record) /\ sp \in State /\ sp.events \in Seq(Event)
      /\ Settled(sp.events) /\ hwmheight \in Nat
  <2>1. sp.events \in Seq(Event)
    BY DEF IInv, State
  <2>2. /\ h \in Nat \ {0} /\ h \in Heights /\ Height[tip] \in Nat /\ h = Height[tip] + 1
    BY HeightFacts
  <2>3. file \in Seq(Record) /\ sp \in State /\ Settled(sp.events) /\ hwmheight \in Nat
    BY HeightFacts DEF IInv, Heights
  <2> QED
    BY <2>1, <2>2, <2>3
<1>1. st = WriteKmdHeight(last, h)
  BY DEF Connected, Reorganised
<1>2. Reached(file, sp, start, h) /\ start.sp = sp
  BY ReachedStart
<1>3. /\ Reached(file, sp, Checked(b), h) /\ Settled(Checked(b).sp.events)
      /\ Tidy(sp.events, Height[tip]) => Tidy(Checked(b).sp.events, Height[tip])
  BY CheckedFacts
<1> HIDE DEF h, start, last, st
<1>4. /\ Reached(file, sp, first, h) /\ Settled(first.sp.events)
      /\ Tidy(sp.events, Height[tip]) => Tidy(first.sp.events, h - 1)
  <2>1. CASE Checks(b)
    BY <1>0, <1>3, <2>1
  <2>2. CASE ~Checks(b)
    BY <1>0, <1>2, <2>2
  <2> QED
    BY <2>1, <2>2
<1>5. Reached(file, sp, clean, h) /\ (running => Low(clean.sp.events, h))
  <2>1. CASE h =< mark
    <3>1. clean = WriteRewind(first, h)
      BY <2>1
    <3> HIDE DEF first, mark, clean
    <3>2. /\ Reached(file, sp, clean, h)
          /\ Tidy(first.sp.events, h - 1) => Low(clean.sp.events, h)
      BY <1>0, <1>4, <3>1, RewindStep
    <3> QED
      BY <1>4, <3>2
  <2>2. CASE ~(h =< mark)
    <3>1. ~Checks(b) /\ mark = hwmheight /\ clean = first /\ first = start
      BY <1>0, <2>2
    <3>2. ASSUME running PROVE Low(sp.events, h)
      <4>1. ~(hwmheight > Height[tip])
        BY <1>0, <2>2, <3>1
      <4>2. Len(sp.events) # 0 /\ sp.events[Len(sp.events)].height =< Height[tip]
        BY <3>2, <4>1 DEF IInv, Marked
      <4>3. Low(sp.events, Height[tip] + 1)
        BY <1>0, <3>2, <4>2, TidyIsLow
      <4> QED
        BY <1>0, <4>3
    <3> QED
      BY <1>2, <3>1, <3>2
  <2> QED
    BY <2>1, <2>2
<1> HIDE DEF clean, first, mark
<1>6. Reached(file, sp, last, h) /\ (running => Low(last.sp.events, h))
  <2>1. /\ Reached(file, sp, last, h)
        /\ Low(clean.sp.events, h) => Low(last.sp.events, h)
    BY <1>0, <1>5, ScanFacts DEF last, h
  <2> QED
    BY <1>5, <2>1
<1>7. last \in Store /\ last.sp.events \in Seq(Event)
  BY <1>6, ReachedTypes
<1>8. PICK r : Legal(last.sp, r, h) /\ ~IsRewind(r) /\ r.func = "T" /\ Applies(last, st, r)
  BY <1>0, <1>1, <1>7, WriteKmdHeightFacts
<1>9. /\ Reached(file, sp, st, h) /\ Settled(st.sp.events)
      /\ Low(last.sp.events, h) => Low(st.sp.events, h)
      /\ \E e \in Event : e.height = h /\ st.sp.events = Append(last.sp.events, e)
  BY <1>0, <1>6, <1>8, RecordStep
<1>10. Len(st.sp.events) # 0 /\ st.sp.events[Len(st.sp.events)].height = h
  <2>1. PICK e \in Event : e.height = h /\ st.sp.events = Append(last.sp.events, e)
    BY <1>9
  <2>2. LET more == Append(last.sp.events, e) IN Len(more) # 0 /\ more[Len(more)] = e
    BY <1>7
  <2> QED
    BY <2>1, <2>2
<1>11. running => Tidy(st.sp.events, h)
  <2>1. st.sp.events \in Seq(Event)
    BY <1>9, ReachedTypes
  <2> QED
    BY <1>0, <1>6, <1>9, <2>1, LowIsTidy
<1> QED
  BY <1>9, <1>10, <1>11 DEF st, h

-----------------------------------------------------------------------------
(* Looking up notarisations *)

(* Where a scan stops: every point it has passed is below the height, and  *)
(* the one it stops at is not.                                             *)
LEMMA StopAtFacts ==
  ASSUME NEW points \in Seq(Point), NEW i \in 1..Len(points) + 1, NEW h \in Int
  PROVE  LET stop == StopAt(points, i, h) IN
         /\ stop \in i..Len(points) + 1
         /\ \A k \in i..stop - 1 : points[k].nHeight < h
         /\ stop =< Len(points) => ~(points[stop].nHeight < h)
<1> DEFINE n == Len(points)
           Ends == {m \in Nat : m \in i..n + 1 /\ (m = n + 1 \/ ~(points[m].nHeight < h))}
           Passed == {j \in i..n : \A k \in i..j : points[k].nHeight < h}
<1>1. n \in Nat
  OBVIOUS
<1> HIDE DEF n
<1>2. n + 1 \in Ends
  BY <1>1 DEF n
<1>3. PICK m \in Ends : \A l \in Ends : m =< l
  <2> HIDE DEF Ends
  <2>1. Ends \in SUBSET Nat /\ Ends # {}
    BY <1>2 DEF Ends
  <2> QED
    BY <2>1, LeastNatural
<1>4. m \in Nat /\ m \in i..n + 1 /\ (m = n + 1 \/ ~(points[m].nHeight < h))
  BY <1>3
<1>5. \A k \in i..m - 1 : points[k].nHeight < h
  <2> SUFFICES ASSUME NEW k \in i..m - 1 PROVE points[k].nHeight < h
    OBVIOUS
  <2>1. k \in Nat /\ k \in i..n + 1 /\ ~(m =< k)
    BY <1>1, <1>4
  <2>2. k \notin Ends
    <3> HIDE DEF Ends
    <3> QED
      BY <1>3, <2>1
  <2> QED
    BY <2>1, <2>2
<1> HIDE DEF Ends
<1>6. Passed = i..m - 1
  <2>1. ASSUME NEW j \in Passed PROVE j \in i..m - 1
    <3>1. j \in i..n /\ \A k \in i..j : points[k].nHeight < h
      OBVIOUS
    <3>2. ~(m =< j)
      BY <1>1, <1>4, <3>1
    <3> QED
      BY <1>1, <1>4, <3>1, <3>2
  <2>2. ASSUME NEW j \in i..m - 1 PROVE j \in Passed
    <3>1. j \in i..n /\ \A k \in i..j : k \in i..m - 1
      BY <1>1, <1>4
    <3> QED
      BY <1>5, <3>1
  <2> HIDE DEF Passed
  <2> QED
    BY <2>1, <2>2
<1>7. Cardinality(i..m - 1) = m - i
  <2>1. i \in Int /\ m \in Int /\ m - 1 \in Int /\ i =< m
    BY <1>4
  <2>2. Cardinality(i..m - 1) = IF i > m - 1 THEN 0 ELSE m - 1 - i + 1
    BY <2>1, FS_Interval
  <2> QED
    BY <2>1, <2>2
<1>8. StopAt(points, i, h) = m
  <2>1. StopAt(points, i, h) = i + Cardinality(Passed)
    BY DEF StopAt, n
  <2> HIDE DEF Passed
  <2> QED
    BY <1>1, <1>4, <1>6, <1>7, <2>1 DEF n
<1> QED
  BY <1>1, <1>4, <1>5, <1>8 DEF n

(* komodo_notarizeddata, from any cached position that is not past the     *)
(* points: the point it finds is the last one before one that is not below *)
(* the height.                                                             *)
LEMMA NotarizedDataFacts ==
  ASSUME NEW points \in Seq(Point), NEW last \in Nat, last = 0 \/ last < Len(points), NEW h \in Int
  PROVE  LET d == NotarizedData(points, last, h) IN
         /\ d.last \in Nat /\ (d.last = 0 \/ d.last < Len(points))
         /\ d.found \in 0..Len(points)
         /\ d.found # 0 => points[d.found].nHeight < h
         /\ d.found < Len(points) => ~(points[d.found + 1].nHeight < h)
<1> DEFINE n == Len(points)
           d == NotarizedData(points, last, h)
           first == StopAt(points, 1, h)
           Good(l, f) == /\ l \in Nat /\ (l = 0 \/ l < n)
                         /\ f \in 0..n
                         /\ f # 0 => points[f].nHeight < h
                         /\ f < n => ~(points[f + 1].nHeight < h)
<1>1. n \in Nat
  OBVIOUS
<1>2. /\ first \in 1..n + 1
      /\ \A k \in 1..first - 1 : points[k].nHeight < h
      /\ first =< n => ~(points[first].nHeight < h)
  <2>1. 1 \in 1..Len(points) + 1
    OBVIOUS
  <2> QED
    BY <2>1, StopAtFacts
<1> HIDE DEF first
<1>3. ASSUME NEW l \in Nat, l = 0 \/ l < n
      PROVE  LET s == ScanFromStart(points, l, h) IN Good(s.last, s.found)
  <2> DEFINE s == ScanFromStart(points, l, h)
  <2>1. s.found = first - 1 /\ s.last = IF first > 1 THEN first - 2 ELSE l
    BY DEF ScanFromStart, first
  <2> HIDE DEF s, n
  <2>2. s.last \in Nat /\ (s.last = 0 \/ s.last < n)
    BY <1>1, <1>2, <1>3, <2>1
  <2>3. /\ s.found \in 0..n /\ s.found + 1 = first
        /\ s.found # 0 => s.found \in 1..first - 1
        /\ s.found < n => first =< n
    BY <1>1, <1>2, <2>1
  <2>4. s.found # 0 => points[s.found].nHeight < h
    BY <1>2, <2>3
  <2>5. s.found < n => ~(points[s.found + 1].nHeight < h)
    BY <1>2, <2>3
  <2> QED
    BY <2>2, <2>3, <2>4, <2>5 DEF s
<1>4. CASE ~UsesCache(points, last, h)
  <2>1. d = ScanFromStart(points, last, h)
    BY <1>4 DEF NotarizedData
  <2> QED
    BY <1>3, <2>1
<1>5. CASE UsesCache(points, last, h)
  <2> DEFINE stop == StopAt(points, last + 1, h)
             c == ScanFromCache(points, last, h)
  <2>1. last \in 1..n /\ last < n /\ points[last].nHeight < h
    BY <1>1, <1>5 DEF UsesCache
  <2>2. /\ stop \in last + 1..n + 1
        /\ \A k \in last + 1..stop - 1 : points[k].nHeight < h
        /\ stop =< n => ~(points[stop].nHeight < h)
    <3>1. last + 1 \in 1..n + 1
      BY <1>1, <2>1
    <3> QED
      BY <3>1, StopAtFacts
  <2>3. c.found = stop - 1 /\ c.last = IF stop > last + 1 THEN stop - 2 ELSE last
    BY DEF ScanFromCache
  <2>4. d = IF c.found < n THEN c ELSE ScanFromStart(points, c.last, h)
    BY <1>5 DEF NotarizedData
  <2> HIDE DEF stop, c, n, d
  <2>5. c.last \in Nat /\ (c.last = 0 \/ c.last < n)
    BY <1>1, <2>1, <2>2, <2>3
  <2>6. /\ c.found \in 0..n /\ c.found + 1 = stop
        /\ c.found = last \/ c.found \in last + 1..stop - 1
        /\ c.found < n => stop =< n
    BY <1>1, <2>1, <2>2, <2>3
  <2>7. points[c.found].nHeight < h
    BY <2>1, <2>2, <2>6
  <2>8. c.found < n => ~(points[c.found + 1].nHeight < h)
    BY <2>2, <2>6
  <2>9. Good(c.last, c.found)
    BY <2>5, <2>6, <2>7, <2>8
  <2>10. LET s == ScanFromStart(points, c.last, h) IN Good(s.last, s.found)
    BY <1>3, <2>5
  <2> HIDE DEF Good
  <2>11. Good(d.last, d.found)
    BY <2>4, <2>9, <2>10
  <2> QED
    BY <2>11 DEF Good, d, n
<1> QED
  BY <1>4, <1>5

-----------------------------------------------------------------------------
(* Invariance *)

(* What a step keeps, besides the invariant. *)
StepKeeps ==
  /\ Grows(sp, sp')
  /\ restarts' = restarts => \E h \in Nat : h >= Height[tip'] /\ Fixed(sp, sp', h)
  /\ hwmheight # 0 /\ hwmheight' # 0 /\ Tidy(sp.events, Height[tip])
       => Tidy(sp'.events, Height[tip'])

(* The process starts again on a file that a legal sequence of records     *)
(* ends: nothing is lost that the invariant is about.                      *)
LEMMA StartKeepsInvariant ==
  ASSUME IInv, NEW records \in Seq(Record), Len(records) =< MaxRecords, StartFrom(records),
         Sound(sp, Replay(records).sp), NoRatify(Replay(records).sp.events)
  PROVE  IInv' /\ StepKeeps
<1> DEFINE rep == Replay(records)
<1>1. rep \in [sp : State, kv : KvStore] /\ Unowned(records, rep.kv)
  BY ReplayTypes
<1>2. /\ sp' = rep.sp /\ kv' = rep.kv /\ file' = records
      /\ hwmheight' = 0 /\ last_NPOINTSi' = 0 /\ tip' = stored /\ stored' = stored
      /\ restarts' = restarts + 1
  BY DEF StartFrom
<1>3. Replay(file') = rep
  BY <1>2
<1>4. Sound(sp, rep.sp) /\ NoRatify(rep.sp.events)
  OBVIOUS
<1> HIDE DEF rep
<1>5. rep.sp \in State /\ rep.kv \in KvStore
  BY <1>1
<1>6. Agree(records, rep.kv, rep.kv)
  BY DEF Agree
<1>7. Drops(rep.sp.events, rep.sp.events) /\ Settled(rep.sp.events)
  <2>1. rep.sp.events \in Seq(Event)
    BY <1>5 DEF State
  <2> QED
    BY <1>4, <2>1, DropsSelf
<1>8. Follows(rep.sp, rep.sp)
  BY <1>7 DEF Follows
<1>9. Rising(sp') /\ Bounded(sp') /\ Grows(sp, sp')
  BY <1>2, <1>4 DEF Sound
<1>10. sp' \in State /\ kv' \in KvStore /\ file' \in Seq(Record) /\ Len(file') =< MaxRecords
  BY <1>2, <1>5
<1>11. /\ hwmheight' \in Heights /\ last_NPOINTSi' \in Nat /\ tip' \in Chain /\ stored' \in Chain
       /\ restarts \in Nat /\ restarts' \in Nat
  BY <1>2, HeightFacts DEF IInv
<1>12. /\ Follows(sp', Replay(file').sp) /\ Settled(sp'.events)
       /\ Unowned(file', kv') /\ Agree(file', kv', Replay(file').kv)
  BY <1>1, <1>2, <1>3, <1>6, <1>7, <1>8
<1>13. Marked'
  BY <1>2 DEF Marked
<1>14. IInv'
  BY <1>2, <1>9, <1>10, <1>11, <1>12, <1>13 DEF IInv
<1>15. restarts' # restarts
  BY <1>2, <1>11
<1> QED
  BY <1>2, <1>9, <1>14, <1>15 DEF StepKeeps

(* Nothing that only moves the tip or a height changes the rest. *)
LEMMA SameState ==
  ASSUME IInv, sp' = sp, kv' = kv, file' = file, restarts' = restarts,
         hwmheight' \in Heights, tip' \in Chain, stored' \in Chain,
         last_NPOINTSi' \in Nat, last_NPOINTSi' = 0 \/ last_NPOINTSi' < Len(sp.NPOINTS),
         Marked'
  PROVE  IInv'
<1>1. Replay(file') = Replay(file)
  OBVIOUS
<1> QED
  BY <1>1 DEF IInv

(* The invariant after a block has been scanned, and what is kept. *)
LEMMA ReachedKeeps ==
  ASSUME IInv, NEW st, NEW h \in Nat, Reached(file, sp, st, h), Settled(st.sp.events),
         Len(st.file) =< MaxRecords, sp' = st.sp, kv' = st.kv, file' = st.file,
         hwmheight' \in Heights, tip' \in Chain, stored' = stored,
         last_NPOINTSi' = last_NPOINTSi, restarts' = restarts, Marked'
  PROVE  IInv' /\ Grows(sp, sp') /\ Fixed(sp, sp', h)
<1>1. st.sp \in State /\ st.kv \in KvStore /\ st.file \in Seq(Record)
  BY ReachedTypes
<1>2. /\ Follows(st.sp, Replay(st.file).sp) /\ Sound(sp, st.sp) /\ Fixed(sp, st.sp, h)
      /\ Unowned(st.file, st.kv) /\ Agree(st.file, st.kv, Replay(st.file).kv)
  BY DEF Reached
<1>3. Replay(file') = Replay(st.file)
  OBVIOUS
<1>4. sp' \in State /\ kv' \in KvStore /\ file' \in Seq(Record) /\ Len(file') =< MaxRecords
  BY <1>1
<1>5. last_NPOINTSi' \in Nat /\ stored' \in Chain /\ restarts' \in Nat
  BY DEF IInv
<1>6. /\ Follows(sp', Replay(file').sp) /\ Settled(sp'.events)
      /\ Unowned(file', kv') /\ Agree(file', kv', Replay(file').kv)
  BY <1>2, <1>3
<1>7. Rising(sp') /\ Bounded(sp') /\ Grows(sp, sp') /\ Fixed(sp, sp', h)
  BY <1>2 DEF Sound
<1>8. last_NPOINTSi' = 0 \/ last_NPOINTSi' < Len(sp'.NPOINTS)
  <2>1. Len(sp.NPOINTS) \in Nat /\ Len(sp'.NPOINTS) \in Nat
    <3>1. sp.NPOINTS \in Seq(Point) /\ sp'.NPOINTS \in Seq(Point)
      BY <1>4 DEF State, IInv
    <3> QED
      BY <3>1
  <2>2. Len(sp.NPOINTS) =< Len(sp'.NPOINTS)
    BY <1>7 DEF Grows
  <2>3. last_NPOINTSi \in Nat /\ (last_NPOINTSi = 0 \/ last_NPOINTSi < Len(sp.NPOINTS))
    BY DEF IInv
  <2> QED
    BY <2>1, <2>2, <2>3
<1>9. IInv'
  BY <1>4, <1>5, <1>6, <1>7, <1>8 DEF IInv
<1> QED
  BY <1>7, <1>9

(* Connecting a block. *)
LEMMA ConnectKeeps ==
  ASSUME IInv, NEW b \in Blocks, NEW ibd, Connect(b, ibd)
  PROVE  IInv' /\ StepKeeps
<1> DEFINE st == Connected(b, ibd)
           h == Height[b]
<1>0. Parent[b] = tip /\ h \in Nat \ {0} /\ h \in Nat /\ h \in Heights /\ b \in Chain
  BY HeightFacts DEF Connect, Chain
<1>1. /\ Len(st.file) =< MaxRecords /\ sp' = st.sp /\ kv' = st.kv /\ file' = st.file
      /\ hwmheight' = h /\ tip' = b /\ last_NPOINTSi' = last_NPOINTSi /\ stored' = stored
      /\ restarts' = restarts
  BY DEF Connect
<1>2. /\ Reached(file, sp, st, h) /\ Settled(st.sp.events)
      /\ Len(st.sp.events) # 0 /\ st.sp.events[Len(st.sp.events)].height = h
      /\ hwmheight # 0 /\ Tidy(sp.events, Height[tip]) => Tidy(st.sp.events, h)
  BY <1>0, ConnectedFacts
<1> HIDE DEF st
<1>3. Height[tip'] = h
  BY <1>1
<1> HIDE DEF h
<1>4. Marked'
  <2>1. /\ hwmheight' = Height[tip'] /\ Len(sp'.events) # 0
        /\ sp'.events[Len(sp'.events)].height =< Height[tip']
    BY <1>0, <1>1, <1>2, <1>3
  <2> QED
    BY <2>1 DEF Marked
<1>5. IInv' /\ Grows(sp, sp') /\ Fixed(sp, sp', h)
  BY <1>0, <1>1, <1>2, <1>4, ReachedKeeps
<1>6. \E g \in Nat : g >= Height[tip'] /\ Fixed(sp, sp', g)
  BY <1>0, <1>3, <1>5
<1> QED
  BY <1>1, <1>2, <1>3, <1>5, <1>6 DEF StepKeeps

(* A check of a block that is not connected. *)
LEMMA JustCheckKeeps ==
  ASSUME IInv, NEW b \in Blocks, JustCheck(b)
  PROVE  IInv' /\ StepKeeps
<1> DEFINE st == Checked(b)
           h == Height[b]
<1>0. /\ Parent[b] = tip /\ h \in Nat /\ h \in Heights /\ Height[tip] \in Nat
      /\ h = Height[tip] + 1 /\ tip \in Chain
  BY HeightFacts DEF JustCheck, IInv
<1>1. /\ Len(st.file) =< MaxRecords /\ sp' = st.sp /\ kv' = st.kv /\ file' = st.file
      /\ hwmheight' = h /\ tip' = tip /\ last_NPOINTSi' = last_NPOINTSi /\ stored' = stored
      /\ restarts' = restarts
  BY DEF JustCheck
<1>2. /\ Reached(file, sp, st, h) /\ Settled(st.sp.events)
      /\ Tidy(sp.events, Height[tip]) => Tidy(st.sp.events, Height[tip])
  BY <1>0, CheckedFacts
<1> HIDE DEF st, h
<1>3. Height[tip'] = Height[tip] /\ hwmheight' > Height[tip'] /\ h >= Height[tip']
  BY <1>0, <1>1
<1>4. Marked'
  BY <1>3 DEF Marked
<1>5. IInv' /\ Grows(sp, sp') /\ Fixed(sp, sp', h)
  BY <1>0, <1>1, <1>2, <1>4, ReachedKeeps
<1> QED
  BY <1>0, <1>1, <1>2, <1>3, <1>5 DEF StepKeeps

(* A crash between two records of a block. *)
LEMMA CrashConnectingKeeps ==
  ASSUME IInv, NEW b \in Blocks, NEW ibd, CrashConnecting(b, ibd)
  PROVE  IInv' /\ StepKeeps
<1> DEFINE st == IF Checks(b) /\ ~InPosition(b) THEN Checked(b) ELSE Connected(b, ibd)
           h == Height[b]
<1>0. Parent[b] = tip /\ file \in Seq(Record) /\ Len(file) \in Nat
  BY DEF CrashConnecting, IInv
<1>1. Reached(file, sp, st, h)
  BY <1>0, CheckedFacts, ConnectedFacts
<1>2. PICK n \in {m \in Len(file)+1..Len(st.file) : m =< MaxRecords} :
        StartFrom(SubSeq(st.file, 1, n))
  BY DEF CrashConnecting
<1> HIDE DEF st, h
<1> DEFINE records == SubSeq(st.file, 1, n)
<1>3. st.file \in Seq(Record) /\ Len(st.file) \in Nat
  BY <1>1, ReachedTypes
<1>4. /\ n \in Nat /\ n \in Len(file)..Len(st.file) /\ n =< Len(st.file) /\ n =< MaxRecords
  BY <1>0, <1>2, <1>3
<1>5. records \in Seq(Record) /\ Len(records) = n
  BY <1>3, <1>4
<1>6. Sound(sp, Replay(records).sp) /\ NoRatify(Replay(records).sp.events)
  BY <1>1, <1>4 DEF Reached
<1> HIDE DEF records
<1>7. StartFrom(records)
  BY <1>2 DEF records
<1> QED
  BY <1>4, <1>5, <1>6, <1>7, StartKeepsInvariant

(* A crash between two blocks. *)
LEMMA CrashKeeps ==
  ASSUME IInv, Crash
  PROVE  IInv' /\ StepKeeps
<1>1. file \in Seq(Record) /\ Len(file) =< MaxRecords /\ StartFrom(file) /\ sp \in State
  BY DEF IInv, Crash
<1>2. Replay(file).sp \in State
  <2>1. Replay(file) \in [sp : State, kv : KvStore]
    BY <1>1, ReplayTypes
  <2> QED
    BY <2>1
<1>3. Sound(sp, sp)
  BY <1>1, GrowsReflexive DEF Sound, IInv
<1>4. Sound(sp, Replay(file).sp) /\ NoRatify(Replay(file).sp.events)
  BY <1>1, <1>2, <1>3, FollowsSound DEF IInv
<1> QED
  BY <1>1, <1>4, StartKeepsInvariant

(* A step that leaves the state alone and does not raise the tip. *)
LEMMA SameKeeps ==
  ASSUME IInv, sp' = sp, tip' \in Chain,
         Height[tip'] = Height[tip] \/ Height[tip] = Height[tip'] + 1
  PROVE  StepKeeps
<1>1. sp \in State /\ sp.events \in Seq(Event) /\ Height[tip'] \in Nat
  <2>1. Height[tip'] \in Nat
    BY KomodoAssumption
  <2> QED
    BY <2>1 DEF IInv, State
<1>2. Grows(sp, sp') /\ Fixed(sp, sp', Height[tip']) /\ Height[tip'] >= Height[tip']
  BY <1>1, GrowsReflexive DEF Fixed
<1>3. Tidy(sp.events, Height[tip]) => Tidy(sp.events, Height[tip'])
  BY <1>1, TidyLower
<1> QED
  BY <1>1, <1>2, <1>3 DEF StepKeeps

(* A search deletes an entry or changes nothing. *)
LEMMA SearchKeeps ==
  ASSUME IInv, NEW key \in Keys, Search(key)
  PROVE  IInv' /\ StepKeeps
<1> DEFINE new == KvSearch(kv, key, Height[tip])
<1>1. kv \in KvStore
  BY DEF IInv
<1>2. new \in KvStore /\ \A k \in Keys : new[k] = None \/ new[k] = kv[k]
  BY <1>1 DEF KvSearch, KvStore
<1>3. /\ kv' = new /\ sp' = sp /\ file' = file /\ hwmheight' = hwmheight
      /\ last_NPOINTSi' = last_NPOINTSi /\ tip' = tip /\ stored' = stored
      /\ restarts' = restarts
  BY DEF Search
<1> HIDE DEF new
<1>4. Unowned(file, new)
  BY <1>2 DEF Unowned, IInv
<1>5. Agree(file, new, Replay(file).kv)
  BY <1>2 DEF Agree, IInv
<1>6. Replay(file') = Replay(file)
  BY <1>3
<1>7. Marked'
  BY <1>3 DEF Marked, IInv
<1>8. /\ kv' \in KvStore /\ Unowned(file', kv') /\ Agree(file', kv', Replay(file').kv)
  BY <1>2, <1>3, <1>4, <1>5, <1>6
<1>9. IInv'
  BY <1>3, <1>6, <1>7, <1>8 DEF IInv
<1>10. StepKeeps
  BY <1>3, SameKeeps DEF IInv
<1> QED
  BY <1>9, <1>10

(* Every step keeps the invariant. *)
LEMMA NextKeeps ==
  ASSUME IInv, [Next]_vars
  PROVE  IInv' /\ StepKeeps
<1>0. /\ sp \in State /\ hwmheight \in Heights /\ tip \in Chain /\ stored \in Chain
      /\ last_NPOINTSi \in Nat /\ (last_NPOINTSi = 0 \/ last_NPOINTSi < Len(sp.NPOINTS))
      /\ Marked /\ hwmheight \in Nat
  BY HeightFacts DEF IInv, Heights
<1>1. ASSUME sp' = sp, tip' = tip PROVE StepKeeps
  BY <1>0, <1>1, SameKeeps
<1>2. ASSUME NEW b \in Blocks, NEW ibd \in BOOLEAN, Connect(b, ibd) PROVE IInv' /\ StepKeeps
  BY <1>2, ConnectKeeps
<1>3. ASSUME NEW b \in Blocks, JustCheck(b) PROVE IInv' /\ StepKeeps
  BY <1>3, JustCheckKeeps
<1>4. ASSUME Disconnect PROVE IInv' /\ StepKeeps
  <2>1. /\ tip # Base /\ tip' = Parent[tip] /\ sp' = sp /\ kv' = kv /\ file' = file
        /\ hwmheight' = hwmheight /\ last_NPOINTSi' = last_NPOINTSi /\ stored' = stored
        /\ restarts' = restarts
    BY <1>4 DEF Disconnect
  <2>2. tip \in Blocks
    BY <1>0, <2>1 DEF Chain
  <2>3. /\ tip' \in Chain /\ Height[tip'] \in Nat /\ Height[tip] = Height[tip'] + 1
    BY <2>1, <2>2, HeightFacts
  <2>4. hwmheight # 0 => hwmheight >= Height[tip]
    BY <1>0, <2>3 DEF Marked
  <2>5. hwmheight' # 0 => hwmheight' > Height[tip'] /\ hwmheight' >= Height[tip']
    BY <1>0, <2>1, <2>3, <2>4
  <2>6. Marked'
    BY <2>5 DEF Marked
  <2>7. IInv'
    BY <1>0, <2>1, <2>3, <2>6, SameState
  <2>8. StepKeeps
    BY <2>1, <2>3, SameKeeps
  <2> QED
    BY <2>7, <2>8
<1>5. ASSUME Flush PROVE IInv' /\ StepKeeps
  <2>1. /\ stored' = tip /\ sp' = sp /\ kv' = kv /\ file' = file /\ tip' = tip
        /\ hwmheight' = hwmheight /\ last_NPOINTSi' = last_NPOINTSi /\ restarts' = restarts
    BY <1>5 DEF Flush
  <2>2. Marked'
    BY <1>0, <2>1 DEF Marked
  <2>3. IInv'
    BY <1>0, <2>1, <2>2, SameState
  <2> QED
    BY <1>1, <2>1, <2>3
<1>6. ASSUME Crash PROVE IInv' /\ StepKeeps
  BY <1>6, CrashKeeps
<1>7. ASSUME NEW b \in Blocks, NEW ibd \in BOOLEAN, CrashConnecting(b, ibd)
      PROVE  IInv' /\ StepKeeps
  BY <1>7, CrashConnectingKeeps
<1>8. ASSUME NEW h \in Asked, Lookup(h) PROVE IInv' /\ StepKeeps
  <2>1. /\ last_NPOINTSi' = NotarizedData(sp.NPOINTS, last_NPOINTSi, h).last
        /\ sp' = sp /\ kv' = kv /\ file' = file /\ tip' = tip /\ stored' = stored
        /\ hwmheight' = hwmheight /\ restarts' = restarts
    BY <1>8 DEF Lookup
  <2>2. h \in Int /\ sp.NPOINTS \in Seq(Point)
    <3>1. h \in Int
      BY HeightFacts DEF Asked
    <3> QED
      BY <1>0, <3>1 DEF State
  <2>3. last_NPOINTSi' \in Nat /\ (last_NPOINTSi' = 0 \/ last_NPOINTSi' < Len(sp.NPOINTS))
    BY <1>0, <2>1, <2>2, NotarizedDataFacts
  <2>4. Marked'
    BY <1>0, <2>1 DEF Marked
  <2>5. IInv'
    BY <1>0, <2>1, <2>3, <2>4, SameState
  <2> QED
    BY <1>1, <2>1, <2>5
<1>9. ASSUME NEW key \in Keys, Search(key) PROVE IInv' /\ StepKeeps
  BY <1>9, SearchKeeps
<1>10. ASSUME UNCHANGED vars PROVE IInv' /\ StepKeeps
  <2>1. /\ sp' = sp /\ kv' = kv /\ file' = file /\ tip' = tip /\ stored' = stored
        /\ hwmheight' = hwmheight /\ last_NPOINTSi' = last_NPOINTSi /\ restarts' = restarts
    BY <1>10 DEF vars
  <2>2. Marked'
    BY <1>0, <2>1 DEF Marked
  <2>3. IInv'
    BY <1>0, <2>1, <2>2, SameState
  <2> QED
    BY <1>1, <2>1, <2>3
<1> QED
  BY <1>2, <1>3, <1>4, <1>5, <1>6, <1>7, <1>8, <1>9, <1>10 DEF Next

(* The initial state satisfies the invariant. *)
LEMMA InitHolds ==
  ASSUME Init
  PROVE  IInv
<1>1. /\ sp = FreshState /\ kv = NoKv /\ file = <<>> /\ hwmheight = 0 /\ last_NPOINTSi = 0
      /\ tip = Base /\ stored = Base /\ restarts = 0
  BY DEF Init
<1>2. <<>> \in Seq(Record) /\ Len(<<>>) = 0
  OBVIOUS
<1>3. Replay(file).sp = sp /\ Replay(file).kv = kv
  BY <1>1, ReplayEmpty
<1>4. \A k \in Keys : NoKv[k] = None
  BY DEF NoKv
<1>5. Unowned(file, kv) /\ Agree(file, kv, Replay(file).kv)
  BY <1>1, <1>4 DEF Unowned, Agree
<1>6. /\ FreshState \in State /\ NoKv \in KvStore /\ FreshState.events = <<>>
      /\ FreshState.NPOINTS = <<>> /\ FreshState.NOTARIZED_HEIGHT = 0
      /\ FreshState.SAVEDHEIGHT = 0
  BY FreshFacts DEF FreshState
<1>7. Rising(sp)
  BY <1>1, <1>2, <1>6 DEF Rising
<1>8. Bounded(sp)
  BY <1>1, <1>2, <1>6, HeightFacts DEF Bounded
<1>9. Len(file) =< MaxRecords
  BY <1>1, <1>2, KomodoAssumption
<1>10. hwmheight \in Heights /\ tip \in Chain /\ stored \in Chain
  BY <1>1, HeightFacts DEF Chain
<1>11. Marked
  BY <1>1 DEF Marked
<1>12. Follows(sp, Replay(file).sp) /\ Settled(sp.events)
  <2>1. NoRatify(<<>>) /\ <<>> \in Seq(Event)
    BY <1>2 DEF NoRatify
  <2>2. Drops(<<>>, <<>>) /\ Settled(<<>>)
    BY <2>1, DropsSelf
  <2>3. sp.events = <<>>
    BY <1>1, <1>6
  <2> QED
    BY <1>3, <2>2, <2>3 DEF Follows
<1> QED
  BY <1>1, <1>2, <1>3, <1>5, <1>6, <1>7, <1>8, <1>9, <1>10, <1>11, <1>12 DEF IInv

-----------------------------------------------------------------------------
(* Theorems *)

(* The invariant holds in every state that the node can be in, whatever is *)
(* reorganised, checked, searched and wherever the process dies.           *)
THEOREM Invariance == Spec => []IInv
<1>1. Init => IInv
  BY InitHolds
<1>2. IInv /\ [Next]_vars => IInv'
  BY NextKeeps
<1> QED
  BY <1>1, <1>2, PTL DEF Spec

(* The types: no rewind is left among the events, and the heights of the   *)
(* events, of the notarisations and of the high-water mark are those of    *)
(* blocks.                                                                 *)
THEOREM TypeCorrect == Spec => []TypeOK
<1>1. IInv => TypeOK
  <2> SUFFICES ASSUME IInv PROVE TypeOK
    OBVIOUS
  <2> DEFINE E == [type : {"notarized", "ratify", "kmdheight", "opreturn"}, height : Heights]
             ev == sp.events
  <2>1. ev \in Seq(Event) /\ Len(ev) \in Nat /\ \A i \in 1..Len(ev) : ev[i] \in Event
    BY DEF IInv, State
  <2>2. \A i \in 1..Len(ev) : ev[i].type # "rewind" /\ ev[i].height \in Heights
    BY DEF IInv, Bounded
  <2>3. \A i \in 1..Len(ev) : ev[i] \in E
    BY <2>1, <2>2 DEF Event
  <2> HIDE DEF E, ev
  <2>4. ev \in Seq(E)
    <3>1. ev = [i \in 1..Len(ev) |-> ev[i]]
      BY <2>1
    <3> QED
      BY <2>1, <2>3, <3>1
  <2>5. sp.events \in Seq([type : {"notarized", "ratify", "kmdheight", "opreturn"}, height : Heights])
    BY <2>4 DEF E, ev
  <2> QED
    BY <2>5 DEF TypeOK, IInv, Bounded
<1> QED
  BY <1>1, Invariance, PTL

(* The file says all there is to say but for ratifications: replaying it  *)
(* gives the notarisations and the saved height of the running node, its   *)
(* events except the ratifications, and the entries that searches have     *)
(* left, of keys that nobody ever owned.                                   *)
THEOREM FileIsFaithful == Spec => []ReplayFaithful
<1>1. IInv => ReplayFaithful
  <2> SUFFICES ASSUME IInv PROVE ReplayFaithful
    OBVIOUS
  <2> DEFINE rep == Replay(file)
  <2>1. \A k \in Keys : NeverOwned(k) => NeverOwnedIn(file, k)
    BY DEF NeverOwned, NeverOwnedIn
  <2>2. rep.sp \in State /\ sp \in State
    <3>1. file \in Seq(Record) /\ sp \in State
      BY DEF IInv
    <3>2. rep \in [sp : State, kv : KvStore]
      BY <3>1, ReplayTypes
    <3> HIDE DEF rep
    <3> QED
      BY <3>1, <3>2
  <2>3. Follows(sp, rep.sp) /\ Agree(file, kv, rep.kv)
    BY DEF IInv
  <2> HIDE DEF rep
  <2>4. WithoutRatifications(sp.events, rep.sp.events)
    <3>1. sp.events \in Seq(Event) /\ rep.sp.events \in Seq(Event)
      BY <2>2 DEF State
    <3>2. Drops(sp.events, rep.sp.events)
      BY <2>3 DEF Follows
    <3> QED
      BY <3>1, <3>2, DropsIs
  <2>5. \A k \in Keys : kv[k] # None /\ NeverOwned(k) => kv[k] = rep.kv[k]
    BY <2>1, <2>3 DEF Agree
  <2> QED
    BY <2>3, <2>4, <2>5 DEF ReplayFaithful, Follows, rep
<1> QED
  BY <1>1, Invariance, PTL

(* Notarised heights only go up, and the newest is the one enforced. *)
THEOREM NotarizationsRise == Spec => []NotarizedMonotone
<1>1. IInv => NotarizedMonotone
  BY DEF IInv, Rising, NotarizedMonotone
<1> QED
  BY <1>1, Invariance, PTL

(* komodo_notarizeddata never names a notarisation that is not below the   *)
(* height asked for, and in order names the most recent one, whatever      *)
(* earlier lookups have left in its cache.                                 *)
THEOREM LookupIsSound == Spec => []LookupSound
<1>1. IInv => LookupSound
  <2> SUFFICES ASSUME IInv PROVE LookupSound
    OBVIOUS
  <2> DEFINE points == sp.NPOINTS
             n == Len(points)
             last == last_NPOINTSi
  <2>1. points \in Seq(Point) /\ n \in Nat /\ last \in Nat /\ (last = 0 \/ last < n)
    <3>1. points \in Seq(Point)
      BY DEF IInv, State
    <3> QED
      BY <3>1 DEF IInv
  <2>2. last \in 0..Max({1, n}) - 1
    <3> DEFINE S == {1, n}
    <3>1. S \in SUBSET Nat /\ S # {} /\ n + 1 \in Nat /\ \A x \in S : x =< n + 1
      BY <2>1
    <3>2. 1 \in S /\ n \in S
      OBVIOUS
    <3> HIDE DEF S, n
    <3>3. Max(S) \in S /\ \A x \in S : x =< Max(S)
      BY <2>1, <3>1, MaxExists
    <3>4. Max(S) \in Nat /\ 1 =< Max(S) /\ n =< Max(S)
      BY <3>1, <3>2, <3>3
    <3>5. last \in 0..Max(S) - 1
      BY <2>1, <3>4
    <3> QED
      BY <3>5 DEF S
  <2>3. ASSUME NEW h \in Asked
        PROVE  LET found == NotarizedData(points, last, h).found
               IN /\ found # 0 => points[found].nHeight < h
                  /\ PointsOrdered => found = MostRecentBelow(h)
    <3> DEFINE found == NotarizedData(points, last, h).found
               S == {0} \cup {i \in 1..n : points[i].nHeight < h}
    <3>1. h \in Int
      BY HeightFacts DEF Asked
    <3>2. /\ found \in 0..n
          /\ found # 0 => points[found].nHeight < h
          /\ found < n => ~(points[found + 1].nHeight < h)
      BY <2>1, <3>1, NotarizedDataFacts
    <3> HIDE DEF found, points, n, last
    <3>3. \A i \in 1..n : points[i].nHeight \in Nat
      <4>1. \A i \in 1..n : points[i] \in Point
        BY <2>1 DEF n
      <4> QED
        BY <4>1 DEF Point
    <3>4. ASSUME PointsOrdered PROVE found = MostRecentBelow(h)
      <4> DEFINE g == [k \in 1..n |-> points[k].nHeight]
      <4>1. \A k \in 1..n : g[k] = points[k].nHeight /\ g[k] \in Nat
        BY <3>3
      <4>2. \A k \in 1..n - 1 : points[k].nHeight =< points[k + 1].nHeight
        BY <3>4 DEF PointsOrdered, points, n
      <4>3. \A k \in 1..n - 1 : g[k] =< g[k + 1]
        <5> SUFFICES ASSUME NEW k \in 1..n - 1 PROVE g[k] =< g[k + 1]
          OBVIOUS
        <5>1. k \in 1..n /\ k + 1 \in 1..n
          BY <2>1
        <5> HIDE DEF g
        <5> QED
          BY <4>1, <4>2, <5>1
      <4> HIDE DEF g
      <4>4. \A i \in 1..n : points[i].nHeight < h => i =< found
        <5> SUFFICES ASSUME NEW i \in 1..n, points[i].nHeight < h, ~(i =< found) PROVE FALSE
          BY <2>1, <3>2
        <5>1. found < n /\ found + 1 \in 1..n /\ found + 1 =< i
          BY <2>1, <3>2
        <5>2. g[found + 1] =< g[i]
          BY <2>1, <4>1, <4>3, <5>1, AllOrdered
        <5>3. points[found + 1].nHeight < h
          BY <3>1, <4>1, <5>1, <5>2
        <5> QED
          BY <3>2, <5>1, <5>3
      <4>5. found \in S /\ \A x \in S : x =< found
        BY <2>1, <3>2, <4>4
      <4>6. S \in SUBSET Nat /\ S # {} /\ \A x \in S : x =< n
        BY <2>1
      <4>7. MostRecentBelow(h) = Max(S)
        BY DEF MostRecentBelow, points, n
      <4> HIDE DEF S
      <4>8. Max(S) \in S /\ \A x \in S : x =< Max(S)
        BY <2>1, <4>6, MaxExists
      <4>9. found =< Max(S) /\ Max(S) =< found /\ Max(S) \in Nat /\ found \in Nat
        BY <4>5, <4>6, <4>8
      <4> QED
        BY <4>7, <4>9
    <3> QED
      BY <3>2, <3>4 DEF found
  <2> QED
    BY <2>2, <2>3 DEF LookupSound
<1> QED
  BY <1>1, Invariance, PTL

(* No step forgets or changes a notarisation, also not one that loses a    *)
(* part of the records of a block.                                         *)
THEOREM NotarizationsAreKept == Spec => NotarizationsKept
<1>1. IInv /\ [Next]_vars => [IsPrefix(sp.NPOINTS, sp'.NPOINTS)]_vars
  <2> SUFFICES ASSUME IInv, [Next]_vars PROVE IsPrefix(sp.NPOINTS, sp'.NPOINTS)
    OBVIOUS
  <2>1. IInv' /\ StepKeeps
    BY NextKeeps
  <2> DEFINE old == sp.NPOINTS
             new == sp'.NPOINTS
  <2>2. old \in Seq(Point) /\ new \in Seq(Point)
    BY <2>1 DEF IInv, State
  <2>3. Len(old) =< Len(new) /\ \A i \in 1..Len(old) : new[i] = old[i]
    BY <2>1 DEF StepKeeps, Grows
  <2> HIDE DEF old, new
  <2>4. IsPrefix(old, new)
    BY <2>2, <2>3 DEF IsPrefix
  <2> QED
    BY <2>4 DEF old, new
<1> QED
  BY <1>1, Invariance, PTL DEF Spec, NotarizationsKept

(* While the node runs, the events up to the tip stay in the order of      *)
(* heights, before what disconnected blocks and checks have left.          *)
THEOREM OrderIsKept == Spec => RunningKeepsOrder
<1>1. IInv /\ [Next]_vars =>
        [hwmheight # 0 /\ hwmheight' # 0 /\ Tidy(sp.events, Height[tip])
           => Tidy(sp'.events, Height[tip'])]_vars
  BY NextKeeps DEF StepKeeps
<1> QED
  BY <1>1, Invariance, PTL DEF Spec, RunningKeepsOrder

(* While the node runs, no ratification changes who the notaries of a      *)
(* height up to the tip are, unless it is in the last entry of the table.  *)
THEOREM ElectionsAreFixed == Spec => ElectionsFixed
<1>1. IInv /\ [Next]_vars =>
        [restarts' = restarts =>
           \A h \in 0..Height[tip'] :
              h \div Gap < Epochs - 1 => NotariesAt(sp', h) = NotariesAt(sp, h)]_vars
  <2> SUFFICES ASSUME IInv, [Next]_vars, restarts' = restarts,
                      NEW g \in 0..Height[tip'], g \div Gap < Epochs - 1
               PROVE  NotariesAt(sp', g) = NotariesAt(sp, g)
    OBVIOUS
  <2>1. IInv' /\ StepKeeps
    BY NextKeeps
  <2>2. PICK h \in Nat : h >= Height[tip'] /\ Fixed(sp, sp', h)
    BY <2>1 DEF StepKeeps
  <2>3. Height[tip'] \in Nat
    <3>1. tip' \in Chain
      BY <2>1 DEF IInv
    <3> QED
      BY <3>1, KomodoAssumption
  <2>4. g \in 0..h
    BY <2>2, <2>3
  <2>5. /\ g \div Gap \in 0..Epochs - 1 /\ g \div Gap < ElectionOf(h)
        /\ Min({g \div Gap, Epochs - 1}) = g \div Gap
    BY <2>4, PastElections
  <2>6. sp'.Pubkeys[g \div Gap] = sp.Pubkeys[g \div Gap]
    BY <2>2, <2>5 DEF Fixed
  <2> QED
    BY <2>5, <2>6 DEF NotariesAt
<1> QED
  BY <1>1, Invariance, PTL DEF Spec, ElectionsFixed

=============================================================================
