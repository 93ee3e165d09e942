---------------------------- MODULE KomodoState ----------------------------
(***************************************************************************)
(* The dPoW state of an asset chain (struct komodo_state) and the file     *)
(* komodostate it is rebuilt from.  komodo_connectblock runs at the end of *)
(* ConnectBlock: it rewinds the events of a reorganised height, applies    *)
(* what the outputs of the block say, and appends a record to the file for *)
(* each change; disconnecting a block does nothing here.  A chain that     *)
(* pays its notaries (ASSETCHAINS_NOTARY_PAY) first scans the block to     *)
(* check it, and this scan too writes the key-value updates it meets.      *)
(* After a restart the file is replayed record by record, while the chain  *)
(* resumes at the last tip that was flushed: the two are not written       *)
(* together.                                                               *)
(*                                                                         *)
(* Times, hashes of the other chain and CURRENT_HEIGHT are left out; so    *)
(* are price feeds and the regtest simulation of notarisations.            *)
(***************************************************************************)
EXTENDS KomodoKV, NotarizedPoints, FiniteSetsExt, SequencesExt

CONSTANTS Blocks,      \* the blocks above Base
          Older,       \* blocks below Base
          Base,        \* the tip when the file was begun
          Parent, Height,
          Outputs,     \* Outputs[b]: what the outputs of b say, in order, with
                       \* the position tx of their transaction
          PaysNotaries,     \* ASSETCHAINS_NOTARY_PAY[0] # 0
          PayAbove,    \* blocks above this height are checked then (10)
          Epochs,      \* KOMODO_MAXBLOCKS / KOMODO_ELECTION_GAP
          Gap,         \* KOMODO_ELECTION_GAP
          FirstNotaries,    \* the notaries komodo_init starts with
          MaxRecords,  \* bound on the length of the file
          MaxRestarts, \* bound on the number of restarts
          MaxDisconnects \* bound on the number of blocks disconnected

Chain == Blocks \cup {Base}

ASSUME KomodoAssumption ==
    /\ IsFiniteSet(Blocks) /\ Blocks # {} /\ Base \notin Blocks
    /\ Parent \in [Blocks -> Chain]
    /\ Height \in [Chain \cup Older -> Nat]
    /\ \A b \in Blocks : Height[b] = Height[Parent[b]] + 1
    /\ PaysNotaries \in BOOLEAN /\ PayAbove \in Nat
    /\ Epochs \in Nat /\ Epochs >= 2 /\ Gap \in Nat \ {0} /\ KvDay \in Nat \ {0} /\ MaxRecords \in Nat
    /\ \A b \in Blocks :
          /\ Len(Outputs[b]) \in Nat
          /\ \A i \in 1..Len(Outputs[b]) :
                LET out == Outputs[b][i]
                IN /\ out.tx \in Nat
                   /\ \/ out.type = "kv" /\ out.update.key \in Keys
                      \/ out.type = "ratify"
                      \/ out.type = "notarise" /\ out.notarized \in Nat

VARIABLES sp,      \* struct komodo_state, and Pubkeys
          kv,      \* KOMODO_KV
          file,    \* the records of komodostate
          hwmheight,     \* static in komodo_connectblock
          last_NPOINTSi, \* the cached position in NPOINTS
          tip,     \* chainActive.Tip()
          stored,  \* the tip the databases hold
          restarts, disconnects \* how often these have happened, for the bounds

vars == <<sp, kv, file, hwmheight, last_NPOINTSi, tip, stored, restarts, disconnects>>

FreshState ==
    [events |-> <<>>, NPOINTS |-> <<>>, NOTARIZED_HEIGHT |-> 0, NOTARIZED_HASH |-> None,
     MoM |-> 0, SAVEDHEIGHT |-> 0,
     Pubkeys |-> [i \in 0..Epochs - 1 |-> FirstNotaries], ratified |-> 0]

NoKv == [k \in Keys |-> None]

-----------------------------------------------------------------------------
(***************************************************************************)
(* Events (komodo_events.h).                                               *)
(***************************************************************************)

EventAdd(s, type, height) ==
    [s EXCEPT !.events = Append(@, [type |-> type, height |-> height])]

\* komodo_notarized_update
NotarizedUpdate(s, nHeight, n) ==
    IF n.height >= nHeight THEN s
    ELSE [s EXCEPT !.NPOINTS = Append(@, [nHeight |-> nHeight, notarized |-> n.height,
                                          hash |-> n.hash, MoM |-> n.MoM]),
                   !.NOTARIZED_HEIGHT = n.height,
                   !.NOTARIZED_HASH = n.hash,
                   !.MoM = n.MoM]

EventAddNotarized(s, height, n) ==
    NotarizedUpdate(EventAdd(s, "notarized", height), height, n)

\* Mutant: the new notaries act from the election under way.
ElectionOfNow(height) == Min({(height + Gap \div 2) \div Gap, Epochs - 1})

\* The election after the one nearest to the height of the ratification; beyond
\* the end of the table, the last entry.
ElectionOf(height) == Min({((height + Gap \div 2) \div Gap) + 1, Epochs - 1})

\* komodo_notaries: the entry for a height.
NotariesAt(s, height) == s.Pubkeys[Min({height \div Gap, Epochs - 1})]

\* komodo_notarysinit: the notaries of every later election, until one that was
\* already set when this ratification is older than the newest one.  `ratified'
\* is its static hwmheight.
NotarysInit(s, height, pubkeys) ==
    [s EXCEPT !.Pubkeys = [i \in 0..Epochs - 1 |->
                              IF i >= ElectionOf(height) /\ height >= s.ratified
                              THEN pubkeys ELSE @[i]],
              !.ratified = IF height > @ THEN height ELSE @]

EventAddPubkeys(s, height, pubkeys) ==
    NotarysInit(EventAdd(s, "ratify", height), height, pubkeys)

\* komodo_event_rewind pops events until one below the height, and
\* komodo_event_undo takes back what it can: SAVEDHEIGHT only.
EventRewind(s, height) ==
    LET keep == Max({0} \cup {i \in 1..Len(s.events) : s.events[i].height < height})
        undone == {s.events[i].height :
                      i \in {j \in keep+1..Len(s.events) : s.events[j].type = "kmdheight"}}
    IN [s EXCEPT !.events = SubSeq(@, 1, keep),
                 !.SAVEDHEIGHT = Min({@} \cup undone)]

\* A negative height is a rewind, which pops the event it adds.
EventAddKmdHeight(s, height, kmdheight) ==
    IF kmdheight > 0
    THEN [EventAdd(s, "kmdheight", height) EXCEPT
             !.SAVEDHEIGHT = IF kmdheight > @ THEN kmdheight ELSE @]
    ELSE EventRewind(EventAdd(s, "rewind", height), height)

-----------------------------------------------------------------------------
(***************************************************************************)
(* Records.  komodo_stateupdate appends one and applies it; its fflush     *)
(* comes before it returns.  A notarisation without a MoM is written as    *)
(* 'N', which has no room for one.  A store is the state, the key-value    *)
(* store and the file.                                                     *)
(***************************************************************************)

Append_(st, record) == [st EXCEPT !.file = Append(@, record)]

\* Mutant: the rewind is not written.
WriteRewindUnwritten(st, height) ==
    [st EXCEPT !.sp = EventAddKmdHeight(EventRewind(@, height), height, -height)]

WriteRewind(st, height) ==
    Append_([st EXCEPT !.sp = EventAddKmdHeight(EventRewind(@, height), height, -height)],
            [func |-> "T", height |-> height, kmdheight |-> -height])

WriteKmdHeight(st, height) ==
    Append_([st EXCEPT !.sp = EventAddKmdHeight(@, height, height)],
            [func |-> "T", height |-> height, kmdheight |-> height])

WritePubkeys(st, height, pubkeys) ==
    Append_([st EXCEPT !.sp = EventAddPubkeys(@, height, pubkeys)],
            [func |-> "P", height |-> height, pubkeys |-> pubkeys])

WriteOpreturn(st, height, update) ==
    Append_([st EXCEPT !.sp = EventAdd(@, "opreturn", height),
                       !.kv = KvUpdate(@, update)],
            [func |-> "R", height |-> height, update |-> update])

WriteNotarized(st, height) ==
    LET n == [height |-> st.sp.NOTARIZED_HEIGHT, hash |-> st.sp.NOTARIZED_HASH,
              MoM |-> st.sp.MoM]
    IN Append_([st EXCEPT !.sp = EventAddNotarized(@, height, n)],
               IF n.MoM # 0
               THEN [func |-> "M", height |-> height, notarized |-> n.height,
                     hash |-> n.hash, MoM |-> n.MoM]
               ELSE [func |-> "N", height |-> height, notarized |-> n.height,
                     hash |-> n.hash])

\* Mutant: notarisations with a MoM are skipped.
ParseSkipsMoM(st, r) ==
    CASE r.func = "T" -> [st EXCEPT !.sp = EventAddKmdHeight(@, r.height, r.kmdheight)]
      [] r.func = "P" -> st
      [] r.func = "R" -> [st EXCEPT !.sp = EventAdd(@, "opreturn", r.height),
                                    !.kv = KvUpdate(@, r.update)]
      [] r.func = "M" -> st
      [] r.func = "N" -> [st EXCEPT !.sp = EventAddNotarized(@, r.height,
                            [height |-> r.notarized, hash |-> r.hash, MoM |-> 0])]

\* komodo_parsestatefiledata applies one record.  A ratification is read and not
\* applied: that is for the symbol "KMD", or KOMODO_EXTERNAL_NOTARIES, which
\* nothing sets.
Parse(st, r) ==
    CASE r.func = "T" -> [st EXCEPT !.sp = EventAddKmdHeight(@, r.height, r.kmdheight)]
      [] r.func = "P" -> st
      [] r.func = "R" -> [st EXCEPT !.sp = EventAdd(@, "opreturn", r.height),
                                    !.kv = KvUpdate(@, r.update)]
      [] r.func = "M" -> [st EXCEPT !.sp = EventAddNotarized(@, r.height,
                            [height |-> r.notarized, hash |-> r.hash, MoM |-> r.MoM])]
      [] r.func = "N" -> [st EXCEPT !.sp = EventAddNotarized(@, r.height,
                            [height |-> r.notarized, hash |-> r.hash, MoM |-> 0])]

\* komodo_faststateinit replays the whole file.
Replay(records) ==
    LET after[i \in 0..Len(records)] ==
            IF i = 0 THEN [sp |-> FreshState, kv |-> NoKv]
            ELSE Parse(after[i - 1], records[i])
    IN after[Len(records)]

-----------------------------------------------------------------------------
(***************************************************************************)
(* Blocks.                                                                 *)
(***************************************************************************)

\* komodo_validate_chain: the notarised block is in the block index at its height,
\* on whatever branch; not asked during initial download.
ValidateChain(out, ibd) ==
    ibd \/ (out.hash \in Chain \cup Older /\ Height[out.hash] = out.notarized)

\* Mutant: a notarisation need not be newer than the last one.
VoutUpdateAnyHeight(st, height, out, ibd, fJustCheck) ==
    CASE out.type = "kv" -> WriteOpreturn(st, height, out.update)
      [] out.type = "ratify" ->
            IF fJustCheck THEN st ELSE WritePubkeys(st, height, out.pubkeys)
      [] out.type = "notarise" ->
            IF ~fJustCheck /\ ValidateChain(out, ibd) /\ out.notarized < height
            THEN WriteNotarized(
                    [st EXCEPT !.sp.NOTARIZED_HEIGHT = out.notarized,
                               !.sp.NOTARIZED_HASH = out.hash,
                               !.sp.MoM = IF out.MoM # 0 THEN out.MoM ELSE @], height)
            ELSE st

\* komodo_voutupdate, and the ratification komodo_connectblock reads from a
\* transaction.  Notarisations here carry enough signatures.  A check leaves
\* notarisations and ratifications alone, and updates keys all the same.
VoutUpdate(st, height, out, ibd, fJustCheck) ==
    CASE out.type = "kv" -> WriteOpreturn(st, height, out.update)
      [] out.type = "ratify" ->
            IF fJustCheck THEN st ELSE WritePubkeys(st, height, out.pubkeys)
      [] out.type = "notarise" ->
            IF /\ ~fJustCheck
               /\ ValidateChain(out, ibd)
               /\ out.notarized > st.sp.NOTARIZED_HEIGHT
               /\ out.notarized < height
            THEN WriteNotarized(
                    [st EXCEPT !.sp.NOTARIZED_HEIGHT = out.notarized,
                               !.sp.NOTARIZED_HASH = out.hash,
                               !.sp.MoM = IF out.MoM # 0 THEN out.MoM ELSE @], height)
            ELSE st

\* A chain that pays its notaries looks at no transaction after the second one,
\* except in a check.
Scanned(out, fJustCheck) == fJustCheck \/ ~PaysNotaries \/ out.tx <= 1

\* The scan of the outputs of a block.
Scan(st, b, ibd, fJustCheck) ==
    LET applied[i \in 0..Len(Outputs[b])] ==
            IF i = 0 THEN st
            ELSE IF Scanned(Outputs[b][i], fJustCheck)
            THEN VoutUpdate(applied[i - 1], Height[b], Outputs[b][i], ibd, fJustCheck)
            ELSE applied[i - 1]
    IN applied[Len(Outputs[b])]

\* Whether ConnectBlock calls komodo_connectblock(true).
Checks(b) == PaysNotaries /\ Height[b] > PayAbove

\* What that call leaves, apart from the high-water mark.
Checked(b) == Scan([sp |-> sp, kv |-> kv, file |-> file], b, FALSE, TRUE)

\* The check refuses a block that notarises twice, or elsewhere than in its second
\* transaction.
InPosition(b) ==
    LET notarisations == {i \in 1..Len(Outputs[b]) : Outputs[b][i].type = "notarise"}
    IN \A i, j \in notarisations : i = j /\ Outputs[b][i].tx = 1

\* Mutant: a height reached again is not rewound.
ReorganisedBelow(height, mark) == height < mark

\* A block at or below the highest one seen replaces what that height said.
Reorganised(height, mark) == height <= mark

\* The calls of komodo_connectblock in ConnectBlock: the check, if there is one,
\* moves the mark to the height of the block.
Connected(b, ibd) ==
    LET st == IF Checks(b) THEN Checked(b) ELSE [sp |-> sp, kv |-> kv, file |-> file]
        mark == IF Checks(b) THEN Height[b] ELSE hwmheight
        clean == IF Reorganised(Height[b], mark) THEN WriteRewind(st, Height[b]) ELSE st
    IN WriteKmdHeight(Scan(clean, b, ibd, FALSE), Height[b])

Connect(b, ibd) ==
    /\ Parent[b] = tip
    /\ Checks(b) => InPosition(b)
    /\ \E st \in {Connected(b, ibd)} :
          /\ Len(st.file) <= MaxRecords
          /\ sp' = st.sp /\ kv' = st.kv /\ file' = st.file
    /\ hwmheight' = Height[b]
    /\ tip' = b
    /\ UNCHANGED <<last_NPOINTSi, stored, restarts, disconnects>>

\* A check of a block that then turns out invalid, or was only a test
\* (TestBlockValidity).
JustCheck(b) ==
    /\ Parent[b] = tip
    /\ Checks(b)
    /\ \E st \in {Checked(b)} :
          /\ Len(st.file) <= MaxRecords
          /\ sp' = st.sp /\ kv' = st.kv /\ file' = st.file
    /\ hwmheight' = Height[b]
    /\ UNCHANGED <<last_NPOINTSi, tip, stored, restarts, disconnects>>

Disconnect ==
    /\ tip # Base
    /\ disconnects < MaxDisconnects
    /\ disconnects' = disconnects + 1
    /\ tip' = Parent[tip]
    /\ UNCHANGED <<sp, kv, file, hwmheight, last_NPOINTSi, stored, restarts>>

\* FlushStateToDisk: the coins name the tip.
Flush ==
    /\ stored' = tip
    /\ UNCHANGED <<sp, kv, file, hwmheight, last_NPOINTSi, tip, restarts, disconnects>>

\* The process starts again on the file `records'.
StartFrom(records) ==
    /\ restarts' = restarts + 1
    /\ \E st \in {Replay(records)} :
          sp' = st.sp /\ kv' = st.kv /\ file' = records
    /\ hwmheight' = 0 /\ last_NPOINTSi' = 0
    /\ tip' = stored
    /\ UNCHANGED <<stored, disconnects>>

\* A crash, between two blocks or between two records of one block.
Crash == restarts < MaxRestarts /\ StartFrom(file)

CrashConnecting(b, ibd) ==
    /\ restarts < MaxRestarts
    /\ Parent[b] = tip
    /\ \E st \in {IF Checks(b) /\ ~InPosition(b) THEN Checked(b) ELSE Connected(b, ibd)} :
          \E written \in {n \in Len(file)+1..Len(st.file) : n <= MaxRecords} :
             StartFrom(SubSeq(st.file, 1, written))

\* komodo_notarizeddata for a height, by header checks, RPC calls or the miner.
Lookup(h) ==
    /\ last_NPOINTSi' = NotarizedData(sp.NPOINTS, last_NPOINTSi, h).last
    /\ UNCHANGED <<sp, kv, file, hwmheight, tip, stored, restarts, disconnects>>

\* kvsearch, and the search kvupdate starts with.
Search(key) ==
    /\ kv' = KvSearch(kv, key, Height[tip])
    /\ UNCHANGED <<sp, file, hwmheight, last_NPOINTSi, tip, stored, restarts, disconnects>>

MaxHeight == Max({Height[b] : b \in Blocks})

\* The heights looked up; below them there are no points.
Asked == Height[Base] + 1 .. MaxHeight + 1

Init ==
    /\ sp = FreshState
    /\ kv = NoKv
    /\ file = <<>>
    /\ hwmheight = 0 /\ last_NPOINTSi = 0
    /\ tip = Base /\ stored = Base
    /\ restarts = 0 /\ disconnects = 0

Next ==
    \/ \E b \in Blocks, ibd \in BOOLEAN : Connect(b, ibd)
    \/ \E b \in Blocks : JustCheck(b)
    \/ Disconnect
    \/ Flush
    \/ Crash
    \/ \E b \in Blocks, ibd \in BOOLEAN : CrashConnecting(b, ibd)
    \/ \E h \in Asked : Lookup(h)
    \/ \E key \in Keys : Search(key)

Spec == Init /\ [][Next]_vars

-----------------------------------------------------------------------------
Heights == 0..MaxHeight

\* The types of the dPoW state, the event list and the bounds of the model.
TypeOK ==
    /\ sp.events \in Seq([type : {"notarized", "ratify", "kmdheight", "opreturn"},
                          height : Heights])
    /\ sp.NOTARIZED_HEIGHT \in Heights /\ sp.SAVEDHEIGHT \in Heights
    /\ Len(file) <= MaxRecords
    /\ hwmheight \in Heights
    /\ tip \in Chain /\ stored \in Chain
    /\ last_NPOINTSi \in Nat

NeverOwned(key) ==
    \A i \in 1..Len(file) :
        file[i].func = "R" /\ file[i].update.key = key =>
            file[i].update.pubkey = None /\ file[i].update.transfer = None

\* The events `part' are the events `full' without the ratifications.
WithoutRatifications(full, part) ==
    LET kept == {i \in 1..Len(full) : full[i].type # "ratify"}
    IN /\ Len(part) = Cardinality(kept)
       /\ \A i \in kept : part[Cardinality({j \in kept : j <= i})] = full[i]

\* The file says all there is to say but for ratifications, which a replay skips:
\* at any time, through reorganisations that rewind events and checks that add
\* some, replaying it gives the notarisations and the saved height that the running
\* node has, its events except the ratifications, whose absence never makes a
\* rewind stop elsewhere, and the entry of every key a search finds, if nobody ever
\* owned the key.
ReplayFaithful ==
    LET replayed == Replay(file)
    IN /\ WithoutRatifications(sp.events, replayed.sp.events)
       /\ replayed.sp.NPOINTS = sp.NPOINTS
       /\ replayed.sp.NOTARIZED_HEIGHT = sp.NOTARIZED_HEIGHT
       /\ replayed.sp.NOTARIZED_HASH = sp.NOTARIZED_HASH
       /\ replayed.sp.MoM = sp.MoM
       /\ replayed.sp.SAVEDHEIGHT = sp.SAVEDHEIGHT
       /\ \A k \in Keys : kv[k] # None /\ NeverOwned(k) => kv[k] = replayed.kv[k]

\* Notarised heights only go up along NPOINTS, even when a reorganisation or a
\* crash makes the node see other blocks, or the same ones again, and the newest
\* is the one the node enforces.
NotarizedMonotone ==
    /\ \A i, j \in 1..Len(sp.NPOINTS) :
          i < j => sp.NPOINTS[i].notarized < sp.NPOINTS[j].notarized
    /\ sp.NOTARIZED_HEIGHT =
          IF sp.NPOINTS = <<>> THEN 0 ELSE Last(sp.NPOINTS).notarized

\* The most recent point below h, where points are in the order of their blocks.
MostRecentBelow(h) == Max({0} \cup {i \in 1..Len(sp.NPOINTS) : sp.NPOINTS[i].nHeight < h})

PointsOrdered == \A i \in 1..Len(sp.NPOINTS) - 1 :
                    sp.NPOINTS[i].nHeight <= sp.NPOINTS[i + 1].nHeight

\* komodo_notarizeddata never names a notarisation whose block is not below the
\* height asked for, whatever earlier lookups left in the cache and even when a
\* reorganisation left the points out of order; in order, it names the most
\* recent one.  The cached position is never past the points there are, which the
\* next lookup would read.
LookupSound ==
    /\ last_NPOINTSi \in 0..Max({1, Len(sp.NPOINTS)}) - 1
    /\ \A h \in Asked :
        LET found == NotarizedData(sp.NPOINTS, last_NPOINTSi, h).found
        IN /\ found # 0 => sp.NPOINTS[found].nHeight < h
           /\ PointsOrdered => found = MostRecentBelow(h)

\* A notarisation the node has acted on is never forgotten or changed, through
\* reorganisations, crashes and crashes between two records.
NotarizationsKept == [][IsPrefix(sp.NPOINTS, sp'.NPOINTS)]_vars

\* The events up to height h come first and in the order of heights.
Tidy(events, h) ==
    \E n \in 0..Len(events) :
        /\ \A i \in 1..n : events[i].height <= h
        /\ \A i \in 1..n - 1 : events[i].height <= events[i + 1].height
        /\ \A i \in n + 1..Len(events) : events[i].height > h

\* While the node runs, the events of the heights up to the tip stay in order, and
\* what disconnected blocks and checks of other blocks left comes after them: the
\* rewind, which stops at the first lower event, then takes away all of that and
\* nothing else.
RunningKeepsOrder ==
    [][hwmheight # 0 /\ hwmheight' # 0 /\ Tidy(sp.events, Height[tip])
         => Tidy(sp'.events, Height[tip'])]_vars

\* While the node runs, a ratification never changes who the notaries of a height
\* up to the new tip are, as long as that height is not in the last entry of the
\* table, which every ratification near or beyond its end overwrites.
ElectionsFixed ==
    [][restarts' = restarts =>
         \A h \in 0..Height[tip'] :
            h \div Gap < Epochs - 1 => NotariesAt(sp', h) = NotariesAt(sp, h)]_vars

\* An entry lives for the days its update asked and paid for: kvupdate reports
\* "expiration", the "height the key will expire" (wallet/rpcwallet.cpp:574).
KeyLasts ==
    \A k \in Keys : kv[k] # None =>
        \E i \in 1..Len(file) :
            /\ file[i].func = "R"
            /\ file[i].update.key = k
            /\ file[i].update.value = kv[k].value
            /\ KvDuration(file[i].update.flags) = KvDuration(kv[k].flags)
=============================================================================
