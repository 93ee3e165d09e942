# A TLA+ model of the IndexChain node

IndexChain is a full node of the Komodo family: a Bitcoin/Zcash code base
(`src/src/main.cpp`, `coins.cpp`, `checkqueue.h`, ...) with *delayed proof of
work* (dPoW, `komodo*.h`): notary nodes write notarisations of recent blocks
into the chain, and a node refuses to reorganise below a notarised block.
This directory models the parts of the node that carry its own state: the
active chain, the state that is kept beside it and on disk, block download, and
the threads that serve RPC calls and verify scripts.

## 1. Inventory

| Component | State | Operations | Hard part |
|---|---|---|---|
| Block index and active chain (`main.cpp`, `chain.*`, `rpc/blockchain.cpp`) | `mapBlockIndex` with status bits, `nChainTx`, `nSequenceId`; `setBlockIndexCandidates`, `mapBlocksUnlinked`, `chainActive` | `AcceptBlockHeader`, `AcceptBlock`, `ProcessNewBlock`, `ActivateBestChain(Step)`, `FindMostWorkChain`, `ConnectTip`, `DisconnectTip`, `InvalidateBlock`, `ReconsiderBlock` | threads interleave because `cs_main` is released between steps; blocks arrive in any order; reorganisations fail half-way |
| Block files, index database, restart (`main.cpp`, `txdb.cpp`) | blk and rev files, `vinfoBlockFile`, dirty sets, `pblocktree`, coin database | `FlushStateToDisk`, `FindFilesToPrune`, `LoadBlockIndexDB`, `RewindBlockIndex` | a crash or power failure between any two writes; positions allotted twice |
| dPoW state (`komodo_notary.h`, `komodo.h`, `komodo_bitcoind.h`) | `NOTARIZED_HEIGHT/HASH`, `NPOINTS`, `last_NPOINTSi`, `Pubkeys` | `komodo_connectblock` / `komodo_voutupdate`, `komodo_notarized_update`, `komodo_notarizeddata`, `komodo_checkpoint`, `komodo_validate_chain`, `komodo_notarysinit` | never undone when blocks are disconnected; cached lookup; finality over a long history |
| Komodo events and state file (`komodo_events.h`, `komodo.h`, `komodo_gateway.h`) | event list, `hwmheight`, the `komodostate` file | add, rewind, write a record, replay | the file is ahead of the chain after a crash |
| Key-value store (`komodo_kv.h`) | `KOMODO_KV` | search, update | expiry, ownership, replay |
| Coins cache (`coins.*`, `txdb.*`) | stacked maps with DIRTY/FRESH, best block and anchors, LevelDB | fetch, modify, push and pop anchors, batch write, flush | wrong hints silently lose or revive a coin |
| Script check queue (`checkqueue.h`) | `queue`, `nIdle`, `nTotal`, `nTodo`, `fAllOk` | `Loop`, `Add`, `Wait`, control object | worker interleavings, lost wake-ups, interruption at shutdown |
| HTTP server (`httpserver.cpp`, `httprpc.cpp`) | work queue, `numThreads`, `running`, replies | `Enqueue`, `Run`, `Interrupt`, `WaitExit`, `StopHTTPServer` | depth limit, shutdown races, one condition variable for two purposes |
| Asynchronous RPC queue (`asyncrpcqueue.*`, `asyncrpcoperation.*`) | operation map, id queue, states, `closed_` | add, run, cancel, pop, `closeAndWait` | races of cancel and close, results delivered once |
| Block download (`main.cpp`, `net.cpp`) | `CNodeState`, `mapBlocksInFlight`, counters | `inv`, `headers`, `block`, `SendMessages`, timeouts, disconnects | late answers, stalling, limits |
| Memory pool, address manager, scheduler, notarisation database, wallet witnesses | maps and databases | - | planned (section 6) |
| Miner, difficulty, scripts, proofs, contracts, GUI, LevelDB, libraries | - | - | outside TLC's reach or not this program's own logic |

The components interact as follows. Peers announce blocks; the download logic
asks for them and hands them, like the miner, to `ProcessNewBlock`, which
stores them (`AcceptBlock`) under `cs_main` and then calls
`ActivateBestChain`. That function repeatedly takes `cs_main`, finds the best
candidate and takes one step towards it. A step connects blocks through
`ConnectTip` -> `ConnectBlock`, which changes coins in a view over `pcoinsTip`,
verifies scripts through the check queue, writes undo data and, for valid
blocks, calls `komodo_connectblock`, which applies notarisations, ratifications
and key updates and appends them to `komodostate`. `FlushStateToDisk` writes
files, block index and coins. `DisconnectTip` and `ActivateBestChainStep`
consult the dPoW state before they undo a block, and header checks consult it
through `komodo_checkpoint`. RPC calls arrive through the HTTP server's work
queue, change marks and candidates (`invalidateblock`, `reconsiderblock`) or
queue long operations (`z_sendmany`) for the asynchronous worker; `Interrupt`
and `Shutdown` stop all of these threads in order.

## 2. Modules

| Module | Models | Used by |
|---|---|---|
| `ChainState` | block index, active chain, dPoW rules, the two RPC calls | `MCChainState`, `ChainStateProofs` |
| `MCChainState` | a block tree with two branches for TLC | the `chain_*` runs |
| `ChainStateProofs`, `BestChainProofs` | theorems about `ChainState`: soundness and finality; completeness | TLAPS |
| `CheckQueue`, `CheckQueueProofs` | the script check queue and its theorems | run `checkqueue`, TLAPS |
| `CoinsLedger` | abstract specification: three ledgers (database, tip, view) without caches | `CoinsCache` |
| `CoinsCache`, `CoinsCacheProofs` | `CCoinsViewCache` over `CCoinsViewCache` over `CCoinsViewDB`; its theorems | run `coins_cache`, TLAPS |
| `BlockStore`, `MCBlockStore`, `BlockStoreProofs` | block files, index database, flush, prune, crash, restart, rewind; their theorems | runs `block_store`, `store_interrupted`, TLAPS |
| `NotarizedPoints` | the pure lookup `komodo_notarizeddata` with its cache | `ChainState`, `KomodoState` |
| `KomodoKV` | the pure operators of the key-value store | `KomodoState` |
| `KomodoState`, `MCKomodoState`, `KomodoStateProofs` | dPoW state, events, ratifications, key-value store and the state file; their theorems | run `komodo_state`, TLAPS |
| `HttpServer` | event thread, work queue and workers, stop of the server | `RpcServer` |
| `AsyncRpcQueue` | operations, the worker, `closeAndWait` | `RpcServer` |
| `RpcServer`, `RpcServerProofs` | the two composed: handlers, wallet lock, shutdown sequence; theorems about both | run `rpc_server`, TLAPS |
| `BlockDownload`, `MCBlockDownload`, `BlockDownloadProofs` | peers, requests in flight, timeouts; their theorems | runs `block_download`, `download_count`, TLAPS |

**ChainState.** Variables carry the names of the code's globals. A block is a
constant with its parent, ancestors and cumulative work; what a node can find
out about it (breaks a consensus rule in `ConnectBlock`, breaks a contextual
rule in `AcceptBlock`, carries a notarisation of another block) is a constant
too. `linked` is `nChainTx # 0`, `failedValid` and `failedChild` are the two
status bits. `csMain` names the thread that keeps `cs_main` over several
actions. A critical section that does one thing is one action
(`ReceiveHeader`, `ProcessNewBlock`, `ReconsiderBlock`, `NothingToDo`); the
loops of `FindMostWorkChain`, `ActivateBestChainStep` and `InvalidateBlock` are
one action per iteration with the lock held (`DropFailedChain`, `StartStep`,
`DisconnectStep`, `ConnectStep`, `InvalidateStep`, `InvalidateDone`), and
`CheckLoop` is the loop condition `pindexMostWork != chainActive.Tip()` that is
read without the lock. `fSkipdpow`, `pindexMostWork`, `pindexOldTip` and `arg`
are the locals that live across actions and are reset when the call returns.
`finalized` is a history variable: every block that was ever notarised.
`Init` is a node after `InitBlockIndex` with an empty data directory: the
genesis block alone. `ReceiveHeader` is a headers message with one header; a
longer message is a sequence of them (nothing else can happen in between, so
the model has a superset of the code's interleavings).

**CheckQueue.** One action per critical section of the mutex. `LoopTop` is the
part of `Loop` from "logically, the do loop starts here" to the end of the
critical section; `Enter`, `Finish` and `Wake` are the three ways into it.
The master is any thread that holds `cs_main` inside `ConnectBlock`;
`CallWait(FALSE)` is an early return of `ConnectBlock`, where the destructor
waits. `InterruptAll` and `Thrown` model `threadGroup.interrupt_all()`:
`cond.wait` throws, the counters keep the thread that is gone, and a master
inside `Wait` runs into the destructor's second `Wait`.

**CoinsCache.** One action per call of the view's interface, on `pcoinsTip` or
on the view that a block is processed in. A read fills the caches it passes
through. An entry holds the set of unspent outputs, so that spending one
output, all of them and a reorganisation that brings them back are different
changes. `FlushView` is `BatchWrite` into `pcoinsTip`, `FlushTip` the atomic
LevelDB batch, `DiscardView` an invalid or only tested block, `Crash` loses
both caches. `DbLedger`, `TipLedger` and `ViewLedger` compute what each level
would answer; with them as the refinement mapping the module implements
`CoinsLedger!Spec`, in which a flush copies a ledger and a read does nothing.

**BlockStore.** A file is a row of slots; a slot holds the data of one block.
`AcceptBlock` takes the next slot (`FindBlockPos`, which also moves to the next
file and flushes the old one), `ConnectTip` writes undo data into the rev file
of the same number. `FlushStateToDisk` is several actions, because the process
may die between them: `FlushStart` or `FlushPrune` commit the last files,
`FlushIndex` is the batch of the block index, `FlushUnlink` removes pruned
files, `FlushCoins` writes the coins. `Crash` loses the memory and any subset
of what was not committed; `Start` is `LoadBlockIndexDB`, possibly by upgraded
software, and is followed by `RewindBlockIndex` (`RewindStep`, `RewindEnd`,
`RewindRefused`). `branch` is `nCachedBranchId`, from which the rewind decides
what was validated under the present rules. `DisconnectTip` refuses the
notarised block (`main.cpp:4032`), and the rewind then ends with an error like
any rewind that cannot go on; so the module has the one part of the dPoW state
that is asked for, `notarized`, in memory and as the file `komodostate` gives it
back. `komodo_init` reads it the first time a block is connected or
disconnected, or earlier; `Start` leaves open whether it has run, and
`KomodoDisconnect` is the call that `DisconnectBlock` makes.

**KomodoState.** `Connect` is what `ConnectBlock` does with
`komodo_connectblock`. On a chain that pays its notaries (`PaysNotaries`) a block
above `PayAbove` is first checked (`Checked`, the call with `fJustCheck` set):
the scan leaves notarisations and ratifications alone but writes and applies key
updates like any other (`komodo.h:605-609`), moves `hwmheight` without a rewind,
and refuses a block whose notarisation is not in its second transaction
(`InPosition`). Then comes the call itself: the rewind when the height is not
above `hwmheight`, the outputs in order (`Scan`, `VoutUpdate`; a chain that pays
its notaries stops after the second transaction), and the `kmdheight` record that
ends it. `JustCheck` is a check of a block that is then not connected, because it
is invalid or only tested. Every record is appended to `file`, which the code
flushes at the end of each `komodo_stateupdate`; `CrashConnecting` dies between
two records of one block. `StartFrom` is the replay at start, on a chain whose tip
is what the databases hold. A replay skips ratifications (`Parse`): the code
applies them for the symbol `KMD` or with `KOMODO_EXTERNAL_NOTARIES`, which
nothing sets (`komodo.h:245`), so an asset chain is back at the notaries of
`komodo_init` after every restart. `ElectionOf` and `NotariesAt` have the clamp to
the last entry of the table (`komodo_notary.h:212`, `:147`). `Lookup` and `Search`
are the reads that change state (the cached position; the removal of an expired
key).

**RpcServer.** `HttpServer` has the event thread, the workers and the main
thread's part of the stop, `AsyncRpcQueue` the worker and `closeAndWait`;
`RpcServer` adds the handlers: `z_sendmany`, which queues an operation,
`z_getoperationresult`, which collects finished ones under the wallet lock in
two critical sections each, and any other call. `MainThread` follows
`Interrupt` and `Shutdown`. libevent is modelled from how the code uses it: its
loop runs one callback at a time, `loopexit` lets pending events run, the
`loopbreak` after two seconds does not. `WaitExit` waits for the workers counted
in `numThreads` and for nothing else. The workers in `Late` have not run when the
model begins, so they may come to the queue after it was deleted, and so may the
request callback that was half-way when the stop began. The code then uses freed
memory; the model lets such a worker leave, or wait for ever, and lets the
callback's request be answered or lost. That the process ends instead is not
modelled.

**BlockDownload.** `nodes` is `mapNodeState`, `inFlight` `mapBlocksInFlight`.
A message is one action, `SendMessages` one pass for one peer, including
`FindNextBlocksToDownload`; `TimeOut` is its timeout part, enabled at any time
after the request because the model has no clock. The node is in initial
download. Announcements by `inv` overwrite `hashLastUnknownBlock`, as
`UpdateBlockAvailability` does. `Entry` is the list iterator that the map holds
for a block: it is well defined only while the map and the list agree.

## 3. Runs

### Passing runs

The `chain_*` runs use parts of the tree

    g --- a1 --- a2 --- a3 --- a4
            `--- b2 --- b3 --- b4

where the b branch wins by the work of its last block.

* `chain_net` (22,708 states): two threads, headers and blocks of both
  branches in every order, requested or not, `b3` breaks a consensus rule and
  `a4` a contextual one. `CandidatesComplete` (no winnable block is missing
  from the candidates once all calls have returned), `LinkedExact` (`nChainTx`
  is set exactly for blocks with data down to genesis), `BestChainActive` (the
  tip has the most work of all connectable blocks) and `ActivationReturns`
  (every `ActivateBestChain` returns).
* `chain_dpow` (326,933 states): one thread, `a3` notarises `a2`, a heavy fork
  `b2`, both RPC calls, `ASSETCHAINS_CC`, reorganisation limit 2. `TypeOK`,
  `Finality` (no block ever notarised leaves the active chain),
  `CandidatesSound` (candidates have all data and are not worse than the tip,
  the assertions in `FindMostWorkChain` and `CheckBlockIndex`) and the action
  property `PruneLeavesOne` (the assertion of `PruneBlockIndexCandidates`).
* `chain_rpc` (264,686 states): `invalidateblock` of any block at any time, no
  notarisation. `ActiveChainValid`, `CandidatesComplete`.
* `checkqueue` (49,522 states): two workers, three checks, one of them bad,
  batches of at most two, spurious wake-ups and one shutdown. `TypeOK`,
  `VerdictCorrect`, `ControlFindsIdle` (the assertion in the control's
  constructor), `TodoExact`, `WakeupOwed` (no lost wake-up of the master) and
  `WaitReturns`.
* `coins_cache` (718,924 states): one transaction with two outputs, a
  nullifier, one pool with two roots. `ImplementsLedger` (the refinement),
  `HintsSound` (what FRESH and DIRTY must mean, and the assertion in
  `BatchWrite`), `BestAnchorLatest`.
* `block_store` (9,425,724 states): two blocks, the second of which notarises the
  first, and a fork, two files of two slots, pruning, an upgrade at height 1,
  rewinds of up to two blocks, crashes at any time except between the writes of a
  flush that prunes. `StoredWhereIndexed` (where the index in memory or on disk
  points, there the block is), `CoinsReferToIndex` (the coins on disk name a chain
  that the index on disk knows) and `RewindContinues`: `RewindBlockIndex` gives up
  only when it would undo too many blocks, at the notarised block, or at a block
  whose data an interrupted rewind has given up. It does meet the notarised block
  here; a block given up stops it only without pruning (`store_interrupted`).
* `rpc_server` (353,671 states): one `z_sendmany`, two `z_getoperationresult`,
  two HTTP workers of which one may start late, a queue of depth one, one
  asynchronous worker. `QueueOutlivesThreads` (when the queue is deleted every
  worker that ran before the stop has left and no late one holds a request),
  `NoRequestStranded` (in a stopped server all requests are answered but at most
  one, whose callback was half-way), `ResultDeliveredOnce`,
  `ReportedIsDone`, `ClosedIsQuiet`; and `EveryRequestAnswered`,
  `EveryOperationEnds`, `ShutdownCompletes`.
* `block_download` (150,526 states): an honest peer and one that does as it
  likes, on different branches, a window of one, two requests per peer.
  `InFlightConsistent`, `StallersOwe`, `WindowRespected` and `Downloaded`.
* `komodo_state` (571,872 states): a chain that pays its notaries; two branches of
  different height carry notarisations, ratifications at the end of the election
  table and key updates, of which some are written by a check only; a block fails
  its check; one crash, three disconnected blocks. `ReplayFaithful` (the replay
  gives the notarisations and the events of the running node except ratifications,
  and the keys nobody owned), `NotarizedMonotone`, `LookupSound`, and the action
  properties `NotarizationsKept`, `RunningKeepsOrder` (the events up to the tip
  stay in order, in front of all that disconnected blocks and checks left) and
  `ElectionsFixed` (no ratification changes the notaries of a height reached, the
  last entry of the table excepted).

`CoinsCache`, `BlockStore`, `RpcServer`, `BlockDownload` and `KomodoState` also
define `TypeOK`; it holds on the same instances and is left out of their
configurations, which list the properties that are about a hazard.

### Runs that show a disagreement between the code and what it says

Each of these states what a comment or a help text says, and TLC shows a
behaviour of the code that contradicts it (quotes in `PROJECT.json`).

* `chain_stall`: a refused fork below the notarised height stays the best
  candidate, so blocks extending the tip are not connected until they have more
  work than the fork.
* `download_count`: the requests of a peer that disconnects stay in
  `nQueuedValidatedHeaders`, which is no longer the "Number of blocks in flight
  with validated headers" and lengthens later timeouts.
* `store_interrupted`: a rewind that is interrupted in its last flush cannot be
  continued, because the lack of data is written before the coins; that is what
  the comment at `main.cpp:6313` wants to avoid.

### Disagreements that have no run

They are found with the modules as they are, by other constants or by a
property that is defined and not listed in a configuration.

| Where | Change to make | What TLC shows |
|---|---|---|
| `ChainState`, as in `chain_net` | invariant `CandidatesAlwaysComplete` | an invalid block half-way through a reorganisation makes `ActivateBestChain` release `cs_main` with a worse tip that is not a candidate; it heals before the calls return |
| `ChainState` | `Notarises <- MCNotarisesFork`, invariant `NotarizedInChain` | `komodo_validate_chain` accepts a notarisation of a block on another branch |
| `ChainState` | `Notarises <- MCNotarises`, `Rpcs = {"invalidateblock"}`, `ActiveChainValid` | `invalidateblock` at or below the notarised block leaves failed marks on the active chain |
| `ChainState` | both RPC calls, `CandidatesComplete` | `reconsiderblock` clears marks of ancestors without making them candidates again |
| `ChainState` | `ASSETCHAINS_CC = TRUE`, `Invalid = {a2}`, `CandidatesComplete` | a re-sent header clears a failed mark the same way |
| `ChainState` | both RPC calls, `LinkedExact` | a block received below a failed parent is never linked, although the failure is withdrawn |
| `RpcServer` | invariant `CancelledNeverRan` | `cancel` tests and stores in two steps; an operation that starts in between runs and is reported cancelled |
| `RpcServer` | invariant `WorkersStopped` | `WaitExit` does not count a worker that has not started, so the queue is deleted before the "worker threads have all stopped", the precondition of its destructor (`httpserver.cpp:101`) |
| `BlockStore`, as in `block_store` | `CrashPoints = {"any", "late"}`, `StoredWhereIndexed` | undo data written to a rev file after `FindBlockPos` has moved on is never committed by `FlushBlockFile`, against "First make sure all block and undo data is flushed to disk." (`main.cpp:3906`) |
| `BlockStore`, as in `block_store` | `CrashPoints = {"any", "prune"}`, invariant `TipNotPruned` | a crash between the index and the coins of a pruning flush leaves an older tip whose data is pruned |
| `KomodoState` | invariant `KeyLasts` | a key updated for two days lives one: `komodo_kvsearch` overwrites the flags of the update before they are stored (`komodo_kv.h:139`), against the expiry that `kvupdate` reports (`rpcwallet.cpp:574`) |
| `KomodoState` | `ElectionsFixed` without `h \div Gap < Epochs - 1` | beyond the end of the table every ratification overwrites the last entry, which also serves heights already past |

### Bounds

Three to four blocks per branch are the smallest trees in which a
reorganisation disconnects more than one block, fails half-way (a valid block
before the invalid one, on a longer chain), passes over a notarised block, and
leaves blocks waiting for their parents. `MaxReorg` and `DownloadWindow` are
chosen so that both limits are hit in some runs. Two threads suffice for the
races on `cs_main` because a step involves one thread that was interrupted and
one that interferes; the runs with RPC calls and notarisations use one thread,
whose calls still interleave with headers, to keep every order of calls within
reach. In `CheckQueue` two workers and three checks give idle, running and
finishing threads at the same time and batches of different sizes.

In `CoinsCache` transactions are independent of each other, so one with two
outputs shows every combination of hints over three levels; two roots are the
least for an anchor to be pushed and popped. In `BlockStore` two files of two
slots are filled, left and pruned, a chain of two with a fork makes blocks
be stored in another order than connected, and the notarisation in the second
block makes a rewind over both meet the notarised one. In `RpcServer` a depth of one and
three requests overflow the queue, two collectors race for one result, and one
late worker raises the count while the main thread waits. In
`BlockDownload` a window of one makes the honest peer wait for a block that
the other holds back. `KomodoState` bounds the records of the file
(`MaxRecords`), restarts and disconnections; epochs of two blocks put election
boundaries inside the tree and, with four entries in the table, its end too, and the lower branch carries the later notarisation, so that `NPOINTS` gets
out of height order.

### Fairness

`ChainState` assumes weak fairness of `Continue(t)`: a thread inside
`ActivateBestChain` or `InvalidateBlock` that could run eventually does. Peers
and users are not obliged to do anything. With `invalidateblock` repeated for
ever `cs_main`, which is not a fair lock, can be kept from a waiting thread, so
`ActivationReturns` is checked without RPC calls, where it needs no more than
weak fairness because finitely many blocks can be accepted. `CheckQueue`
assumes weak fairness of each thread inside `Loop`, which is what the operating
system's scheduler gives; spurious wake-ups, new blocks and shutdown are not
fair. `RpcServer` assumes weak fairness of each thread; a client sends a
request once, so that the wallet lock is taken finitely often and cannot be
kept from a waiting worker. `BlockDownload` assumes that the message thread
serves every peer, that a timeout that can pass does, and that an honest peer
connects, answers what it is asked and announces its best block again and
again; the other peer may withhold anything, but announces and sends unasked
blocks only finitely often. The announcements are needed: headers are asked of
one peer only, and a peer that never answers this request is never timed out.
`CHECK_DEADLOCK FALSE` is set for `CheckQueue` and `RpcServer` only: after the
process has terminated nothing happens.

## 4. Proofs

TLAPS proves, for every value of the constants that satisfies the named
assumptions:

| Theorem | Statement |
|---|---|
| `ChainStateProofs!TypeCorrect` | `Spec => []TypeOK` |
| `ChainStateProofs!CandidatesAreSound` | `Spec => []CandidatesSound` |
| `ChainStateProofs!FinalityHolds` | `SameChain => (Spec => []Finality)` |
| `BestChainProofs!PruningLeavesOne` | `Spec => PruneLeavesOne` |
| `BestChainProofs!LinkedIsExact` | `NeverInvalidated => (Spec => []LinkedExact)` |
| `BestChainProofs!ActiveChainIsValid` | `(NeverInvalidated \/ NoNotarisation) => (Spec => []ActiveChainValid)` |
| `BestChainProofs!BestChainIsActive` | `NeverInvalidated /\ NoNotarisation => (Spec => [](~shutdown => BestChainActive))` |
| `BestChainProofs!CandidatesAreComplete` | `NeverInvalidated /\ NoNotarisation /\ NeverCleared => (Spec => [](~shutdown => CandidatesComplete))` |
| `CheckQueueProofs!TypeCorrect` | `Spec => []TypeOK` |
| `CheckQueueProofs!TodoIsExact` | `Spec => []TodoExact` |
| `CheckQueueProofs!VerdictIsCorrect` | `Spec => []VerdictCorrect` |
| `CheckQueueProofs!ControlAlwaysFindsIdle` | `Spec => []ControlFindsIdle` |
| `CheckQueueProofs!WakeupIsOwed` | `Spec => []WakeupOwed` |
| `CoinsCacheProofs!TypeCorrect` | `Spec => []TypeOK` |
| `CoinsCacheProofs!HintsAreSound` | `Spec => []HintsSound` |
| `CoinsCacheProofs!BestAnchorIsLatest` | `Spec => []BestAnchorLatest` |
| `CoinsCacheProofs!Refinement` | `Spec => ImplementsLedger` |
| `BlockStoreProofs!TypeCorrect` | `Spec => []TypeOK` |
| `BlockStoreProofs!StoredIsIndexed` | `"late" \notin CrashPoints => (Spec => []StoredWhereIndexed)` |
| `BlockStoreProofs!CoinsAreIndexed` | `Spec => []CoinsReferToIndex` |
| `BlockStoreProofs!RewindCanContinue` | `"late" \notin CrashPoints => (Spec => []RewindContinues)` |
| `KomodoStateProofs!TypeCorrect` | `Spec => []TypeOK` |
| `KomodoStateProofs!FileIsFaithful` | `Spec => []ReplayFaithful` |
| `KomodoStateProofs!NotarizationsRise` | `Spec => []NotarizedMonotone` |
| `KomodoStateProofs!LookupIsSound` | `Spec => []LookupSound` |
| `KomodoStateProofs!NotarizationsAreKept` | `Spec => NotarizationsKept` |
| `KomodoStateProofs!OrderIsKept` | `Spec => RunningKeepsOrder` |
| `KomodoStateProofs!ElectionsAreFixed` | `Spec => ElectionsFixed` |
| `RpcServerProofs!TypeCorrect` | `Spec => []TypeOK` |
| `RpcServerProofs!QueueIsOutlived` | `Spec => []QueueOutlivesThreads` |
| `RpcServerProofs!NobodyIsStranded` | `Spec => []NoRequestStranded` |
| `RpcServerProofs!DeliveryIsOnce` | `Spec => []ResultDeliveredOnce` |
| `RpcServerProofs!ReportIsFinal` | `Spec => []ReportedIsDone` |
| `RpcServerProofs!CloseIsQuiet` | `Spec => []ClosedIsQuiet` |
| `BlockDownloadProofs!RequestsAgree` | `Spec => []InFlightConsistent` |
| `BlockDownloadProofs!BlameIsEarned` | `Spec => []StallersOwe` |
| `BlockDownloadProofs!WindowIsKept` | `Spec => []WindowRespected` |

Every safety invariant and action property that a passing run checks is a
theorem. The hypotheses in front of some of them exclude what section 3 shows to
break the property; none is vacuous, since the passing run
of the property satisfies it. Only `CandidatesAreComplete` excludes more than
its runs do: `chain_rpc` also has `invalidateblock`.

*ChainState.* `TreeAssumption` says that blocks form a tree with increasing
work; `NotaryAssumption` and `ParameterAssumption` give types.
The inductive invariant is `TypeOK /\ Links /\ CandidatesSound /\ Working`.
`CandidatesSound` alone is not inductive: that new candidates have all data
needs `Links` (linked blocks have linked ancestors), and that pruning removes
what got worse needs `Working` (what a thread in the middle of a step works
on). The tip only moves to blocks between a candidate and the active chain, so
the candidates' data is also the tip's data.

Finality needs a second invariant, `Notarised`: the last notarised block is on
the active chain and all earlier ones are its ancestors. It holds only under
`SameChain` (notaries sign blocks of the chain their notarisation is mined in),
which the code does not check (`NotarizedInChain` above) and is therefore a
hypothesis of the theorem. `Notarised` is preserved because `DisconnectTip`
stops at the last notarised block, and everything below it is protected by it;
the height comparison in `ActivateBestChainStep` is not needed for safety.

`BestChainProofs` builds on this. `Towards` (a step under way goes to the best
candidate) gives `PruneLeavesOne`. `Waiting` (a block with data that is not
linked waits in `mapBlocksUnlinked` or will never be linked, because an
ancestor has no data) gives `LinkedExact`; it fails with `invalidateblock`,
after which a block below a failed parent is not linked. `PathValid` gives
`ActiveChainValid`: a marked block of the active chain is one that
`invalidateblock` is about to disconnect, which a notarised block would stop.
`Covered` says that for every valid chain with all data there is a valid
candidate at least as good, and `Pending` that a thread still works, or nothing
is better than the tip, or a reorganisation longer than `MAX_REORG_LENGTH` has
shut the node down (hence `~shutdown`). `Outdone` and `NothingForgotten` are the
same for `CandidatesComplete`, which needs that marks are never cleared without
making candidates of what they hid (`NeverCleared`).

*CheckQueue.* The invariant relates the counters to the sets they count
(`nTodo` to the checks queued or in batches, `nTotal - nIdle` to the running
threads), and `fAllOk` to the checks already counted. `LoopPre` states it in
the middle of a critical section; every way into `LoopTop` establishes it and
every way out re-establishes the invariant.

*CoinsCache.* `HintsSound` is not inductive: the invariant adds what an entry
says that is not in the map, that an entry of the view which `pcoinsTip` lacks
is FRESH, the same for nullifiers and anchors, that a closed view is empty, and
`NothingToWrite`: the genesis block is flushed before any best anchor was read,
which is harmless only because `pcoinsTip` has no anchor to write while its best
block is null. The same invariant carries the refinement: each action is shown
to change the ledgers as `CoinsLedger` does, or to leave them alone.

*BlockStore.* `SlotInv` is about positions: who names a slot, what is in it,
which part of memory and database agree, that the rev file of a number has room
for the undo data of its blocks, and what of it is committed when an index that
names it reaches the disk. `ChainInv` is about the two chains that matter after
a crash, the one of the coins in memory and the one of the coins on disk, which
may be far behind the index: both are in the index on disk. `Sound` says of each
block of these chains that it has data and undo data, unless it was pruned or, if
crashes in the last flush of a rewind are considered (`Interruptible`), a rewind
gave it up. `DpowType` types
the dPoW part; nothing more of it is needed, because `RewindContinues` only says
that the refusal of the notarised block is one of the ways to stop. The crash
points `"late"`, in the table of section 3, and `"rewind"`, of the run
`store_interrupted`, each have a disagreement of their own; no theorem excludes
the second, and `CoinsReferToIndex` claims that the chain is validated only
without it.
`BlockStoreAssumption` asks for finitely many blocks, numbered upwards along
their chains.

*KomodoState.* The argument is that every record that is written is one a
replay accepts, and that applying it and replaying it change the state in the
same way, but for ratifications, which the replay drops. `Drops` says that one
list of events is another one without its ratifications, and `Follows` that a
replayed state agrees so with the running one in all that `ReplayFaithful` is
about. A rewind pops events until one below its height, so it might stop at a
ratification in the running node and go on in the replay. `Settled` excludes this:
every ratification is followed by an event of its own height (`SettledUpTo` in the
middle of a block, where the `kmdheight` record is still to come), and a rewind
that stops would have stopped there. `Reached` extends all this to every prefix of
a block's records, where a crash may cut; a state after a restart has no
ratifications and is settled trivially. With it go `Rising` (notarised heights) and
the order of events: `Marked` says that the high-water mark is above the tip, or
equal to it and the last event not above it, so that a block connected over events
of its height or of higher ones, the key updates of checks included, always
rewinds. From a tidy list the rewind leaves one that is in order and below the
block (`Low`), and the block's own events keep it so. `ElectionsAreFixed` rests on
`PastElections`: a height up to the block's own that is not in the last entry of
the table lies in an entry before `ElectionOf` that block, clamp or not.
Key-value entries agree with the replay only for keys that nobody owned: the
attempt to prove it showed that a value which transfers a key makes an owner too,
so that `NeverOwned` also asks for no transfer. `LookupSound` follows from where
the scans of `NotarizedPoints` stop.

*RpcServer.* The invariant has a part for each module: every request is traced
from the callback through the queue to a worker, `numThreads` counts the
workers that live, the stages of the stop follow in order; every operation is
in the queue once, with one worker, or done; and the handler that holds the
wallet lock is the only one between the two critical sections of
`popOperationForId`. No theorem assumes that workers have started or that no
callback is half-way when the server is stopped: once `running` is false a worker
that starts late can only leave or wait, and `gencb` admits no second callback, so
one request at most is lost. `HttpAssumption` asks for finitely many workers.

*BlockDownload.* `BookOk` says that the map and the lists agree, that no block
is listed twice (so that `Entry` is the iterator the code stored), and that the
counters count. `MarkBlockAsReceived`, `MarkBlockAsInFlight` and `RequestAll`
are shown to keep it for any book; `Keeps` says which requests they may add.
`ChainOk` is what the window needs: the tip and every `pindexLastCommonBlock`
have their whole chain, so that a request made through a header is near a
complete block (`Near`) which is its ancestor; blocks are never lost, so it
stays near. `DownloadAssumption` asks for finitely many blocks and nodes.

*Induction.* The provers cannot use the library's induction theorems. Where an
argument is by induction over data (ancestors, replays, the outputs of a block,
requests in order of height, scans), the proofs take a least counterexample,
whose existence is the lemma `LeastNatural`, from the library's
well-foundedness of the natural numbers. `Replay`, `Connected` and `RequestAll`
are recursive functions for this reason; the proofs first show that a function
with their equation exists.

Model-checked only: the liveness properties `ActivationReturns`, `WaitReturns`,
`EveryRequestAnswered`, `EveryOperationEnds`, `ShutdownCompletes` and
`Downloaded`, which need fairness and `ENABLED`, out of this prover's reach.
`TypeOK` of `BlockDownload` is not proved: its bound on the requests of one peer
needs the cardinality of `Lowest`, and that `nQueuedValidatedHeaders` does not
become negative needs a sum over the nodes. Nothing is proved of the runs that show a
disagreement.

## 5. What is left out

*Active chain.* Blocks from the future (`futureblock`), the tolerance around
Sapling activation and `Queued_reconsiderblock`; `KOMODO_REWIND`, the fixed
checkpoints, `pindexBestInvalid` and the fork warnings; I/O errors
(`AbortNode`) and `CorruptionPossible` results; the calls into memory pool,
wallet, ZMQ and GUI made by a step. During initial download
`komodo_validate_chain` accepts every hash: `ChainState` is a node in sync,
`KomodoState` has both cases (`ibd`).

*Disk.* A failed write: the dirty sets are emptied before `WriteBatchSync`
reports a failure. `-reindex`, the secondary indexes, the temporary block files
of notary chains. `komodostate` is flushed to the operating system after each
record and assumed to survive a crash. LevelDB is an external store whose batches are atomic; the
coin database keeps its last batch.

*Komodo.* Only asset chains have events. Price feed and deprecated records, the
fixed notary seasons, regtest simulation, timestamps, `CURRENT_HEIGHT`,
`komodo_verifynotarization`, the state of KMD that an asset chain reads from KMD's
own file, the blocks that `VerifyDB` disconnects and connects again at start, and
the loss of flushed data of the state file by the operating system. After a restart
`hwmheight` is 0 and events above the tip are not rewound, so `RunningKeepsOrder`
speaks of steps within one life of the process. So does `ElectionsFixed`: a restart
of an asset chain forgets every ratification. It also leaves out the last entry of
the table, where it is false. A disconnected block's key updates and ratifications are not undone by
the code, nor in the model. `kvsearch` removes expired entries, so that a key
that had an owner can differ after a replay; `ReplayFaithful` leaves such keys
out.

*Network and RPC.* Sockets, misbehaviour scores, bans, orphan transactions and
relay; HTTP binding, authorisation and connections; the end of the process by a
use of the deleted work queue; what an operation does is
one step; `finish` and `finishAndWait` are called by tests only.

*Whole components.* Memory pool, address manager, scheduler (one service thread
and one periodic task), notarisation database, wallet: not modelled yet. Miner,
difficulty, scripts, contracts and cryptography are stateless evaluations of
data TLC cannot enumerate, or vendored. They make up most of the repository's
lines, so the map covers a small share of them.

## 6. Plan

1. Theorems: the rest of `BlockDownload`'s types (at most `MaxInTransit`
   requests per peer); `CandidatesComplete` with `invalidateblock`; an abstract
   specification of the work queue that `HttpServer` implements.
2. Memory pool (removal of conflicts and descendants across a reorganisation),
   wallet witness cache, notarisation database across reorganisations, address
   manager.
3. Failed writes in `BlockStore`.
