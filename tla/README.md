# fightnight.fun in TLA+

The application lets anyone launch a token that is sold along a bonding curve
until it reaches a market cap, bridges the proceeds to another chain, and lets
groups of players guess a number for a pot that an operator has put up. Its
chain is run by a sequencer, which is an Optimism node of the `reth` in this
repository. This directory holds TLA+ modules translated from the contracts, the
pages and the parts of the node that keep state, the TLC runs that check them on
small instances, and TLAPS proofs of results for every instance.

Contracts such as `SampleGame.sol` are under
`src/packages/fightnight-contracts/src/`, pages under `src/packages/web/src/`,
and Rust files under `src/reth/crates/`.

## 1. The system

| Part | What it keeps | What happens to it | Module |
|---|---|---|---|
| `SampleGame` | warden, reporter, players, guesses, number, live flag, ranking | accounts call it in any order | `Settlement`, `GameStorage`, `SampleGame` |
| `GameWarden` | owners, games, a pot per game, ETH | deploys games and is the warden of each | `GameWarden`, `Settlement` |
| `FightNightToken` | balances, supply, reserve, tradable flag, ETH, USDC | sold by `mint`; the last sale swaps and bridges | `BondingCurve`, `FightNightToken` |
| `ProgrammableTokenTransfers` | owner, allow lists, holdings, approvals, last message | sends to and receives from the other chain through CCIP | `TokenBridge`; with a sale `TokenLaunch` |
| `FightNightTokenFactory` and the token pages | parameters, tokens; form, hash, cards, a wallet | requests in flight while state changes | `WebPages` |
| World ID button and endpoint | the widget, a request | verification fails or is lost | `WebPages` |
| reth: engine | tree of executed blocks, in-memory chain, buffer, persistence, backfill | payloads, forkchoices, downloads, restarts | `EngineTree`, `EngineSync`, `InMemoryState`, `BlockBuffer` |
| reth: transaction pool | sub-pools, iterators, blob sidecars, maintenance | insertions, blocks, reorgs, limits | `TxPool`, `PendingPool`, `BestTransactions`, `BlobStore`, `PoolMaintenance` |
| reth: network | peers and slots, sessions, downloads, transaction exchange, discovery | connections come and go, messages are late or missing | `Connections`, `ActiveSession`, `BlockFetch`, `TxFetch`, `TxGossip`, `Discv4` |
| reth: storage | jar files, static files, tables and checkpoints, state history | crashes, unwinds, pruning | `NippyJar`, `StaticFiles`, `Pipeline`, `Ledger`, `StateHistory` |

`PROJECT.json` maps every definition to the lines it models and lists the
hazards at the line where each bites.

The sequencer starts reth with `EngineNodeLauncher`, `BlockchainProvider2` and
`OptimismNode`, so the engine modelled is the one of `engine/tree`, not the older
`blockchain-tree` and `consensus/beacon`; of the former only the block buffer is
used.

### Conventions

A transaction of a contract is one step: the EVM runs it atomically and rolls it
back when it reverts. In `SampleGame`, `FightNightToken`, `TokenBridge`
and `WebPages` a reverted transaction changes nothing and is no
step; in `GameWarden` it is a step that leaves a `receipt`, because that
transactions revert is what the properties there are about. A Solidity index k
is index k + 1 of a sequence, a mapping a total function with default 0. A
handler of a page is cut at each `await`. A task of the node is cut where it
awaits, where it releases a lock another thread takes, and between two writes a
crash can separate.

A `uint256` is a natural number with the bound `MaxUint` where arithmetic can
overflow. `DECIMALS` is a constant of the model, because 18**10 is out of TLC's
integers; the proofs do not depend on its value.

External parts are modelled from how the code uses them: the price oracle asks
any fee of a set, the swap pays out any amount of a set, both and the bridge may
fail; CCIP executes a message late, out of order, not at all, and again by hand
after a failure; the wallet refuses or answers; a
peer answers anything the protocol lets it answer, or nothing; a disk keeps any
prefix of what was appended since the last sync, and truncates or not.

A definition commented "Fault" directly before another is a wrong variant of it
that the specifications do not use; a run finds the property violated when it
replaces the right one (`mutants` in `PROJECT.json`).

An option such as `FullChannel` or `Departed` is a Boolean constant that admits
a circumstance in which the code does not have a property that its comments
claim. The runs leave the options off; section 5 says what happens with them on.
Most circumstances of this kind are always admitted: a history variable, such as
`mixed` in `Pipeline` or `returned` in `BlobStore`, records where one has come up,
and the property says what it excepts, no more than the one sender, account, peer or
file concerned wherever the code confines the damage so.

## 2. Modules

| Module | State and actions |
|---|---|
| `Settlement` | the loops of `_populateRankings` and `payoutPlayers` as operators on sequences |
| `GameStorage` | a game's storage as a record; for each function the condition under which it does not revert (`May...`) and the storage it leaves |
| `SampleGame` | one game; `guessed` is a history variable counting the `GuessMade` events |
| `GameWarden` | the warden composed with the games it deploys |
| `BondingCurve` | `_sqrt` (Newton's iteration as a recursive function) and `_calculatePurchase` with the conditions of checked arithmetic |
| `Algorithms` | every input of the loops and of the curve within bounds, with the references they are compared with |
| `FightNightToken` | one token from deployment to close; `feesPaid`, `bridged` are history |
| `TokenBridge` | a bridge per chain and the messages ever sent; one action per external function, `CcipReceive` inside the execution of a message; `paid` is history |
| `TokenLaunch` | a token's sale with the bridge it closes into: a mint that would close calls the bridge in the same step |
| `WebPages` | factories, form, cards and the World ID widget; handlers cut at their awaits |
| `BlockBuffer`, `InMemoryState`, `EngineTree`, `EngineSync` | the LRU buffer; the maps of canonical blocks with every lock acquisition, reorgs while a batch is written, and a reader; the tree handler with inbox, persistence task and pipeline; orchestrator, backfill and downloader with their wakers |
| `PendingPool`, `TxPool` | the pending sub-pool with its independent set and eviction; insertion, replacement, state bits, fees, blocks, limits over the four sub-pools |
| `BestTransactions`, `BlobStore`, `PoolMaintenance` | the iterator with its bounded channel while the pool changes; cache, files and deferred deletion with the tracker of canonical blocks; commits, reorgs, drift and reloads |
| `Connections`, `ActiveSession`, `BlockFetch` | peer table, slots, bans, reputations that recover, dials and sessions; the session task with both sides' requests and the channel to the manager; queue, assignment and answers of block downloads |
| `TxFetch`, `TxGossip`, `Discv4` | announced transactions until they are imported; propagation in full and by hash; routing table, endpoint proofs, lookups, evictions and the listener's channel |
| `NippyJar`, `StaticFiles` | the columnar file format with its commit and prune steps under crashes; transactions in static files beside the database |
| `Pipeline`, `Ledger` | the twelve default stages forwards and backwards with checkpoints, the collectors of the headers stage and errors; the abstract ledger it implements |
| `StateHistory` | change sets, sharded indices, unwinding and pruning of the history |
| `MCSampleGame`, `MCGameWarden`, `MCApplication`, `MCEngine`, `MCPool`, `MCNetwork`, `MCStorage` | instances for TLC |
| `InductionLemmas`, `*Proofs` | theorems (section 4) |

`MCApplication`, `MCEngine`, `MCPool`, `MCNetwork` and `MCStorage` put
components that do not interact side by side: the initial state picks one
(`focus`), and only that one moves. One run then checks all of them on the
bounds of each. The components with proofs (in `MCApplication`, and
`Connections`, `BlockFetch`, `TxFetch` and `TxGossip` in `MCNetwork`) are
EXTENDED, so that the theorem and the run name the same definition; the others
are instances.

## 3. Runs

| Run | What it checks |
|---|---|
| `sample_game` | `RankingSound`: a game with players is over exactly when it has a full ranking, and the ranking stays that of what is stored; `LiveWithoutNumberStaysLive`; `PublishedIsFinal` |
| `game_warden` | `NeverSettled`: no game of the warden ends and settlement reverts; `Solvent`: the ETH held is the sum of the pots; `PotsLocked` |
| `token_sale` | `SaleBounded`: open exactly until the cap's lower bound, never past the upper; `BooksBalance`; `BridgedOnceAtClose`; `FrozenOnceClosed` |
| `application` | `RankIsReference`, `NobodyIsPaid`, `CurveSound`: the loops and the curve against their references; `BridgeSound`; `SaleNeverCloses`; `PagesSound` |
| `engine` | `MemoryIsCanonicalChain`, `AnswersAreTrue`, `BackfillExclusive`, `InMemoryConsistent`, `BufferConsistent`, `EngineProgress` |
| `pool` | `SubPoolsSound`, `LimitsEnforced`, `IteratorSound`, `SidecarsTracked`, `PoolCatchesUp` |
| `network` | `HashesTracked`, `SessionSound`, `DiscoverySound`, `SlotsSound`, `RequestsTracked`, `ToldOnce`, `NetworkProgress` |
| `storage` | `CrashSafe`, `FilesMatchDatabase`, `TablesTrue`, `BlamesTheBad`, `ImplementsLedger` |
| `one_guess`, `bought`, `verified`, `blamed` | violated; section 5 |

Each property is stated in words above its definition. For each, `PROJECT.json`
names a fault of the code under which TLC finds it violated.

### Bounds, and why they are enough

- Games: four accounts, numbers 0..3, four rosters (empty, two players, one
  player twice, the warden plays), two accepted guesses per account, one more
  than the code means to allow; the warden has two games, so that a later one
  can disturb an earlier pot.
- Algorithms: four players give every pattern of ties, exact guesses and order
  that the loops tell apart; pots 0..40 with 0..9 places; curve inputs that
  overflow, underflow and go through.
- Sale: it takes several purchases to reach the interval around the cap, one
  can overshoot it, fees exceed the deposit they come with, and a close happens
  with and without a swap output. Composed with the bridge, the owner may name
  the token as the next owner.
- Bridge: two chains, two tokens (one is LINK), two messages, four
  administrative edits, LINK at one end only. Two messages are enough to be
  executed out of order and twice.
- Pages: two chains, two submits, two purchases, three changes of wallet or
  factory.
- Engine: a fork of two branches of up to four blocks; the tree in four
  scenarios (two branches with forkchoices between them, also when the first
  block of the one left is on disk or on its way there, heads on a bad block, a
  node far behind, a client that settles on one head), one restart, batches of
  one block, thresholds 0 to 2.
- Pool: one or two senders with three nonces and replacements, fees below, at
  and above the limits, sub-pools limited to one transaction, three blocks; a
  channel to the iterator that holds one transaction.
- Network: two or three peers, two or three requests or transactions, one
  retry, limits of one or two slots, four events; a channel to the listener of
  discovery that holds one update.
- Storage: two columns, rows of size 0 and 1, two crashes; files of two blocks
  with 0 to 2 transactions; three starts of a pipeline on a tree with three
  branches and a fault in any stage that finds one; histories of four blocks
  with shards of two.

`token_sale`, `application`, `pool`, `network` and `storage` do not check for
deadlock: a closed token takes nothing any more, and the other systems rest when
their bounds are used up or nobody calls.

### Fairness

Nothing in the contracts is scheduled: a transaction happens when an account
sends it, and no run assumes fairness of one. The liveness properties are about
the node, whose runtime polls a task that was woken:

- `EngineProgress`: the tree's loop takes messages and ticks by its timeout
  (`recv_timeout`), the persistence service and the pipeline end, a peer
  delivers what is asked for, and the client repeats its forkchoice, as a
  consensus client does. The orchestrator's task is fair only once it was woken,
  so a lost wake-up shows.
- `PoolCatchesUp`: the maintenance loop runs and its blocking loads end.
- `NetworkProgress`: the network's task drains what is queued, deadlines are
  checked on an interval, and the eviction interval of discovery ticks. Ending a
  session needs strong fairness of the write to the manager's channel, which a
  full channel disables now and then.
- `ImplementsLedger`: the pipeline executes or unwinds, and is restarted after
  a stop.

### Refinement

`Pipeline` implements `Ledger` (`L == INSTANCE Ledger WITH ...` in `Pipeline`):
the abstract state is the chain up to the Finish checkpoint, which is all that
readers see; a step appends valid blocks to it or unwinds it. The run checks it
as the property `ImplementsLedger`. `TokenLaunch` composes `FightNightToken` with
`TokenBridge`, `GameWarden` composes the warden with `GameStorage`.

## 4. Proofs

Every theorem holds for all values of the constants that satisfy the named
assumptions of the modules. These give the constants their types, state the
constructor's check of cap and tolerance, and say that a contract's address is
not an account and that LINK is one of the tokens. `TxGossip` assumes that the
transactions are finitely many, `Connections` that the peers are finitely many and
those known at the start among them, `BlockFetch` that the mark of a peer without
a request is not a request, `TxFetch` nothing.

| Module | Results |
|---|---|
| `InductionLemmas` | induction over naturals and finite sets; sums over a finite set under a change at one point |
| `GameProofs` | of one game: `RankingIsSound`, `NoWayOut`, `RankingIsFinal`, `RankListsPlayers`; of the warden: `GamesNeverSettled`, `WardenIsSolvent`, `PotsAreLocked` |
| `ContractProofs` | of the token: `SaleIsBounded`, `BooksAlwaysBalance`, `BridgedOnce`, `ClosedIsFrozen`, `UnfitTokenNeverSells`; of the algorithms: `SqrtIsRoot`, `CurveIsSound`, `NobodyIsEverPaid`, `RankIsAlwaysReference` |
| `BridgeProofs` | the invariant of the bridges |
| `ApplicationProofs` | the invariant of the pages; `BridgesAreSound`, `NoSaleEverCloses`, `PagesAreSound` |
| `NetworkProofs` | `HashesAreTracked`, `PeersAreToldOnce` |
| `BlockFetchProofs` | `RequestsAreTracked` |
| `ConnectionProofs` | `SlotsAreSound` |

With them every property of the runs `sample_game`, `game_warden`, `token_sale`
and `application` is proved, and `HashesTracked`, `ToldOnce`, `RequestsTracked` and
`SlotsSound` of the run `network`.

### The arguments

- **One game.** `RoundInv` is types, `RankedWhenOver`, `RankingCurrent`, and
  that a game without players has no ranking. The last conjunct is the
  strengthening: a game that was started empty and ended can be started again,
  and only the emptiness of its ranking makes that harmless.
- **The warden.** A game is born and started in one transaction, so it is live
  with no number; from there `killGame`, `setFinalNumber` and `payoutPlayers`
  all revert, which keeps the invariant. `Solvent` is not inductive alone: a pot
  must not have been booked on an id that is not given out yet
  (`UnusedUnbooked`). The sum of the pots then changes by one entry, which is
  `SumChange`.
- **The sale.** `SaleInv` of `ContractProofs` adds that a token whose
  bounds do not fit has supply 0. The proof treats the curve as unknown: all it
  uses is that a purchase which is not reverted fits a `uint256`. That the
  balances add up to the supply is a sum over the holders, by `SumChange` again.
- **Loops and recursive functions.** The library's induction theorems take an
  operator as a parameter, which the installed provers cannot instantiate.
  `InductionLemmas` states induction for a set (of the numbers that have the
  property) instead. A recursive function is handled in two steps: some table
  satisfies its equation (by induction over finite initial parts), and the
  values of any such table are what is claimed.
  - `SqrtIsRoot`: Newton's iterate from above never falls below the root, and
    stops only there (`NewtonStep`, `RootUnique`).
  - `NobodyIsEverPaid`: the first round of the loop breaks, whatever comes after
    (`FirstRoundBreaks`, `RoundsEnd`).
  - `RankIsAlwaysReference`: after k rounds exactly the k players with the
    smallest places of the reference order are marked (`LeftIsMarked`), so round
    k + 1 picks the next (`RoundPicks`); a player whose distance is 0 is never
    picked and leaves the place to the first of the array.
  - `CurveIsSound`: rounded division, product and root are monotone.
- **The bridges.** `BridgeInv` adds types to what is checked. Conservation is a
  sum over the chains and a sum over the messages under way: a send moves an
  amount from the first to the second (`SendKeeps`), an execution back
  (`ExecutionKeeps`), a withdrawal out to `paid` (`TakeAllKeeps`). That LINK
  cannot be sent for a fee in LINK falls out of the second approval replacing
  the first (`SentPayLINK`).
- **No sale closes.** A token is never the owner of its bridge, because a
  proposed owner has to accept and a token makes no such call; `onlyOwner` then
  refuses it, so each transaction that would close reverts. The invariant is
  `BridgeInv` with the token open and below its bound.
- **Pages.** `FormInv`: each token names a submit, of the same chain, that was
  executed, and no other token names it. `CardInv`: no two mounted purchases
  share a card, and a card is `LOADING` exactly while its purchase is awaited.
- **Fetching transactions.** `FetchInv` is `HashesTracked` made inductive. The
  operations of the fetcher take hashes in hand and put them down elsewhere,
  several per step, so the invariant `Books(D, W, C, F, X, K)` has a parameter
  for what is in hand: tracked hashes D, waiting W, counts C, requests F, in hand
  X, settled K. Each operation has a lemma about its effect on X (`BooksTake`,
  `BooksWait`, `BooksRequest`, `BooksLand`, `BooksForget`); a step is a chain of
  them that ends with nothing in hand. Two strengthenings are needed: two
  requests never share a hash, and the hashes of a request are tracked or
  settled, so that an announcement cannot wait for what is in a request. The
  theorem covers the options too: each of the three parts is claimed unless a
  circumstance that breaks it is admitted, and then only that part.
- **Telling the peers.** `GossipInv` adds to the invariants of `ToldOnce` that
  whatever was sent to a peer or heard from it in this session is on its record
  (`OnRecord`). That is why nothing is sent to a peer twice: a propagation takes
  what is not on the record. The converse, that the record is true, needs that a
  message takes a batch whole when it fits, which is a fact about cardinalities
  (`MessageTakes`); it is what propagate_hashes_to and a small message break. In the
  run a message always holds a batch; what is left of the claims when it does not is
  the theorem's to say, which has the sizes as constants. A
  session that begins replaces the record of the one before
  (`EstablishedIsRight`).
- **Download requests.** One request is described in three places (fetcher,
  network state, session), and `BlocksInv` is what ties them. `PlacesApart`: the
  channel, the queue and the requests in flight hold no request twice, and
  together exactly the unanswered ones. `NoRequestLost`, which counts, follows
  (`InvLosesNothing`). `AnswersAwaited`: an idle peer has nothing in flight, so
  that an assignment replaces nothing. `SessionsHold`: what a session has still
  to answer is the request its peer was given, so that neither a late answer nor
  the end of a session touches another peer's request. The invariant of queue
  and flight has the set of requests as a parameter, so that `TakenFrom`,
  `EnqueuedIn`, `FlightPlaced` and `FlightDropped` each state one move. That a
  peer is dropped only when its session has ended needs `ClosedIsEnded`, and is
  claimed unless the channel to a session may be full; the rest holds with a full
  channel too.
- **Slots.** `SlotsInv` says of each peer (`PeerSound`): a slot of a session has
  its session, one that is being disconnected was told so, the ban list and the
  reputation agree, a pending dial has its dial, and a session that was not told
  to end has its slot. The agreement of ban list and reputation is the
  strengthening that the counters need: a session turned away for its reputation
  was counted, one on the ban list was not, and only peers on the list may have
  that reputation. Errors that cost reputation without a ban break it
  (`PlainErrors`). The converse holds of the peers in `Listed`: a tick may raise
  the reputation of a banned peer that is still connected above the threshold
  (`recovered`), and such a peer is the one that a banned peer's promise leaves
  out (`TickIsRight`). An event changes one peer, so the counters are compared
  before and after that change (`Moved`, `CountersMoved`), and the dials that
  end a handler are one set of peers at once (`DialedCounted`). That guests stay
  within the limit is not a matter of counters alone: each guest that may stay
  holds an inbound slot (`GuestsHoldSlots`), so a counter below the limit leaves
  room for one more. Each part is claimed unless a circumstance that breaks it
  is admitted.

### What is only model-checked

- Liveness (`EngineProgress`, `PoolCatchesUp`, `NetworkProgress` and the last
  part of `ImplementsLedger`): the prover has no fairness and no ENABLED.
- The engine's properties: `EngineTree`, `InMemoryState` and `BlockBuffer` follow
  parent links with RECURSIVE operators, about which nothing can be proved here.
- The pool, the other network components and storage: no proof has been
  written. Their invariants need induction over nonces, fees, files or heights
  on top of an interleaving; nothing is known to stand in the way.
- The four violated properties, of course.

## 5. What the checks show about the code

Contracts and pages:

- A player may guess more than once as long as the guesses are 0
  (`SampleGame.sol:83`); the require's message says otherwise. Run `one_guess`.
- No game that the warden creates can end, and no pot can be paid out (proved).
  The requires in `SampleGame.sol:95` and `:120` wait for each other.
- If a payout were reached it would pay nobody (proved): the first place is due
  pot / 2**0, the balance is 0 before the transfer, and the loop breaks
  (`GameWarden.sol:55-64`).
- The ranking is by decreasing distance, and leaves out all but the first player
  who guesses the number exactly (proved as the reference).
- The cap logic of a token is right (proved), but with this bridge no sale
  reaches it: `sendMessagePayNative` is `onlyOwner` and the token is not the
  owner (proved).
- The reserve a token computes with is not covered by its ETH: the initial
  10 * DECIMALS and the oracle's fees are missing. A close moves no ETH, which
  stays in the frozen contract.
- A card shows "Token bought, you're in!" for a purchase that failed
  (`DeployedTokens.tsx:111`, run `bought`), and the World ID button reports
  success for a refused or lost verification (`index.tsx:42`, run `verified`).

The node: run `blamed` shows the pipeline blaming a valid block. On a validation
error of any stage it overwrites the checkpoint of the merkle stage with that of
the stage that failed, also when that one is ahead
(`stages/api/src/pipeline/mod.rs:518`); a later root is then computed on a stale
trie, and the engine rejects what is blamed. TLC found the following departures
of the code from its comments too, each with the module that shows it and, where
there is one, the option that admits it or the history variable, in italics, that
records it. The options are off in the runs (except where a scenario says
otherwise), and the properties state what holds without them; what a history
variable records happens in the runs, and the properties except it.

| Module (option, *history*) | Departure | Where |
|---|---|---|
| `InMemoryState` | A lookup by number and remove_persisted_blocks take the two locks in opposite orders and wait for each other for ever | `chain-state/src/in_memory.rs:297` |
| `InMemoryState` | The block number reported with a transaction found in memory is its block's position in the walk, not the block's number | `chain-state/src/in_memory.rs:526` |
| `EngineTree` | A forkchoice without a finalized block whose head was buffered during the backfill is answered SYNCING for ever | `engine/tree/src/tree/mod.rs:1012` |
| `EngineTree` | After a batch is persisted the tree keeps blocks of a fork whose parents it removed | `engine/tree/src/tree/mod.rs:170` |
| `EngineTree` (`HeadAboveDisk`) | A reorg of blocks that are being persisted leaves canonical blocks in memory on top of nothing | `engine/tree/src/tree/mod.rs:866` |
| `EngineTree` | A valid payload that is the sync target is answered VALID and not made canonical | `engine/tree/src/tree/mod.rs:930` |
| `EngineSync` (`Overslept`) | A download that was just started is not polled: its answer wakes nobody until the client speaks again | `engine/tree/src/engine.rs:117` |
| `TxPool` | A raised base fee parks a transaction and leaves the one behind it pending | `transaction-pool/src/pool/txpool.rs:1158` |
| `TxPool` (`StaleEviction`) | A stale eviction opens a gap the next block does not see | `transaction-pool/src/pool/txpool.rs:614` |
| `TxPool` | Adding a later transaction moves the sender's first from the base fee pool to the queued pool | `transaction-pool/src/pool/txpool.rs:1600` |
| `TxPool` | A queued transaction is promoted on a fee bit from before the base fee rose | `transaction-pool/src/pool/txpool.rs:1637` |
| `TxPool` | A pending transaction is marked independent while the one before it is in the pool | `transaction-pool/src/pool/pending.rs:329` |
| `TxPool` (*misled*) | A block between validation and insertion leaves a pending transaction with a used nonce | `transaction-pool/src/pool/txpool.rs:480` |
| `TxPool` | A block that lowers the blob fee leaves its transactions parked | `transaction-pool/src/pool/txpool.rs:412` |
| `TxPool` | A raised blob fee takes transactions without blobs out of pending | `transaction-pool/src/pool/pending.rs:186` |
| `TxPool` | A local transaction is evicted while others could be | `transaction-pool/src/pool/pending.rs:416` |
| `TxPool` | The counter of remaining senders passes zero | `transaction-pool/src/pool/pending.rs:391` |
| `BestTransactions` | A transaction that follows one already yielded is received and never yielded | `transaction-pool/src/pool/best.rs:139` |
| `BestTransactions` (*irregular*) | A lagging channel drops a transaction and its descendant is taken for independent | `transaction-pool/src/pool/best.rs:119` |
| `BestTransactions` | The descendant of a transaction marked invalid is yielded all the same | `transaction-pool/src/pool/best.rs:186` |
| `BlobStore` (*returned*) | A transaction that comes back while its old sidecar waits for deletion loses the file it relies on | `transaction-pool/src/blobstore/disk.rs:334` |
| `BlobStore` (*dropped*) | A transaction that leaves the pool before its sidecar is stored leaves a file nobody deletes | `transaction-pool/src/pool/mod.rs:449` |
| `BlobStore` (*returned*) | Finality read ahead of the notifications deletes the sidecar of a transaction a queued reorg brings back | `transaction-pool/src/maintain.rs:187` |
| `BlobStore` | A sidecar that is stored again is counted again | `transaction-pool/src/blobstore/disk.rs:186` |
| `Connections` (`LateDial`) | A handshake of ours that fails after the peer's own connection was accepted frees the slot of the live session | `net/network/src/peers.rs:468` |
| `Connections` (`RemoveTwice`) | A peer removed while its session is being closed keeps its slot counted for ever | `net/network/src/peers.rs:716` |
| `Connections` (`PlainErrors`) | A peer whose reputation fell through dropped sessions takes an inbound slot that is never given back | `net/network/src/peers.rs:305` |
| `Connections` (*recovered*) | A banned peer that stays connected recovers its reputation by the ticks, and may be dialled while it is still on the ban list | `net/network/src/peers.rs:390` |
| `Connections` | Two dials started while one slot is free both become sessions | `net/network/src/peers.rs:925` |
| `Connections` | A backed-off peer that is removed and discovered again is dialled before its time is over | `net/network/src/peers.rs:693` |
| `BlockFetch` | Two high-priority requests that are queued alone swap places | `net/network/src/fetch/mod.rs:196` |
| `BlockFetch` (`ChannelFull`) | A full channel to a session is taken for a closed session and the peer is never asked again | `net/network/src/state.rs:373` |
| `TxFetch` (`EmptyAnswers`) | A peer answers with none of the transactions it announced and the hashes are never asked for again | `net/network/src/transactions/fetcher.rs:924` |
| `TxFetch` (`Departed`) | The answer of a peer whose session has ended is thrown away and its hashes stay in the fetcher | `net/network/src/transactions/mod.rs:954` |
| `TxFetch` (`FullChannel`) | A request the session's channel does not take stays counted | `net/network/src/transactions/fetcher.rs:690` |
| `TxFetch` (`BudgetSpent`) | The search for more hashes runs out of budget and leaves requested hashes in the buffer | `net/network/src/transactions/fetcher.rs:781` |
| `TxFetch` | A second peer announces a hash in flight and is not stored | `net/network/src/transactions/fetcher.rs:546` |
| `TxGossip` (`MixedBatches`) | A batch with and without blobs: the peers that get the transactions in full never hear of the blobs | `net/network/src/transactions/mod.rs:480` |
| `TxGossip` (`HashesTo`) | Propagate_hashes_to records a new hash as seen and does not send it | `net/network/src/transactions/mod.rs:572` |
| `TxGossip` | Propagate_transactions_to records as seen what does not fit in the message | `net/network/src/transactions/mod.rs:526` |
| `TxGossip` | One peer more than the square root gets the transactions in full | `net/network/src/transactions/mod.rs:463` |
| `ActiveSession` (*replaced*) | A protocol breach is noticed while a message waits for the channel and takes its place | `net/network/src/session/active.rs:647` |
| `PoolMaintenance` (*raced*) | A block changes an account while it is being reloaded at an older block, and the reload overwrites the newer state until the account is given again | `transaction-pool/src/maintain.rs:230` |
| `PoolMaintenance` | A reorg that starts from the pool's last seen block is taken for one that does not | `transaction-pool/src/maintain.rs:256` |
| `Discv4` (*unstarted*) | A peer that is added to the table while a ping for a bond is pending is not proven by its pong, and nothing pings it for a proof again | `net/discv4/src/lib.rs:1207` |
| `Discv4` (*missed*) | An update that finds the listener's channel full is dropped and never repeated | `net/discv4/src/lib.rs:798` |
| `NippyJar` (*overcut*) | Pruning past the uncommitted rows leaves a stale offset in memory, which the next commit writes to the offsets file | `storage/nippy-jar/src/writer.rs:349` |
| `StaticFiles` (*shifted*) | Written by the engine, which does not compare transaction numbers as the Bodies stage does, a chain that went back to an empty genesis block keeps one row in the files and every later transaction is read one row off | `storage/provider/src/providers/static_file/manager.rs:746` |
| `StaticFiles` (*torn*) | A truncation that removes all the rows of a file deletes it although its first, empty blocks stay, stops in a file that no block left belongs to, or leaves the index entry of the deleted file | `storage/provider/src/providers/static_file/writer.rs:420` |
| `Pipeline` (*mixed*) | Headers collected for a download that ended in a detached head or a bad header are written with those of the next one, or make its write fail for good | `stages/stages/src/stages/headers.rs:251` |
| `Pipeline` | A bad signature on a transaction that is not the last of its block is fatal, where on the last one it unwinds the block | `stages/stages/src/stages/sender_recovery.rs:197` |
| `StateHistory` (*skipped*) | A backfill after a pruning skips blocks while the prune checkpoint stays, and reads at them are answered from what follows | `stages/stages/src/stages/index_storage_history.rs:77` |
| `StateHistory` (*dropped*) | A backfill overwrites the last shard of the key of all zero bytes, which is also the value a comparison of keys starts from, instead of extending it | `stages/stages/src/stages/utils.rs:142` |
| `StaticFiles` (`DiskReorg`) | Remove_blocks_above removes the block it should keep from the database, and keeps it in the files | `storage/provider/src/writer/mod.rs:270` |

Read in the source and not shown by a run:

- A fork at block 1 is never attached by the pipeline: the target of a detached
  head is at least 1 (`stages/api/src/pipeline/mod.rs:501`).
- `last_tx_num` saturates (`storage/db-api/src/models/blocks.rs:36`), so a row
  can stay behind when a chain is unwound to a genesis block with no transaction.
- An interrupted pruning records the block before the one it stopped in, some of
  whose rows are gone; a read at that block has no answer
  (`storage/provider/src/providers/state/historical.rs:417`).
- A peer that answers a lookup with fewer records than a full bucket is not among
  its results (`net/discv4/src/lib.rs:1325`).
- The callback of an older entropy request that arrives late replaces the newer
  number (`EntropyFetcher.sol:28`).
- `DeployedTokens.tsx:77` calls `mintToken()`, which the token does not have.


## 6. Not modelled

- Of the modelled contracts: ERC20 allowances of accounts and `Ownable` (library
  code); `_calculateSale` and `_pullBasePrice`, which nothing calls; view
  functions, events, names and symbols. USDC or ETH that reaches a token other
  than by `mint` and the swap.
- `EntropyFetcher`, whose callback is one assignment that ignores the sequence
  number and whose number nothing reads; `GuessingGame` (`IGame.sol`), an earlier
  game that nothing deploys; and the deployment scripts.
- Of the modelled parts of reth. Engine: an unwound pipeline leaves the disk at
  the old tip, backfill targets extend it; the database keeps blocks that a
  reorg drops after they were persisted; the hit-count eviction of the
  invalid-header cache; answers before the merge. Pool: the runs validate one
  transaction at a time, and nonces never decrease. Network: IP bans,
  trusted-only mode, ENR, rate limits, expiry of packets, the initial sync (but
  for gossip). Storage: the static files and the database of one stage commit
  together in `Pipeline` (they are separated in `StaticFiles`); prune stages,
  execution extensions, and prune modes other than by distance.
- The rest of reth: the execution of transactions, the trie's hashing, RPC,
  consensus rules, payload building, the command line. By lines it is the larger
  part; what is modelled is the code that keeps state between events.
- The OP Stack directories (`op-*`, `cannon`, `proxyd`, `contracts-bedrock` and
  others), which neither the contracts nor the pages call; `PROJECT.json` lists
  each with its reason.
