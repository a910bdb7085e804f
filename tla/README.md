# A formal model of ArkSwap

TLA+ modules, TLC runs and machine-checked proofs about the ArkSwap repository:
the exchange contracts, the event indexer that mirrors them into PostgreSQL, and
the parts of the stack around them. Paths below are relative to `src/`.

Run a model with `tlc -config MCPair.cfg MCPair.tla`, check a proof module with
`tlapm PairProofs.tla`.

## 1. Inventory of the system

### Contracts (`packages/contracts/contracts`)

| component | state | operations | what makes it correct |
|---|---|---|---|
| Pair (`core/ArkSwapPair.sol`) | token balances (held by the tokens), `reserve0/1`, LP supply and balances, `kLast`, `unlocked`, `blockTimestampLast`, two price accumulators | `mint`, `burn`, `swap` (with callback), `skim`, `sync`, `initialize` | reserves are backed by balances; a pool in use cannot be emptied; no call sequence makes a share worth less; the fee takes growth once; the accumulators integrate the price |
| LP token (`core/ArkSwapERC20.sol`) | `totalSupply`, `balanceOf`, `allowance`, `nonces` | `transfer`, `approve`, `transferFrom`, `permit`, internal `_mint`, `_burn` | supply is the sum of balances; a permit is used once, before its deadline |
| Factory (`core/ArkSwapFactory.sol`) | `feeTo`, `feeToSetter`, `getPair`, `allPairs` | `createPair`, `setFeeTo`, `setFeeToSetter` | one pair per unordered token pair, both directions of the mapping agree with the list |
| Arithmetic (`core/libraries`) | none | `Math.sqrt`, `Math.min`, `UQ112x112`, `SafeMath` | `sqrt` is the integer root; wrap only where wanted |
| Formulas (`periphery/libraries/ArkSwapLibrary.sol`) | none | `quote`, `getAmountOut`, `getAmountIn`, `getAmountsOut`, `getAmountsIn`, `pairFor` | a quoted swap passes the pair's check; rounding is against the trader |
| Router02, Router01 (`periphery`) | none between transactions | add and remove liquidity, nine swaps, native wrapping, permits | keeps no funds; honours every minimum, maximum and deadline; all or nothing |

Interaction: a router or any contract sends tokens to a pair and then calls it; a
pair calls the tokens, the factory (`feeTo`) and, in `swap`, the receiver, which
may call anything back. Everything happens in transactions that are atomic, but a
transaction is a sequence of calls written by anyone. **Hard:** reentrancy through
the callback, donations between any two calls, rounding, fee switching, wrapping
clocks.

### Indexer (`packages/gointernal`, `apps/indexer`)

| component | state | operations | what makes it correct |
|---|---|---|---|
| `indexer.Indexer` | `knownPairs`, `knownTokens`, `batchSize` in memory | `Preflight`, `Run`, `Tick`, `checkReorg`, `processRange`, `fetchLogs`, `processBlock`, `applyLog`, `snapshotPairs`, `SyncToHead` | the database is at all times a projection of the canonical chain up to the cursor |
| `database.Store` | `indexer_state`, `blocks`, `tokens`, `pairs`, `swaps`, `liquidity_events`, `pair_snapshots`, `token_prices` | `InBlockTx`, inserts and upserts, `RollbackFrom`, readers | a block's writes and the cursor commit together; rows are idempotent by key; a rollback removes what is orphaned and no more |
| `chain.Client`, `retry` | none | head, header, logs, code, calls; bounded retries | permanent errors end a request, transient ones are retried |
| `chain.HeadStream` and `Run` | a subscription, two channels | subscribe, drop, report loss, poll, reconnect | waking up is only latency: a lost socket never stops indexing |
| `token`, `processor`, `pricing`, `analytics` | none | metadata, swap direction, prices, TVL and volume | unknown stays unknown; no price without a stable anchor |
| `api`, `cmd`, `config`, `logging`, `contracts` | none | read-only handlers, wiring, decoding | - |

Interaction: one goroutine reads the node over JSON-RPC, request by request, and
writes the database in one transaction per block; the chain may grow or reorganise
between any two requests; the process may die between any two steps. **Hard:**
reorganisations, partial failures with memory already changed, retries, restarts.

### Web application (`apps/web`) and SDK (`packages/sdk`)

| component | state | operations | what makes it correct |
|---|---|---|---|
| SDK (`amm.ts`) | none | quotes per hop and path, impact, limits, path enumeration | the same numbers as the contracts |
| Swap page (`SwapCard`, `useSwapRoute`, `useAllowance`, `state/swap`) | typed amount and side, two tokens, polled pools, allowances and balances, the request each mutation hook holds | type, flip, choose, approve, submit, notice a receipt | a stale quote costs gas only; the best route is found; approvals are for one trade; a trade is sent once |
| Liquidity page (`LiquidityCard`, `useLpPermit`, `usePoolState`) | amount, slider, mode, `permitFallback`, polled pool, LP balance and nonce, a pending signature | type, slide, switch mode, approve, deposit, sign and remove | permit and minima belong to the call they go with; a wallet that will not sign does not lock anyone in |
| Activity list (`state/activity`, `lib/storage`) | the list in each tab, the stored list, the watched hashes | track, settle, dismiss, clear, hydrate | verdicts are true; nothing pending is forgotten |
| Tokens, settings, links (`state/tokens`, `state/settings`, `SwapUrlSync`, `PoolUrlSync`, `TokenSelectModal`) | imports and settings in each tab and in the storage, the tokens of both forms | import, remove, pick, open a link, set | an import never stands in for a listed token; links lead where they say |
| Pools, positions, feeds (`usePools`, `usePositions`, `useProtocolStats`, `useRecentTrades`, `lib/valuation`) | the last answer of every query and its key | read, refocus, render | every figure belongs to the row it is in |

Interaction: a page decides on polled copies of chain state and asks the wallet to
send; the wallet answers when the user does; the chain has moved on by then. Tabs
share a storage, which the last one to write owns. **Hard:** every decision is
made on state that may be stale when the transaction executes; handlers continue
after an `await`; batches of reads fail in part.

`packages/{types,addresses,abis,config}`, `infra`, deployment scripts and tests carry
no protocol state. `PROJECT.json` lists every component with its status.

The hazards, each at its line and with the properties that cover it, are in
`PROJECT.json`.

## 2. Modules

| module | models |
|---|---|
| `AmmMath` | `Math.min`, the specification of `Math.sqrt`, the fee constants, `quote`, `getAmountOut`, `getAmountIn` and the K check |
| `AmmMathProofs` | theorems about them |
| `BabylonianSqrt`, `BabylonianSqrtProofs` | the loop of `Math.sqrt`, an action per iteration, and the proof that it computes the root |
| `Pair` | `ArkSwapPair` with its LP ledger and the factory's fee switch |
| `PairOracle` | `Pair` observed by a reference price integral |
| `PairProofs` | the inductive invariant of `Pair`, the value of a share, the protocol fee, and the accumulators of `PairOracle` |
| `TokenLedger` | tokens, wrapped and native KASH, pools and LP shares as one record; transfers, the wrapper, allowances and permits as calls on it |
| `PairCalls` | the pair's functions as the router calls them, on the same record |
| `RouterCalls` | every function of `ArkSwapRouter02` and the path arithmetic of `ArkSwapLibrary`, likewise |
| `Router` | users who call them in any order, with approvals, signatures, stray transfers and a clock |
| `RouterProofs` | what every call of the router keeps, for any tokens, paths and amounts |
| `Chain` | the node's view of the chain (external) |
| `Store` | the database, as operators on its tables |
| `Projection` | abstract specification: event tables that follow a chain |
| `Indexer` | `indexer.go` over `Store` and `Chain`; implements `Projection` |
| `IndexerProofs` | its invariants and the refinement |
| `IndexerLiveness` | `Indexer` scheduled fairly, with faults that cease |
| `AmmSdk` | `packages/sdk/amm.ts`: quotes, limits, price impact, on the formulas of `AmmMath` |
| `SwapRoute` | `useSwapRoute`: candidate paths, the pools that were read, the choice |
| `SwapForm` | the swap page between a wallet and a chain |
| `LiquidityForm` | the liquidity page likewise |
| `SwapFormProofs` | the best quote is shown and kept to, approvals are for one trade, one swap at a time, for any tokens, pools and number of requests |
| `LiquidityFormProofs` | one call at a time, permits that match and limits that hold, likewise |
| `Lists` | `Array.filter` and `Array.find` of the web application, in a form the proofs can open |
| `Activity` | the activity list in the tabs of a browser |
| `TokenList`, `PoolList`, `TradeFeed` | the token list and its links; rows, values and totals of the pools; the recent trades |
| `Browser` | the tabs of one browser: `Activity` composed with the three above, settings, queries and the pairs they read |
| `BrowserProofs` | that what a tab lists is true and watched, that choices are sound and kept, and that tables show what was read under what it was read of |
| `MC...` | constants of the TLC runs |

### Pair

State maps one to one: `reserve` is `reserve0/1`, `bal` is what the two tokens
report as the pair's balance, `lp` the LP balances grouped by who can do something
different with them (`"zero"`: locked at address zero; `"pair"`: sent to the pair,
which the next `burn` redeems; `"held"`: everyone else, the fee receiver
included), `unlocked` the lock, `frame` the local variables of a `swap` that waits for
its receiver together with the state a revert restores.

`mint`, `burn`, `skim` and `sync` are one action each. `swap` is `SwapBegin` and
`SwapEnd`, or `SwapBegin` and `Revert`: between them anything may happen that the
receiver can cause: transfers to the pair, moves of LP shares, the fee switch, and
every function of the pair that does not check the lock (`Enter`). A `require` that
fails is an action that is not enabled. `Deposit`, `MoveShares`, `SetFeeTo` and `Tick` are the
environment. The tokens are standard ERC20s: a transfer moves exactly its amount.
Fee-on-transfer tokens are in `Router`; rebasing ones are out of the model.

The MC instances scale the constants down (`MINIMUM_LIQUIDITY`, `uint112`, the
clock's and the accumulators' moduli); the fee ratio 997/1000 and the formula of the
protocol fee stay the code's.

### TokenLedger, PairCalls, RouterCalls, Router

A transaction of the router is long (a swap over two pools is a dozen calls between five
contracts) and atomic, and nothing foreign runs inside it: the router passes no callback
data to a pair, and the receiver of native KASH gets control when only the return is left.
So a call is an operator from the `world` before it to the `world` after it, or `Failed`:
`Then` chains the calls of a function in the order of the code, `Require` is a `require`, and
one failing call makes a transaction that never happened. The loops over a path (`SwapAlong`,
`SwapArrived`) are recursive functions of the hop. An action of `Router` applies
one such operator to the current `world`.

`world.tok`, `kash`, `reserve`, `lp`, `supply`, `allowance`, `nonces` are the storage of the
contracts involved, `pairs` the factory's registry. Properties over what a call may do
(`SwapLimitsHonoured`, `DepositLimitsHonoured`, `QuotedSwapSucceeds`, `HoldersCanLeave`) are
invariants that evaluate the call in every reachable world: a user's call may be included
after anything that anyone else did. A deposit's minimum counts up to the amount desired: the code never compares the two, and a minimum above
the desired amount does not make it fail.

Taken as given: users have approved the router without limit for ordinary tokens; `feeTo`
is unset, as the factory is deployed (the fee is `Pair`'s subject); recipients are users'
accounts, and nobody's address is somebody else's (`LedgerAssumption`, `RouterAssumption`); the taxed token burns a third of a transfer where `DeflatingERC20` burns a
hundredth, so that small amounts are taxed at all. `Router` composes `PairCalls`
rather than `Pair`: the same formulas over many pools, without the callback, the
accumulators and the width of the integers, which no call of the router reaches.

### Chain, Store, Indexer

`db` is the database; `pc` is the request or transaction the indexer goroutine
makes next; the locals of `Tick`, `checkReorg` and `processRange` are `safe`, `ancestor`, `to`,
`logs`. Each JSON-RPC request is a step of its own because the chain may change
before the next one; a transaction belongs to the step of the request before it,
because only this goroutine writes the database. Two groups of requests are joined:
the two reads around a comparison (`BlockHash` and `HeaderByNumber` in the walk
back), of which only the second is of the chain, and the header and the
transaction of a block.

Events are (block, index, transaction, pair, kind) with the hash of the block that
executed them as their content, so a row can be told to be another fork's. Faults
(`Faults`): `rpc`, a request fails for good; `range`, the node refuses a range; `tx`,
a transaction fails at any of its logs with memory already changed, or commits
without its answer arriving; `reload`, the pairs cannot be read back after a
rollback; `crash`, the process dies. A commit whose answer is lost in
`processBlock` is `ProcessBlock` followed by `RequestFails`.

`Projection` is the abstract specification: a cursor and the exact set of swaps and
liquidity events of the blocks up to it. `Indexer` implements it under
`cursor <- db.cursor, rows <- db.rows` (`ImplementsProjection`).

### AmmSdk, SwapRoute, SwapForm

`SwapForm` has three parties. The *chain*: `pools`, the user's `wallet` and
`allowance`. The *wallet application*: `requests`, everything it was ever asked, each
with a status (`asked`, `refused`, `sent`, `mined`, `reverted`, or `elsewhere` when the
wallet was on another network), and `queue`, those in the mempool in nonce order. The
*page*: the form of `state/swap.tsx`, the polled copies (`seen...`), and `swap` and
`approval`, the request each `useWriteContract` hook holds. What the card derives on every
render (`Route`, `QuoteOf`, `NeedsApproval`, `Blocked`) is an operator over the page's variables
only; an action of the user is enabled when the button is. Mining applies the router's
function to the chain as it is then: a swap reverts or executes with the amounts that
`ArkSwapLibrary` computes, the formulas of `AmmMath` again.

`Submit` records the quote on the screen in the request, so that the properties can compare what was
mined with what was shown. Reading a pool that failed, or that has no liquidity, leaves it
out, as `useSwapRoute` does. `Candidates` and `BestRoute` follow the
code's order of paths and its strict comparison (the filters are `Without` of `Lists`, which the proofs can open);
`RouteIsBest` compares their choice with a declarative set of paths.

### LiquidityForm

The same parties for one pair of tokens. `removeLiquidity` is split where it awaits:
`Sign` asks for the signature and leaves in `signing` what the closure holds,
`WalletSigns` continues with it (`Resumed`), `WalletRefusesSignature` sets
`permitFallback`; meanwhile every other action may happen. `native` is the side that is
native KASH, `turns` bounds changes of mode, slider and mind.

### Activity, TokenList, PoolList, TradeFeed, Browser

`Activity` owns the variables of the transactions and of the list; `page` is the rest of the
browser, a record whose fields `Browser` names in its header. `Browser` composes the two: a tab that
mounts, opens or closes does so in both (`MountTab`, `OpenTab`, `CloseTab`), and an action of one leaves the other
alone. Opening a tab takes two steps, as the providers take two renders. `Mount`: the first render has empty lists; its effects read the storage, and
those that write are held back by the `hydrated` flag (`FirstWrite`; `FirstWriteUnguarded` is the same without the flag). `Open`: the second render
shows what was read, and its effects write it back. Between the two the tab is in `mounting`, and other tabs may write. A query has one answer with the key it was asked under
(`Latest`); each batch is a sequence of results in the order of the code's calls, of
which one may be `Failed`, and the operators of `PoolList` take it apart by position as the
hooks do. `ReadDetailsAcross` is the batch that a trade falls into the middle of. Pairs have a given
`history`; trades move along it.

The observers `opened`, `misread` and `kept` of `Activity` are read by properties only.

## 3. Runs

| run | instance | shows |
|---|---|---|
| `sqrt` | arguments 0..2000 and around 215 squared | the loop returns the root and ends |
| `pair` | 4 units of one token and 3 of the other, uint112 as 0..3, minimum liquidity 1, clock modulo 3, accumulators modulo 8, 3 seconds; 2.3 million states | types, reentrancy, backing, locked liquidity and share value for every order of calls, and the price integral through wraps of the clock and of the accumulators |
| `pair_fee` | deposits of 11, swaps of 5, up to 22 units; 2.2 million states | the smallest pools in which the protocol fee mints shares; the fee takes growth only, and once |
| `router_liquidity` | one pool of wrapped KASH, two users of whom one starts with 4 + 4 units, one nonce, deposits of 2 or 3 of which at least 2 is wanted, a deadline that passes; 99 thousand states | additions and removals of every kind, approvals and permits submitted by their owner's removal or by anyone |
| `router_swaps` | two pools, paths of one and two hops including a round trip, 12 / 7 / 6 units, a pool that is donated to and synced; 18 thousand states | the nine swaps honour their limits; a good quote succeeds |
| `router_taxed` | one pool of wrapped KASH and a taxed token, stray tokens in pool and router; 72 thousand states | the functions for taxed tokens honour their limits, and holders get out |
| `indexer_shallow` | 5 blocks, confirmations 1, reorganisations of 1 block at any time, batch 3, every fault but `reload` | all tables equal a rebuild, and no pair is forgotten. What is processed is settled, so no rollback is reachable: those are exercised by the next two runs |
| `indexer_deep` | 4 blocks, confirmations 1, reorganisations of up to 3 blocks between ticks, two pools | event tables implement `Projection`, through rollbacks; no canonical row deleted |
| `indexer_live` | 4 blocks, 2 reorganisations, every fault including `reload` | no row outlives its block; the indexer catches up when faults cease |
| `swap_form` | four openings: native KASH into a token with two ways to go, token to token over two or three hops, a token into KASH with a failing node and a pool never funded, a wallet that changes networks; reserves of about 100 units, one foreign trade, two requests, one flip; 431 thousand states | limits hold for whatever is mined, quotes are exact and routes best, approvals and swaps are for one trade |
| `liquidity_form` | four openings: a holder, one who changes her mind while a signature is awaited, a depositor with a failing node, a founder somebody may be ahead of; a pool of 40 and 60 with 48 shares, two requests (three for the undecided, who has an approval left over), one foreign act, one turn; 572 thousand states | permits and minima go with their call; one call at a time, but for a signature that comes late; refusing to sign still removes |
| `browser` | ten openings, each of which lets a few things happen: up to three transactions in a list of two, two tabs, switches of account, late and failing polls, a browser without storage, imports, links, four pairs of which some are created or traded in while batches are read and fail; 230 thousand states | list, choices and tables are true, and catch up |

**Bounds.** In the pool runs the token supplies bound the balances; `MCPair`
reaches first deposits, full redemptions, a swap in each direction with profit and
with loss, donations and locked shares in every order; three groups of LP holders suffice
because the code distinguishes no more. Its clock passes a wrap and lets two seconds
elapse at once; its price accumulators wrap within two seconds. `MCPairFee` needs 22 units: with fewer,
`numerator / denominator` of `_mintFee` is always 0. In the router runs a
unit is the smallest amount, so that every truncation of the formulas decides something;
the amounts let pools be opened, traded to the edge of a reserve and emptied down to the
minimum liquidity. In the indexer runs four blocks give a
deployment block, an ancestor, an orphaned block and a head; a bucket of two blocks makes
one bucket span an ancestor and an orphan; a batch of two or three blocks makes a range
with several blocks that can be halved. `MaxForks` bounds reorganisations, `MaxHeight` the
chain. Confirmations 1 against depth 1 (shallow) or 2 to 3 (deep) stands for 3 (the
default of `config.go:95`) against less or more.

The web runs have several openings because their hazards do not need each other: within
an opening everything interleaves. Two requests are the fewest that can be in flight together;
with three, a removal signed late can join a deposit that is under way. That no greater number of
requests, flips or turns matters to `OneSwapInFlight`, `OneCallInFlight`, `PermitMatchesTheCall` and
`LimitsAreThoseShown` is proved (section 4). One foreign trade makes every copy stale; one flip,
turn or switch happens at every moment of the others. Amounts of about a hundred units make the severities
of the price impact, the limits and all truncations differ. A list of two stands for sixty, a feed of
two for eight; three transactions overflow the one, three trades the other. The four pairs
hold a stablecoin at each distance from none to three, a pair without liquidity, an imported token with a
listed symbol and tokens of different decimals. The feed samples any three of the pools there are, for which the service finds deepest is not
modelled. One nonce spent (`MaxNonce = 1`) is enough to have one of several permits for it overtaken by another;
`SignaturesStayDead` holds for any number.

Several parts share a property name where they answer one question: `QuotesAreSound`,
`LimitsAreThoseShown`, `ActivityIsTrue`, `ChoicesAreSound`, `PoolsAreShownAsTheyAre`,
`NothingIsForgotten`, `EventuallyUpToDate` and `PairStateFollowsChain` are conjunctions whose parts are
defined, each with its comment, just before or in the module they belong to. Put a part's own
name into the `.cfg` to see which one fails.

**Deadlock** is checked everywhere except in `sqrt`, which ends, in the router runs, where
users may run out of money, of nonces and of time, and in the web runs, where the bounds on what happens run out.

**Fairness.** `BabylonianSqrt` assumes weak fairness of its loop: it is straight
code. `LSpec` of `IndexerLiveness` assumes weak fairness of the goroutine's steps,
justified by `Run`, which always loops back to `Tick`; and that faults cease at some
point (`FaultsCease`), without which nothing can be promised: a walk back needs as many successful
requests in one tick as there are blocks to cross. That they have ceased is a variable
(`faults`) because a failed request may lead to the same state as a successful one. Nothing is
assumed of the chain, which is bounded. `LSpec` of `LiquidityForm` assumes what
`RefusalStillRemoves` is about: a user who keeps pressing the button on show, a wallet that answers in one way
or the other, a chain that mines what is queued, and queries that poll (their `refetchInterval`).
`Browser` assumes only its own timers: a tab asks for the receipts it waits for, and reads the
details of the pairs it knows; a read may still fail as often as the bound lets it.

## 4. Proofs

Proved with TLAPS, for every value of the constants:

- **`SqrtCorrect`** (`Spec => []ReturnsSqrt`). The inductive invariant adds to the result what
  `AboveRoot` states (no run repeats it): current value and next guess stay at or above the root
  (`IterateAboveRoot`, from the inequality of the means), and a guess that does not improve
  is at or below it (`FixedGuessBelowRoot`). This is what lets `AmmMath!Sqrt` be the root in
  all other modules.
- **`AmountOutBelowReserve`, `QuotedSwapPassesK`, `AmountInSuffices`**: the formulas of
  `ArkSwapLibrary` against the check of `ArkSwapPair`, over all naturals.
- **`OptimalAmountNeverExceedsDesired`**: the `assert` of `_addLiquidity` (line 73 of the router) holds for
  all reserves and amounts; two truncating quotes, one of which was too large.
- **`PairTypeCorrect`, `ReservesAlwaysBacked`, `LiquidityAlwaysLocked`**. `ReservesBacked` is not
  inductive: while a swap waits for its receiver, the pair may be short of what it
  paid out, and a revert restores a state that must itself satisfy everything. The
  inductive invariant `IInv` therefore conjoins `TypeOK`, `ReservesBacked`,
  `LiquidityLocked` and `FrameInv`: the lock is held exactly while there is a frame, the
  reserves and the supply are those the frame began with, and the saved state was good. That
  `SwapEnd` leaves both reserves positive is `KKeepsBalances`: a zero balance fails the K
  check against positive reserves. One lemma per action, then `NextIInv`, `Inductive`.

- **`ShareValueKeptByEveryStep`** (`ShareValueNeverFalls`). Between two states with shares, `reserve0 * reserve1 /
  supply^2` never falls. Swaps and syncs only raise the product; a mint or a burn moves both reserves by at
  least (at most) the part of the supply it issues (redeems), and such steps chain. The protocol fee is the one thing
  that dilutes: `f` shares with `L * (S + f) <= K * S` (`K`, `L` the roots of the products now and at the last event) take
  no more than growth since `kLast`, which is what the property allows.
- **`GrowthIsChargedOnce`** (`GrowthChargedOnce`): after a mint or a burn `kLast` is the product itself with the fee on, and zero
  with the fee off; either way the next `_mintFee` finds no growth.
- **`AccumulatorFollowsPrice`** (`PairOracle`): the stored sums are the reference integral modulo their width. The proof is
  modular arithmetic: a difference of two clock readings modulo the clock's width is the time that
  passed (`Elapsed`), additions may wrap in any order, and a reverted swap restores clock and sums together (`FrameClock`).
- **`WkashAlwaysBacked`, `RouterTypeCorrect`, `RouterKeepsNothing`, `SharesKeepTheirValue`,
  `DepositsStayWithinLimits`, `SwapsStayWithinLimits`** (`Router`). What a transaction of the router may do is proved
  call by call. `Sound` holds of a world between any two calls: wrapped KASH is backed, shares are somebody's, a pool in use
  has locked shares and is registered, reserves are backed by balances. `Kept` is the value of every pool's shares, and chains. Each
  kind of call has a lemma (`...Sound`), each router function is a chain of these, and a swap along a path is
  an induction over the hops, on a set of numbers. Totals over accounts are sizes of sets of units (`Total`), so
  that the library's facts about cardinality apply. `RouterInv` adds that the router holds no KASH and what is
  signed. The limits are then read off what each function is proved to move.
- **`HoldersAlwaysCanLeave`**: the converse, that nothing fails. From `Sound` alone, a removal of one's
  shares for at least their part of the pool meets no `require` that fails: balances cover the reserves and so what
  is returned, the wrapper can be unwrapped, and the receiver gets no less (`BurnWorks`, `RemoveWorks`, `RemoveETHWorks`).
- **`QuotedSwapsSucceed`**: nor does a swap for a quote fail, on a path of any length that crosses no pool twice and has no taxed
  token. A quote of something says of each hop that its pool is there and pays less than its reserve (`QuotesOutTradable`,
  backwards from the last amount; `QuotesInTradable`, forwards from the first); a pool paid what the quote asks for passes its
  check, whatever it holds beyond its reserves (`HopWorks`, from `QuotedSwapPassesK`); and each hop pays the next pool and leaves the
  reserves ahead as they were quoted (`NextHop`).
- **`SignaturesStayDead`** (`SignaturesDie`): a permit that is live after a step was live before it, and was not accepted by that step, whether submitted by
  anyone or within a removal (`Accepts`). Nonces only grow, what is signed is signed for a nonce not beyond its owner's
  (`SignedInv`), and a permit accepted spends it (`AcceptedIsSpent`).
- **`IndexerTypeOK`, `IndexerNoStaleRows`, `IndexerRowsFollowChain`, `IndexerKeepsCanonicalRows`,
  `IndexerPairStateFollowsChain`**. The rows are not an invariant by themselves: between a reorganisation and the rollback
  that answers it they are wrong, and a tick works from logs it read before. The inductive invariant says what the
  database vouches for: its *marks* are the blocks with a stored hash, the cursor, and the factory's block; as long as a mark is on the
  chain, everything stored up to its height is what the chain holds up to there (`MarksInv`). The walk back
  passes no stored block that is on the chain (`WalkInv`), so it rolls back to a mark and no further; and the logs in hand are
  those of blocks that stay (`TickInv`, `LogsInv`). `PairInv` does the same for the last `Sync` of a pair and of each bucket.
  Hypotheses: `Regime` (the chain reorganises between ticks only, or no deeper than the confirmations); for the full equality
  `Complete` (the pairs can be read back after a rollback, or there is none); for pair state, reorganisations within the
  confirmations. Section 5, points 1, 2, 6 and 7, shows that each is needed.
- **`IndexerImplementsProjection`**, step by step: a processed block and the end of a range advance the abstract cursor with exactly the
  rows between (`AdvanceImplements`), a rollback goes back to a block still there (`RollbackImplements`), everything else
  leaves cursor and rows alone.
- **`PermitAlwaysMatches`, `CallsOneAtATime`** (`LiquidityForm`). The invariant `IInv` adds what links the
  requests to the page: every call that is not over is the one the button waits for, or was asked for
  before the user's last turn, or before a signed removal that took its place (`WaitInv`); and what waits
  for a signature carries the liquidity that is being signed (`SigningInv`). A request changes in
  three ways only (`Follows`), and grows at the end only (`Added`): `Keeping` and `Asking` are the two
  lemmas every action goes through.
- **`LimitsKept`** (`LimitsAreThoseShown`). `LimitsInv` says of each request, from the moment it is asked, that
  its minima are the tolerated part of what was shown with it (`RemovalSound`, `DepositSound`, `ApprovalSound`), and of each
  mined one that the router gave or took what they allow (`MinedWithin`); `PoolInv` keeps the pool one that can be divided.
- **`SwapsOneAtATime`** (`SwapForm`), by the argument of `CallsOneAtATime`: what is not over and not the awaited one was
  asked for before the last flip, or was taken for failed.
- **`SwapsKeepToTheQuote`, `AllowancesCoverOneTrade`, `QuotesStaySound`** (`StaleQuoteCostsOnlyGas`, `ExposureIsOneTrade`,
  `QuotesAreSound` of `SwapForm`). A mined swap is right because of what was asked long before, by a page that may since have changed:
  `FormInv` therefore says of every request, whatever its status, that it asks for what was shown with it (`AskedOn`), of a
  mined swap that it kept to that (`Honoured`), and of pools, wallet, card and readings that they can be computed with. Once asked, only
  the status, the notice and the amounts moved of a request change (`Carries`). The router's amounts are within the limits and within
  the pools (`ExecutedAmounts`). That the quote is the router's amount is an induction along the path on both sides (`SameOut`,
  `SameIn`), and that the search keeps the best an induction over the candidates (`KeepsBest`), whose paths are exactly the simple
  ones (`SimplePathsAre`). TLA+ defines a recursive function by `CHOOSE`: that there is one is proved first, by induction on a set of
  numbers (`Recursion`, `RecursionDown`, `FoldExists`).
- **`PendingAlwaysWatched`** (`Browser`): in every tab the watchers include every transaction that
  is listed as pending and not given up; every change of a list goes through `setAll`, and age only takes away.
  It is a part of `ActivityIsTrue`. A mounting tab, which shows nothing yet, is the exception.
- **`ActivityAlwaysTrue`** (`ActivityIsTrue` of `Browser`). What a list says of a transaction was written by a tab at some time, kept in
  a storage that other tabs overwrite, and read back later. None of the parts is inductive. `ActivityInv` says of every list there is, those of
  the tabs and the stored one, that each item is what became of its transaction, for the account that asked (`TrueLists`, on `Truthful`);
  what was asked, by whom and where it ended, does not change back (`Recorded`, `Evolves`), so that what was true when
  written still is when it is read (`StaysTrue`); a closed tab has no list (`TabsInv`); and as long as one tab was opened only, its list and the
  storage agree with what it was told (`AloneInv`). Sorting and cutting a list keeps its items (`NewestIs`, `PushedIs`).
- **`PendingLeavesOnlyIfDropped`** (a part of `NothingIsForgotten`): a step that takes a pending transaction from the list of an open tab is `Dismiss`
  of that very one, or a send into a full list (`NextLeaves`); settling, clearing, switching accounts and other tabs' writes are not.
- **`ChoicesAlwaysSound`** (`ChoicesAreSound` of `Browser`). `PageInv` describes the whole page: imports are listed nowhere and each is there once (`ImportsInv`),
  each side of a form is a token that the manifest, or a contract, gave (`FormsInv`), settings are in the accepted range whatever the
  storage held (`SettingsInv`), and every answer of a batch is about what was asked of some state of its pair (`ReadsInv`). The last is needed
  because the links of a row and *manage* of a position put tokens of such answers into a form. That the first match in the list is the token that was meant
  is `FirstInIs` with the list's unique addresses and symbols (`ListedResolves`, `ParamResolves`, `RowTokenResolves`).
- **`NothingEverForgotten`** (`NothingIsForgotten`, which says of imports and settings that a tab takes over what was kept, and of pending transactions
  what happens while a tab is open, no more): from `PendingLeavesOnlyIfDropped`, the two invariants, `OnlyMountingMounts` and `ReopenedAsKept`: what one tab
  wrote is what the next to mount reads, because the invariant keeps invalid entries out of a storage this version wrote, and it is still in the
  storage after the mounting.
- **`PoolsAlwaysShownAsTheyAre`** (`PoolsAreShownAsTheyAre` of `Browser`), part by part:
  - Decimals are the token's own or the default of an unknown one, a row has the tokens of the pair it links to and reserves
    and supplies that pair has had, a position is of the connected account: from `PageInv`. A batch is taken apart by position
    (`CallIs`, `DetailsBatchIs`, `MetaBatchIs`), whichever of its calls failed (`FailureIs`).
  - `PricedThroughStables`: one level of `Worth` over amounts already valued prices what is one pool away from a priced token
    (`LevelIs`), and the recursion has three levels (`ThreeLevels`). That the deepest pool, the first of several, exists for any amounts is
    `FirstLargestExists`; that an unpriced amount is told from one of zero is what keeps the equivalence.
  - `FiguresAreWhatIsLocked`: the code adds pair by pair and side by side, the statement token by token. The sums are exchanged
    (`SumsInEitherOrder`), a pair's two sides become a term for each listed token (`StablesOfPair`: a pair's tokens differ, listed addresses are
    unique), and cutting each pool's amount to six decimals loses less than one unit against cutting the total (`SumRescaled`).
  - `PriceIsExecutable`: the first summary between a listed token and mUSDC is of one pair (`SummariesShown`), read from the right side, and the quote
    is the largest output the constant product allows (`QuoteIsExact`).
  - `FeedIsNewest`, from `FeedInv`: a feed was the newest swaps of the pools that answered when it was made (`FeedMade`), of the trades up
    to then, and trades are only added (`FeedGrows`). Each pool answers a page of its newest only; a swap its own page leaves out has a full page
    of later ones before it, so the merge does not miss it (`MergedIs`). A sorted list is one in which each place counts
    the later ones (`SortedIs`).

Assumptions on constants, each evaluated by TLC in every run that uses it: `PairAssumption` (positive
constants, sets of naturals); `LedgerAssumption`, `MinimumAssumption` and `RouterAssumption` (finitely many users and tokens, addresses
distinct, amounts and deadlines natural, recipients users, paths of different neighbours); `ChainAssumption`,
`StoreAssumption`, `IndexerAssumption` and `FactoryIsSettled` (the factory's block is not replaced, which `checkReorg` does not
look at); `LiquidityFormAssumption`; `SwapFormAssumption` (tokens are numbers, the pools and the wallet an opening starts from are
well-formed, a trade sells something); `ActivityAssumption`, `TokensAssumption` (the manifest's addresses and symbols are distinct, as its review
requires, and mUSDC is one of them), `SettingsAssumption`, `ContractsAssumption` (a listed token has the decimals its contract answers),
`PairsAssumption` (a pair is of two different contracts and has had a state) and `OpeningsAssumption` (the storage holds what some version of the application
wrote: imports as their contracts answered, each once, and settings of any value, or something unreadable);
`AnswersAssumption` (a failed call is neither a number nor a pair of numbers, a missing batch is no list), `FeedAssumption` and `FeedLimitAssumption` (the page asks
the service for no more swaps than the service gives on a page). `SwapsOneAtATime` and `PendingAlwaysWatched` cite none.

The proofs corrected two properties that the runs could not tell from the right ones, because their paths have at most two hops. `SwapLimitsHonoured` compared
balances before and after, which on a round trip over three pools to its own sender is neither what was paid nor what was
received (a round trip over one pool always reverts). `QuotedSwapSucceeds` spoke of longer paths that visit
a pool twice, where the first visit moves the reserves the second quote was made for.

No safety invariant of `Browser` is left to the runs alone. Only model-checked, because it is out of the prover's reach: liveness
(`Terminates`, `EventuallyCaughtUp`, `RefusalStillRemoves`, `EventuallyUpToDate`). Induction over data is done, where it is needed, on a set
of numbers instead of with the library's theorems; that sums and powers of ten are numbers is proved that way too
(`RecursionFromZero`, `SumIs`, `TenToTheIs`).

## 5. Where the code and its comments disagree

No run claims these; each is stated by a definition of the module named, and TLC finds the counterexample
when that definition is made the only property of a copy of the given configuration.

1. `Indexer.ReplayRestoresReserves`, `MCIndexerDeep.cfg`. The comment on `RollbackFrom`
   (`store.go:444`) expects the replayed `Sync` to set the reserves. A rollback leaves a pair with the
   reserves and the `last_sync_block` of an orphaned `Sync`; if the pair is not touched again,
   or only in a lower block, the replay does not repair it.
2. `Indexer.RowsFollowChain`, `MCIndexerDeep.cfg` with `"reload"` added to `Faults`. A failure while reading
   the pairs back after a rollback (`indexer.go:287`) leaves the memory empty, and the following ticks skip the
   events of every pair.
3. `Router.StandardPathNeverShortchanges`, `MCRouterTaxed.cfg`. A standard swap that pays out a
   fee-on-transfer token succeeds and delivers less than `amountOutMin` (`ArkSwapRouter02.sol:308`). The security
   review says the standard paths revert; that is so when the token is the input.
4. `SwapForm.NothingLeavesOnAnotherNetwork`, `MCSwapForm.cfg`. `ConnectButton` calls the wrong network a hard
   stop, but `SwapCard` neither looks at the network nor names one in the request (`SwapCard.tsx:114`).
5. `LiquidityForm.LaterDepositsAreProtected` (a PROPERTY), `MCLiquidityForm.cfg`. `LiquidityCard.tsx:127` explains the zero minima
   by the first deposit into an empty pool; they are also sent while the pool is being read, when the read
   failed, and when somebody else creates the pool first.
6. `Indexer.SnapshotsAreCloses` wherever `Replayed`, `MCIndexerDeep.cfg`. `RollbackFrom` deletes the snapshot bucket that
   the common ancestor shares with an orphaned block, and the replay, which starts after
   the ancestor, does not write the ancestor's `Sync` again.
7. `Indexer.RowsFollowChain`, `MCIndexerShallow.cfg` with `ReorgDepth = 2`. `processRange` fetches the logs of a
   range and then each header without comparing their hashes: after a reorganisation in
   between deeper than the confirmations, orphaned logs are stored under the new hash and no later check sees it. This is
   why `indexer_deep` lets the chain reorganise between ticks only.

The properties of the web runs are stated around the following, which the code does and no comment denies:

- two tabs overwrite each other's activity, imports and settings (`AloneNothingIsLost`,
  `ReopeningKeepsChoices` are about what one tab wrote);
- a request for a receipt that fails shows the transaction as failed (`misread`); a replaced one gets the verdict of its
  replacement, whatever that did: confirmed, or failed if it reverted;
- a row's link names a token by its symbol (`PoolsTable`), so that of an imported token with a listed symbol the
  listed one is opened; a link to an imported token resolved before the imports are read falls back to the default;
- a token can be removed from the list while a form holds it and then be imported again on the other side;
  the form then has it twice and its button is off;
- an import with more than 36 decimals is accepted and dropped on the next reload;
- a position opens the pool form with guessed decimals where the token's own could not be read;
- the reserves and the supply of a row may be of different blocks;
- the list of pair addresses is not polled: an address that could not be read hides its pair until the
  count changes or the window gets focus; adding a pair empties the table until its details are read;
- the nonce signed is the polled one: after another permit it is spent and the removal reverts;
- a removal whose signature arrives late may be a second call in flight, and takes the place of the one the
  button waits for (`SignedSince` in `OneCallInFlight`);
- the first deposit into a pool asks for no approval of the second token, whose amount is not computed;
- `minimumReceived` truncates to zero for outputs too small to leave a unit of tolerance.

## 6. Not modelled, and why

- A reorganisation of the factory's own deployment block: `checkReorg` stops there
  without comparing. The runs keep it settled (`Settled = 1`, `DeployContents` empty).
- The batch size never grows back, and a block refused at batch size 1 is
  retried for ever: the code has no recovery to state.
- Prices, token metadata, LP supply in the database; the read-only API; rendering. With them goes
  `token.go:69`: decimals that the `tokens` table rejects block the cursor.
- The loop of `Run` with the head subscription, and the back-off of `retry.go`: only their outcome is
  modelled (a tick happens, a request fails for good).
- Of the web: `setTokenIn` and the fee-on-transfer switch of the swap page are initial states; the account is
  always connected; a query keeps its latest key's answer only (returning to an earlier key shows no data
  where the library may show a cached answer, except after a flip); an import has no name, so that the metadata batch has two
  calls per token where the code has three; `PoolChart`, the analytics columns, fractional deadlines, the deadline of
  the SDK, parsing and formatting of amounts.
- A pool that was synced with one reserve of zero (a donation before its first mint, then
  `sync`) refuses every addition through the router until someone transfers both tokens and
  calls `mint`; the code has no path that promises otherwise.
- `Router01`, which is not deployed and repeats `Router02`.
- Overflow of `uint256` in SafeMath products: the call reverts, which in the model is a call
  that is not made.
- Generated code, constant data, deployment scripts.

## 7. Plan

In order of importance:

1. `HeadStream` and `Run`: the subscription, its channels, polling and reconnecting, with
   liveness; `Retry` with its back-off, attempts and cancellation. Composes with `Indexer`
   through `Tick`.
2. Done: the swap and liquidity pages, the activity list, tokens, settings, links, pools and feeds. Left of the
   web: the composition of `SwapForm` with `RouterCalls` in place of its own mining step, several
   hops with taxed tokens, and the analytics columns.
3. `Pricing`, `Processor`, the analytics service: pure functions against
   reference definitions.
4. `LpToken` with spenders other than the router, and `Factory`: the registry's three views agree,
   `setFeeToSetter`.
5. Token metadata and LP supply in `Indexer` and `Store`.

The runs stay few: small instances of new modules take a run each, and questions about
one module share a run wherever one instance can answer them (as `router_liquidity`
does).
