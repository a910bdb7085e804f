------------------------------ MODULE SwapForm ------------------------------
(***************************************************************************)
(* The swap page: components/SwapCard.tsx with hooks/useAllowance.ts,      *)
(* useSwapRoute.ts, useTokenBalance.ts and the form state of               *)
(* state/swap.tsx, between a wallet and a chain that other people trade    *)
(* on.                                                                     *)
(*                                                                         *)
(* The page only holds copies of the chain.  A copy is read in a step of   *)
(* its own (each query polls every twelve seconds, and is refetched when a *)
(* receipt arrives), so between two readings anything may happen.  A       *)
(* request is asked of the wallet, confirmed or refused by the user, mined *)
(* in nonce order, and noticed by the page, each in a step of its own.     *)
(* Gas is left out; decimals and formatting too: amounts are integers.     *)
(***************************************************************************)
EXTENDS SwapRoute, FiniteSets

CONSTANTS
  Token,               \* the tokens the user holds: Native and addresses
  Amounts,             \* what may be typed; 0 stands for nothing usable
  SlippageBps,
  Openings,            \* initial [pools, wallet, tokenIn, tokenOut, feeOnTransfer, seenWallet,
                       \* bounds]; the bounds are explained with the variable
  Trades               \* what other people may sell: [pair, token, amount]

VARIABLES
  pools, wallet, allowance,     \* the chain: pools, the user's tokens, allowances to the router
  trades,                       \* how often others have traded
  requests,                     \* everything asked of the wallet, in order
  queue,                        \* those sent on the Ark chain and not mined, in nonce order
  network, switches,            \* the wallet's network, and how often it changed
  tokenIn, tokenOut, typed,     \* the form
  flips,                        \* how often it was flipped
  feeOnTransfer,
  seenPools, seenAllowance, seenWallet,
  swap, approval,               \* the request each mutation hook holds; 0: none
  bounds                        \* never changes: how many trades, requests, flips and
                                \* network switches may happen, whether the node may fail

chain == <<pools, wallet, allowance, trades>>
walletApp == <<requests, queue, network, switches>>
settings == <<feeOnTransfer, bounds>>
form == <<tokenIn, tokenOut, typed, flips, settings>>
seen == <<seenPools, seenAllowance, seenWallet>>
hooks == <<swap, approval>>
vars == <<chain, walletApp, form, seen, hooks>>

Pool == [token0 : Nat, reserve0 : Nat, reserve1 : Nat]

ASSUME SwapFormAssumption ==
  /\ Native \in Token /\ Token \subseteq Nat /\ Wkash \in Nat /\ Hubs \in Seq(Nat)
  /\ Amounts \subseteq Nat /\ 0 \in Amounts /\ SlippageBps \in 1 .. Bps - 1
  /\ \A o \in Openings :
       /\ o.pools \in [DOMAIN o.pools -> Pool] /\ o.wallet \in [Token -> Nat]
       /\ o.tokenIn \in Token /\ o.tokenOut \in Token
       /\ DOMAIN o.bounds = {"trades", "requests", "flips", "switches", "failures"}
  /\ \A t \in Trades : t.amount \in Nat \ {0}

Erc20 == Token \ {Native}
Unread == -1

Init ==
  /\ \E o \in Openings : /\ pools = o.pools /\ wallet = o.wallet
                         /\ tokenIn = o.tokenIn /\ tokenOut = o.tokenOut
                         /\ feeOnTransfer = o.feeOnTransfer
                         /\ seenWallet = o.seenWallet /\ bounds = o.bounds
  /\ allowance = [t \in Erc20 |-> 0] /\ trades = 0
  /\ requests = <<>> /\ queue = <<>> /\ network = "ark" /\ switches = 0
  /\ typed = [side |-> "in", value |-> 0] /\ flips = 0
  /\ seenPools = <<>>
  /\ seenAllowance = [t \in Erc20 |-> 0]
  /\ swap = 0 /\ approval = 0

-----------------------------------------------------------------------------
(* What the card derives from the form and its copies of the chain.        *)

FotConflict == feeOnTransfer /\ typed.side = "out"

Route ==
  IF typed.value = 0 THEN NoRoute
  ELSE BestRoute(seenPools, tokenIn, tokenOut, typed.side, typed.value)

QuoteOf(route, side) ==
  [route |-> route,
   minReceived |-> IF side = "in" THEN MinimumReceived(route.amountOut, SlippageBps)
                                  ELSE route.amountOut,
   maxSold |-> IF side = "out" THEN MaximumSold(route.amountIn, SlippageBps)
                               ELSE route.amountIn]

HasQuote == Route # NoRoute /\ ~FotConflict

NeedsApproval(quote) == tokenIn # Native /\ seenAllowance[tokenIn] < quote.maxSold

IsPending(slot) == slot # 0 /\ requests[slot].status = "asked"
IsLoading(slot) == /\ slot # 0
                   /\ requests[slot].status \notin {"asked", "refused"}
                   /\ requests[slot].noticed = "no"
IsApproving == IsPending(approval) \/ IsLoading(approval)

InsufficientBalance(quote) ==
  LET required == IF tokenIn = Native THEN quote.maxSold ELSE quote.route.amountIn
  IN  seenWallet[tokenIn] # Unread /\ required > seenWallet[tokenIn]

(* Variant: the wait for the receipt forgotten.                            *)
OnlyPending == IsApproving \/ IsPending(swap)

Busy == IsApproving \/ IsPending(swap) \/ IsLoading(swap)

Blocked(quote) ==
  \/ tokenIn = tokenOut
  \/ InsufficientBalance(quote)
  \/ ImpactSeverity(quote.route.impactBps) = "severe"
  \/ Busy

-----------------------------------------------------------------------------
(* The user on the page.                                                   *)

TypeAmount(side, value) ==
  /\ typed' = [side |-> side, value |-> value] /\ typed' # typed
  /\ UNCHANGED <<chain, walletApp, tokenIn, tokenOut, flips, settings, seen, hooks>>

Opposite(side) == IF side = "in" THEN "out" ELSE "in"

(* The flip forgets the swap it may have in flight.  The pools are queried *)
(* anew, in another order; until the answer the page shows nothing, or     *)
(* what an earlier query in that order had read, no fresher than this.     *)
Flip ==
  /\ flips < bounds.flips /\ flips' = flips + 1
  /\ tokenIn' = tokenOut /\ tokenOut' = tokenIn
  /\ typed' = [typed EXCEPT !.side = Opposite(@)]
  /\ swap' = 0
  /\ seenPools' \in {<<>>, seenPools}
  /\ UNCHANGED <<chain, walletApp, settings, seenAllowance, seenWallet, approval>>

SelectTokenOut(t) ==
  /\ t \notin {tokenIn, tokenOut}
  /\ tokenOut' = t
  /\ seenPools' = <<>>
  /\ UNCHANGED <<chain, walletApp, tokenIn, typed, flips, settings, seenAllowance, seenWallet, hooks>>

Ask(request) ==
  /\ Len(requests) < bounds.requests
  /\ LET fresh == [status |-> "asked", noticed |-> "no", paid |-> 0, got |-> 0,
                   flips |-> flips, from |-> tokenIn, to |-> tokenOut]
     IN  requests' = Append(requests, [f \in DOMAIN request \cup DOMAIN fresh |->
                              IF f \in DOMAIN request THEN request[f] ELSE fresh[f]])

(* Variant: an unlimited approval.                                         *)
UnlimitedAmount(quote) == 1000000

(* approve(): of exactly the amount the quote may charge; and unlimited.   *)
ApprovedAmount(quote) == quote.maxSold

Approve ==
  /\ HasQuote
  /\ LET quote == QuoteOf(Route, typed.side)
     IN  /\ NeedsApproval(quote)
         /\ Ask([kind |-> "approve", amount |-> ApprovedAmount(quote), quote |-> quote])
  /\ approval' = Len(requests')
  /\ UNCHANGED <<chain, queue, network, switches, form, seen, swap>>

(* Variant: no limit to speak of.                                          *)
Unprotected(quote, side) ==
  IF side = "in"
  THEN [amount |-> quote.route.amountIn, limit |-> 1, value |-> quote.route.amountIn]
  ELSE [amount |-> quote.route.amountOut, limit |-> 10 * quote.maxSold, value |-> quote.maxSold]

(* submit(): the router function is chosen by side and by which token is   *)
(* native; what it is told is an exact amount, a limit, and the value sent *)
(* along.  Nothing names the network.                                      *)
CallArguments(quote, side) ==
  IF side = "in"
  THEN [amount |-> quote.route.amountIn, limit |-> quote.minReceived, value |-> quote.route.amountIn]
  ELSE [amount |-> quote.route.amountOut, limit |-> quote.maxSold, value |-> quote.maxSold]

Submit ==
  /\ HasQuote
  /\ LET quote == QuoteOf(Route, typed.side)
         call == CallArguments(quote, typed.side)
     IN  /\ ~NeedsApproval(quote) /\ ~Blocked(quote)
         /\ Ask([kind |-> "swap", side |-> typed.side, quote |-> quote,
                 amount |-> call.amount, limit |-> call.limit, value |-> call.value])
  /\ swap' = Len(requests')
  /\ UNCHANGED <<chain, queue, network, switches, form, seen, approval>>

-----------------------------------------------------------------------------
(* The wallet: the user confirms or refuses, in any order.                 *)

WalletConfirms(i) ==
  /\ requests[i].status = "asked"
  /\ requests' = [requests EXCEPT ![i].status = IF network = "ark" THEN "sent" ELSE "elsewhere"]
  /\ queue' = IF network = "ark" THEN Append(queue, i) ELSE queue
  /\ UNCHANGED <<chain, network, switches, form, seen, hooks>>

WalletRefuses(i) ==
  /\ requests[i].status = "asked"
  /\ requests' = [requests EXCEPT ![i].status = "refused"]
  /\ UNCHANGED <<chain, queue, network, switches, form, seen, hooks>>

SwitchNetwork ==
  /\ switches < bounds.switches /\ switches' = switches + 1
  /\ network' = IF network = "ark" THEN "other" ELSE "ark"
  /\ UNCHANGED <<chain, requests, queue, form, seen, hooks>>

-----------------------------------------------------------------------------
(* The chain: the router with the formulas of ArkSwapLibrary.              *)

OnChain(path, i) == Oriented(pools[ComputePairAddress(path[i], path[i + 1])], path[i])

AmountsOut(path, amountIn) ==
  LET amounts[i \in 1 .. Len(path)] ==
        IF i = 1 THEN amountIn
        ELSE LET hop == OnChain(path, i - 1)
             IN  IF amounts[i - 1] = 0 THEN 0
                 ELSE GetAmountOut(amounts[i - 1], hop.reserveIn, hop.reserveOut)
  IN  amounts

AmountsIn(path, amountOut) ==
  LET amounts[i \in 1 .. Len(path)] ==
        IF i = Len(path) THEN amountOut
        ELSE LET hop == OnChain(path, i)
             IN  IF amounts[i + 1] \in 1 .. hop.reserveOut - 1
                 THEN GetAmountIn(amounts[i + 1], hop.reserveIn, hop.reserveOut)
                 ELSE 0
  IN  amounts

AmountsAlong(path, side, amount) ==
  IF side = "in" THEN AmountsOut(path, amount) ELSE AmountsIn(path, amount)

WithinLimit(call, amounts) ==
  /\ \A i \in DOMAIN amounts : amounts[i] > 0
  /\ IF call.side = "in" THEN amounts[Len(amounts)] >= call.limit ELSE amounts[1] <= call.limit

CanPay(call, amounts) ==
  /\ wallet[call.from] >= IF call.from = Native THEN call.value ELSE amounts[1]
  /\ call.from # Native => allowance[call.from] >= amounts[1]

Moved(pool, tokenSold, sold, bought) ==
  IF pool.token0 = tokenSold
  THEN [pool EXCEPT !.reserve0 = @ + sold, !.reserve1 = @ - bought]
  ELSE [pool EXCEPT !.reserve1 = @ + sold, !.reserve0 = @ - bought]

PoolsAfter(path, amounts) ==
  [p \in DOMAIN pools |->
     IF p \notin Pairs(path) THEN pools[p]
     ELSE LET i == CHOOSE i \in 1 .. Len(path) - 1 : ComputePairAddress(path[i], path[i + 1]) = p
          IN  Moved(pools[p], path[i], amounts[i], amounts[i + 1])]

Executes(i, amounts) ==
  LET call == requests[i]
      last == amounts[Len(amounts)]
  IN  /\ pools' = PoolsAfter(call.quote.route.path, amounts)
      /\ wallet' = [wallet EXCEPT ![call.from] = @ - amounts[1], ![call.to] = @ + last]
      /\ allowance' = IF call.from = Native THEN allowance
                      ELSE [allowance EXCEPT ![call.from] = @ - amounts[1]]
      /\ requests' = [requests EXCEPT ![i].status = "mined", ![i].paid = amounts[1], ![i].got = last]

(* A swap executes within its deadline and limit, or reverts.              *)
MineSwap ==
  /\ queue # <<>> /\ requests[Head(queue)].kind = "swap"
  /\ LET i == Head(queue)
         call == requests[i]
         amounts == AmountsAlong(call.quote.route.path, call.side, call.amount)
     IN  \/ WithinLimit(call, amounts) /\ CanPay(call, amounts) /\ Executes(i, amounts)
         \/ /\ requests' = [requests EXCEPT ![i].status = "reverted"]
            /\ UNCHANGED <<pools, wallet, allowance>>
  /\ queue' = Tail(queue)
  /\ UNCHANGED <<trades, network, switches, form, seen, hooks>>

MineApproval ==
  /\ queue # <<>> /\ requests[Head(queue)].kind = "approve"
  /\ LET i == Head(queue)
     IN  /\ allowance' = [allowance EXCEPT ![requests[i].from] = requests[i].amount]
         /\ requests' = [requests EXCEPT ![i].status = "mined"]
  /\ queue' = Tail(queue)
  /\ UNCHANGED <<pools, wallet, trades, network, switches, form, seen, hooks>>

OthersTrade(p, tokenSold, amount) ==
  /\ trades < bounds.trades /\ trades' = trades + 1
  /\ LET hop == Oriented(pools[p], tokenSold)
     IN  pools' = [pools EXCEPT ![p] =
           Moved(@, tokenSold, amount, GetAmountOut(amount, hop.reserveIn, hop.reserveOut))]
  /\ UNCHANGED <<wallet, allowance, walletApp, form, seen, hooks>>

-----------------------------------------------------------------------------
(* The page reads the chain.                                               *)

ReadPools(failed) ==
  /\ failed # {} => bounds.failures
  /\ seenPools' = Answered(pools, PairSet(tokenIn, tokenOut), failed)
  /\ UNCHANGED <<chain, walletApp, form, seenAllowance, seenWallet, hooks>>

ReadAllowance ==
  /\ tokenIn # Native
  /\ seenAllowance' = [seenAllowance EXCEPT ![tokenIn] = allowance[tokenIn]]
  /\ UNCHANGED <<chain, walletApp, form, seenPools, seenWallet, hooks>>

ReadBalances ==
  /\ seenWallet' = [t \in Token |-> IF t \in {tokenIn, tokenOut} THEN wallet[t] ELSE seenWallet[t]]
  /\ UNCHANGED <<chain, walletApp, form, seenPools, seenAllowance, hooks>>

(* The receipt of the request a hook holds.  A failing node looks like a   *)
(* failed transaction, and a network the page does not read like no        *)
(* transaction at all.                                                     *)
ReceiptSays(i) ==
  \/ requests[i].status = "mined" /\ requests' = [requests EXCEPT ![i].noticed = "success"]
  \/ /\ requests[i].status = "reverted" \/ (requests[i].status = "sent" /\ bounds.failures)
     /\ requests' = [requests EXCEPT ![i].noticed = "error"]

(* A confirmed swap empties the field.                                     *)
NoticeSwap ==
  /\ IsLoading(swap) /\ ReceiptSays(swap)
  /\ typed' = IF requests'[swap].noticed = "success" THEN [typed EXCEPT !.value = 0] ELSE typed
  /\ UNCHANGED <<chain, queue, network, switches, tokenIn, tokenOut, flips, settings, seen, hooks>>

NoticeApproval ==
  /\ IsLoading(approval) /\ ReceiptSays(approval)
  /\ UNCHANGED <<chain, queue, network, switches, form, seen, hooks>>

-----------------------------------------------------------------------------
User ==
  \/ \E side \in {"in", "out"}, value \in Amounts : TypeAmount(side, value)
  \/ Flip
  \/ \E t \in Token : SelectTokenOut(t)
  \/ Approve \/ Submit
  \/ \E i \in DOMAIN requests : WalletConfirms(i) \/ WalletRefuses(i)
  \/ SwitchNetwork

Environment ==
  \/ MineSwap \/ MineApproval
  \/ \E t \in Trades : t.pair \in DOMAIN pools /\ OthersTrade(t.pair, t.token, t.amount)

Page ==
  \/ \E failed \in {{}} \cup {{p} : p \in DOMAIN pools} : ReadPools(failed)
  \/ ReadAllowance \/ ReadBalances
  \/ NoticeSwap \/ NoticeApproval

Next == User \/ Environment \/ Page

Spec == Init /\ [][Next]_vars

-----------------------------------------------------------------------------
(* Types, with what the hooks may hold, and that no pool a quote may use   *)
(* lacks a reserve.                                                        *)
TypeOK ==
  /\ \A t \in Token : wallet[t] \in Nat
  /\ \A t \in Erc20 : allowance[t] \in Nat
  /\ typed.side \in {"in", "out"} /\ typed.value \in Amounts
  /\ swap \in 0 .. Len(requests) /\ approval \in 0 .. Len(requests)
  /\ \A p \in DOMAIN seenPools : seenPools[p].reserve0 > 0 /\ seenPools[p].reserve1 > 0
  /\ swap # 0 => requests[swap].kind = "swap"
  /\ approval # 0 => requests[approval].kind = "approve"

(* amm.ts: a stale quote can cost gas but never funds beyond the slippage  *)
(* tolerance.  Whatever the pools did between the quote and the block, a   *)
(* swap that is mined paid no more and got no less than the card showed    *)
(* when it was sent.                                                       *)
StaleQuoteCostsOnlyGas ==
  \A i \in DOMAIN requests :
    LET r == requests[i]
    IN  r.kind = "swap" /\ r.status = "mined" =>
          r.paid <= r.quote.maxSold /\ r.got >= r.quote.minReceived

(* amm.ts must stay in lockstep with ArkSwapLibrary: where the reading is  *)
(* still true, the router would move exactly the quoted amounts.           *)
FreshQuoteIsExact ==
  HasQuote /\ (\A p \in Pairs(Route.path) : seenPools[p] = pools[p]) =>
    LET amounts == AmountsAlong(Route.path, typed.side, typed.value)
    IN  amounts[1] = Route.amountIn /\ amounts[Len(amounts)] = Route.amountOut

(* The search misses nothing: no simple path of at most two hubs over the  *)
(* pools that were read gives a better deal than the one it keeps, and     *)
(* when it keeps none there is none.                                       *)
SimplePaths ==
  LET a == RoutedAddress(tokenIn)
      b == RoutedAddress(tokenOut)
      hubs == {Hubs[i] : i \in DOMAIN Hubs}
  IN  {p \in {<<a, b>>} \cup {<<a, h, b>> : h \in hubs} \cup {<<a, h, k, b>> : h \in hubs, k \in hubs} :
         \A i, j \in DOMAIN p : i # j => p[i] # p[j]}

RouteIsBest ==
  typed.value > 0 /\ tokenIn # tokenOut =>
    LET deals == {QuoteAlong(seenPools, p, typed.side, typed.value) :
                    p \in {q \in SimplePaths : Usable(seenPools, q, typed.side, typed.value)}}
    IN  IF deals = {} THEN Route = NoRoute
        ELSE /\ Route \in deals
             /\ \A d \in deals : IF typed.side = "in" THEN d.amountOut <= Route.amountOut
                                ELSE d.amountIn >= Route.amountIn

(* What the card shows is the best offer there is, at the price the router *)
(* will take, from whatever part of the pools was read.                    *)
QuotesAreSound == TypeOK /\ FreshQuoteIsExact /\ RouteIsBest

(* useAllowance: approval is for the exact amount, so that a router that   *)
(* turns out compromised cannot take more than the user intended for one   *)
(* trade.  However often the user approves, what the router may take of a  *)
(* token never exceeds the most a single shown quote would have charged.   *)
ExposureIsOneTrade ==
  \A t \in Erc20 : allowance[t] > 0 =>
    \E i \in DOMAIN requests : /\ requests[i].kind = "approve" /\ requests[i].from = t
                               /\ allowance[t] <= requests[i].quote.maxSold

(* The same trade is not sent twice: while a swap is in the wallet or the  *)
(* mempool, another is asked for only after a flip, or after a failing     *)
(* node made the page take the first for failed.                           *)
Outstanding(i) ==
  requests[i].kind = "swap" /\ requests[i].status \in {"asked", "sent"}
OneSwapInFlight ==
  \A i, j \in DOMAIN requests :
    i < j /\ Outstanding(i) /\ Outstanding(j) =>
      requests[i].flips # requests[j].flips \/ requests[i].noticed = "error"

(* ConnectButton: the wrong network is a hard stop, no swap is sent from   *)
(* one.                                                                    *)
NothingLeavesOnAnotherNetwork ==
  \A i \in DOMAIN requests : requests[i].status # "elsewhere"
=============================================================================
