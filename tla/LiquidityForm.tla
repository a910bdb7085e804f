--------------------------- MODULE LiquidityForm ----------------------------
(***************************************************************************)
(* The liquidity page: components/LiquidityCard.tsx with hooks/            *)
(* usePoolState.ts, useLpPermit.ts and useAllowance.ts and the selection   *)
(* of state/pool.tsx, for one pair of tokens.                              *)
(*                                                                         *)
(* As in SwapForm the page holds copies of the chain, each read in a step  *)
(* of its own.  The removal is the one handler of the page that waits in   *)
(* the middle: it asks the wallet for a signature, and when the answer     *)
(* comes it goes on with what it computed before.                          *)
(*                                                                         *)
(* Gas, decimals and the user's balances of the two tokens are left out: a *)
(* call may revert for any reason, lack of funds and a deadline passed     *)
(* among them.                                                             *)
(***************************************************************************)
EXTENDS AmmSdk, Sequences, FiniteSets

CONSTANTS
  Amounts,             \* what may be typed as the deposit of token a; 0: nothing usable
  Percents,            \* the positions of the removal slider that are used
  SlippageBps,
  MINIMUM_LIQUIDITY,
  NoPool, NoCall,
  Openings,            \* initial [pool, lp, native, approved, mode, bounds], where approved is
                       \* what is left of an earlier approval of token a
  Created,             \* the pool someone else may create
  TradeAmounts         \* how much of token a someone else may sell

VARIABLES
  pool,                \* NoPool or [token0, reserve0, reserve1, totalSupply]
  lp, nonce,           \* the user's LP tokens and permit nonce in the pair
  allowance,           \* to the router, of "a", "b" and "lp"
  others,              \* how often others acted
  requests, queue,     \* as in SwapForm
  mode, input, percent, permitFallback,     \* the form
  turns,               \* how often the user changed mode, slider, or mind about signing
  signing,             \* NoCall, or what a removal goes on with once it is signed
  seenPool, seenLp, seenNonce, seenAllowance,
  call, approval,      \* the request of the card's hook and of the three allowance hooks
  native, bounds       \* never change: the side that is native KASH, if any; bounds on
                       \* others, requests, turns, and whether reads may fail

chain == <<pool, lp, nonce, allowance, others>>
walletApp == <<requests, queue>>
form == <<mode, input, percent, permitFallback, turns>>
seen == <<seenPool, seenLp, seenNonce, seenAllowance>>
constants == <<native, bounds>>
vars == <<chain, walletApp, form, signing, seen, call, approval, constants>>

Side == {"a", "b"}
Asset == Side \cup {"lp"}
(* Token a has the larger address: it is the pair's token1.                *)
TokenA == 2
TokenB == 1
Unread == -1

(* A pool in use: it holds both tokens, and has issued shares.             *)
Pool == [token0 : {TokenB}, reserve0 : Nat \ {0}, reserve1 : Nat \ {0}, totalSupply : Nat \ {0}]

(* The minimum liquidity of a pool belongs to nobody.                      *)
ASSUME LiquidityFormAssumption ==
  /\ Amounts \subseteq Nat /\ 0 \in Amounts /\ Percents \subseteq 1 .. 100
  /\ SlippageBps \in 1 .. Bps - 1 /\ MINIMUM_LIQUIDITY \in Nat \ {0} /\ TradeAmounts \subseteq Nat \ {0}
  /\ NoPool \notin Pool /\ Created \in Pool /\ Created.totalSupply >= MINIMUM_LIQUIDITY
  /\ \A o \in Openings :
       /\ DOMAIN o.bounds = {"others", "requests", "turns", "failures"}
       /\ o.lp \in Nat /\ o.approved \in Nat /\ o.mode \in {"add", "remove"}
       /\ \/ o.pool = NoPool /\ o.lp = 0
          \/ o.pool \in Pool /\ o.pool.totalSupply >= o.lp + MINIMUM_LIQUIDITY

Init ==
  /\ \E o \in Openings : /\ pool = o.pool /\ lp = o.lp /\ native = o.native
                         /\ mode = o.mode /\ bounds = o.bounds
                         /\ allowance = [x \in Asset |-> IF x = "a" THEN o.approved ELSE 0]
  /\ nonce = 0 /\ others = 0
  /\ requests = <<>> /\ queue = <<>>
  /\ input = 0 /\ percent = 50 /\ permitFallback = FALSE /\ turns = 0
  /\ signing = NoCall
  /\ seenPool = NoPool /\ seenLp = 0 /\ seenNonce = Unread
  /\ seenAllowance = [x \in Asset |-> 0]
  /\ call = 0 /\ approval = [x \in Asset |-> 0]

-----------------------------------------------------------------------------
(* What the card derives.                                                  *)

OrientReserves(p, token) ==
  IF p.token0 = token THEN [in |-> p.reserve0, out |-> p.reserve1]
  ELSE [in |-> p.reserve1, out |-> p.reserve0]

WithSlippage(value) == MinimumReceived(value, SlippageBps)

(* The amount of b that matches, where there is a ratio to match.          *)
HasRatio == seenPool # NoPool /\ seenPool.reserve0 > 0 /\ seenPool.reserve1 > 0
AmountB ==
  IF ~HasRatio THEN 0
  ELSE LET r == OrientReserves(seenPool, TokenA) IN QuoteAmount(input, r.in, r.out)

Lp == IF seenPool = NoPool THEN 0 ELSE seenLp
RemoveAmount == (Lp * percent) \div 100

ExpectedOut ==
  IF seenPool = NoPool \/ seenPool.totalSupply = 0 THEN [a |-> 0, b |-> 0]
  ELSE LET r == OrientReserves(seenPool, TokenA)
       IN  [a |-> (RemoveAmount * r.in) \div seenPool.totalSupply,
            b |-> (RemoveAmount * r.out) \div seenPool.totalSupply]

Wanted(x) == IF x = "a" THEN input ELSE IF x = "b" THEN AmountB ELSE RemoveAmount
NeedsApproval(x) == x # native /\ Wanted(x) > 0 /\ seenAllowance[x] < Wanted(x)

IsPending(slot) == slot # 0 /\ requests[slot].status = "asked"
IsLoading(slot) == /\ slot # 0 /\ requests[slot].status \notin {"asked", "refused"}
                   /\ requests[slot].noticed = "no"
(* Variant: the wait for the receipt forgotten.                            *)
OnlyPending == IsPending(call)

Busy == IsPending(call) \/ IsLoading(call)
IsApproving(x) == IsPending(approval[x]) \/ IsLoading(approval[x])

-----------------------------------------------------------------------------
(* The user on the page.                                                   *)

TypeAmount(value) ==
  /\ mode = "add" /\ input # value
  /\ input' = value
  /\ UNCHANGED <<chain, walletApp, mode, percent, permitFallback, turns, signing, seen, call,
                 approval, constants>>

MoveSlider(value) ==
  /\ mode = "remove" /\ percent # value
  /\ turns < bounds.turns /\ turns' = turns + 1
  /\ percent' = value
  /\ UNCHANGED <<chain, walletApp, mode, input, permitFallback, signing, seen, call, approval,
                 constants>>

(* The mode buttons forget the call that may be in flight, not a signature *)
(* that is awaited.                                                        *)
SetMode(m) ==
  /\ turns < bounds.turns /\ turns' = turns + 1
  /\ mode' = m /\ call' = 0
  /\ UNCHANGED <<chain, walletApp, input, percent, permitFallback, signing, seen, approval,
                 constants>>

TrySignatureAgain ==
  /\ mode = "remove" /\ permitFallback /\ NeedsApproval("lp")
  /\ turns < bounds.turns /\ turns' = turns + 1
  /\ permitFallback' = FALSE
  /\ UNCHANGED <<chain, walletApp, mode, input, percent, signing, seen, call, approval, constants>>

Asked(request) ==
  LET fresh == [status |-> "asked", noticed |-> "no", gotA |-> 0, gotB |-> 0, turns |-> turns]
  IN  Append(requests, [f \in DOMAIN request \cup DOMAIN fresh |->
                          IF f \in DOMAIN request THEN request[f] ELSE fresh[f]])

Approve(x) ==
  /\ Len(requests) < bounds.requests
  /\ IF mode = "add" THEN x \in Side ELSE x = "lp" /\ permitFallback
  /\ NeedsApproval(x) /\ ~IsApproving(x)
  /\ requests' = Asked([kind |-> "approve", asset |-> x, amount |-> Wanted(x)])
  /\ approval' = [approval EXCEPT ![x] = Len(requests')]
  /\ UNCHANGED <<chain, queue, form, signing, seen, call, constants>>

(* addLiquidity(): without a pool the deposit is taken for the first, the  *)
(* amount typed for a is used for b, and nothing is protected.             *)
AddArguments ==
  LET amountB == IF HasRatio THEN AmountB ELSE input
      first == seenPool = NoPool
  IN  [kind |-> "add", pool |-> seenPool, amountA |-> input, amountB |-> amountB,
       minA |-> IF first THEN 0 ELSE WithSlippage(input),
       minB |-> IF first THEN 0 ELSE WithSlippage(amountB)]

AddLiquidity ==
  /\ mode = "add" /\ input > 0 /\ ~Busy
  /\ ~\E x \in Side : NeedsApproval(x)
  /\ Len(requests) < bounds.requests
  /\ requests' = Asked(AddArguments)
  /\ call' = Len(requests')
  /\ UNCHANGED <<chain, queue, form, signing, seen, approval, constants>>

(* Variant: no withdrawal protected.                                       *)
RemoveUnprotected ==
  [kind |-> "remove", liquidity |-> RemoveAmount, pool |-> seenPool, minA |-> 0, minB |-> 0,
   signed |-> Unread, signedNonce |-> Unread]

(* removeLiquidity() up to the signature, or through to the call.          *)
RemoveArguments ==
  [kind |-> "remove", liquidity |-> RemoveAmount, pool |-> seenPool,
   minA |-> WithSlippage(ExpectedOut.a), minB |-> WithSlippage(ExpectedOut.b),
   signed |-> Unread, signedNonce |-> Unread]

PermitReady == seenPool # NoPool /\ seenNonce # Unread

CanRemove ==
  /\ mode = "remove" /\ seenPool # NoPool /\ RemoveAmount > 0 /\ ~Busy /\ signing = NoCall
  /\ Len(requests) < bounds.requests

Sign ==
  /\ CanRemove /\ NeedsApproval("lp") /\ ~permitFallback /\ PermitReady
  /\ signing' = [RemoveArguments EXCEPT !.signed = RemoveAmount, !.signedNonce = seenNonce]
  /\ UNCHANGED <<chain, walletApp, form, seen, call, approval, constants>>

Remove ==
  /\ CanRemove /\ ~NeedsApproval("lp")
  /\ requests' = Asked(RemoveArguments)
  /\ call' = Len(requests')
  /\ UNCHANGED <<chain, queue, form, signing, seen, approval, constants>>

(* Variant: the values of the page as it is now.                           *)
Recomputed == [RemoveArguments EXCEPT !.signed = signing.signed, !.signedNonce = signing.signedNonce]

(* The handler resumes with the values it had, whatever the page shows     *)
(* now.                                                                    *)
Resumed == signing

WalletSigns ==
  /\ signing # NoCall /\ Len(requests) < bounds.requests
  /\ requests' = Asked(Resumed)
  /\ call' = Len(requests') /\ signing' = NoCall
  /\ UNCHANGED <<chain, queue, form, seen, approval, constants>>

(* Variant: the refusal forgotten.                                         *)
RefusalForgotten ==
  /\ signing # NoCall
  /\ signing' = NoCall
  /\ UNCHANGED <<chain, walletApp, form, seen, call, approval, constants>>

WalletRefusesSignature ==
  /\ signing # NoCall
  /\ signing' = NoCall /\ permitFallback' = TRUE
  /\ UNCHANGED <<chain, walletApp, mode, input, percent, turns, seen, call, approval, constants>>

WalletConfirms(i) ==
  /\ requests[i].status = "asked"
  /\ requests' = [requests EXCEPT ![i].status = "sent"]
  /\ queue' = Append(queue, i)
  /\ UNCHANGED <<chain, form, signing, seen, call, approval, constants>>

WalletRefuses(i) ==
  /\ requests[i].status = "asked"
  /\ requests' = [requests EXCEPT ![i].status = "refused"]
  /\ UNCHANGED <<chain, queue, form, signing, seen, call, approval, constants>>

-----------------------------------------------------------------------------
(* The chain: the router's addLiquidity and removeLiquidity.               *)

PoolWith(a, b, supply) == [token0 |-> TokenB, reserve0 |-> b, reserve1 |-> a, totalSupply |-> supply]

Supplied(r) ==
  IF pool = NoPool THEN [a |-> r.amountA, b |-> r.amountB]
  ELSE LET b == Quote(r.amountA, pool.reserve1, pool.reserve0)
           a == Quote(r.amountB, pool.reserve0, pool.reserve1)
       IN  IF b <= r.amountB THEN [a |-> r.amountA, b |-> b] ELSE [a |-> a, b |-> r.amountB]

NewShares(s) ==
  IF pool = NoPool
  THEN LET root == Sqrt(s.a * s.b) IN IF root > MINIMUM_LIQUIDITY THEN root - MINIMUM_LIQUIDITY ELSE 0
  ELSE Min((s.a * pool.totalSupply) \div pool.reserve1, (s.b * pool.totalSupply) \div pool.reserve0)

Funded(x, amount) == x = native \/ allowance[x] >= amount

AddAccepted(r, s) ==
  /\ pool # NoPool => s.a >= r.minA /\ s.b >= r.minB
  /\ Funded("a", s.a) /\ Funded("b", s.b) /\ NewShares(s) > 0

Spent(s) ==
  [x \in Asset |-> IF x = native \/ x = "lp" THEN allowance[x]
                   ELSE allowance[x] - (IF x = "a" THEN s.a ELSE s.b)]

Fails(i) ==
  /\ requests' = [requests EXCEPT ![i].status = "reverted"]
  /\ UNCHANGED <<pool, lp, nonce, allowance>>

MineAdd ==
  /\ queue # <<>> /\ requests[Head(queue)].kind = "add"
  /\ LET i == Head(queue)
         s == Supplied(requests[i])
     IN  \/ Fails(i)
         \/ /\ AddAccepted(requests[i], s)
            /\ pool' = IF pool = NoPool
                       THEN PoolWith(s.a, s.b, NewShares(s) + MINIMUM_LIQUIDITY)
                       ELSE PoolWith(pool.reserve1 + s.a, pool.reserve0 + s.b,
                                     pool.totalSupply + NewShares(s))
            /\ lp' = lp + NewShares(s) /\ allowance' = Spent(s)
            /\ requests' = [requests EXCEPT ![i].status = "mined", ![i].gotA = s.a, ![i].gotB = s.b]
            /\ UNCHANGED nonce
  /\ queue' = Tail(queue)
  /\ UNCHANGED <<others, form, signing, seen, call, approval, constants>>

(* A permit is for the signed value, against the nonce of the moment, and  *)
(* replaces the allowance.                                                 *)
Permits(r) == r.signed = r.liquidity /\ r.signedNonce = nonce

RemoveAccepted(r, a, b) ==
  /\ IF r.signed # Unread THEN Permits(r) ELSE allowance["lp"] >= r.liquidity
  /\ r.liquidity <= lp /\ a >= r.minA /\ b >= r.minB /\ a > 0 /\ b > 0

MineRemove ==
  /\ queue # <<>> /\ requests[Head(queue)].kind = "remove"
  /\ LET i == Head(queue)
         r == requests[i]
         a == (r.liquidity * pool.reserve1) \div pool.totalSupply
         b == (r.liquidity * pool.reserve0) \div pool.totalSupply
     IN  \/ Fails(i)
         \/ /\ RemoveAccepted(r, a, b)
            /\ pool' = PoolWith(pool.reserve1 - a, pool.reserve0 - b, pool.totalSupply - r.liquidity)
            /\ lp' = lp - r.liquidity
            /\ nonce' = IF r.signed # Unread THEN nonce + 1 ELSE nonce
            /\ allowance' = [allowance EXCEPT !["lp"] =
                               IF r.signed # Unread THEN 0 ELSE @ - r.liquidity]
            /\ requests' = [requests EXCEPT ![i].status = "mined", ![i].gotA = a, ![i].gotB = b]
  /\ queue' = Tail(queue)
  /\ UNCHANGED <<others, form, signing, seen, call, approval, constants>>

MineApproval ==
  /\ queue # <<>> /\ requests[Head(queue)].kind = "approve"
  /\ LET i == Head(queue)
     IN  /\ allowance' = [allowance EXCEPT ![requests[i].asset] = requests[i].amount]
         /\ requests' = [requests EXCEPT ![i].status = "mined"]
  /\ queue' = Tail(queue)
  /\ UNCHANGED <<pool, lp, nonce, others, form, signing, seen, call, approval, constants>>

OthersAct(amount) ==
  /\ others < bounds.others /\ others' = others + 1
  /\ pool' = IF pool = NoPool THEN Created
             ELSE PoolWith(pool.reserve1 + amount,
                           pool.reserve0 - GetAmountOut(amount, pool.reserve1, pool.reserve0),
                           pool.totalSupply)
  /\ UNCHANGED <<lp, nonce, allowance, walletApp, form, signing, seen, call, approval, constants>>

-----------------------------------------------------------------------------
(* The page reads the chain.  A failed read of the pool shows no pool.     *)

ReadPool ==
  /\ seenPool' = pool
  /\ UNCHANGED <<chain, walletApp, form, signing, seenLp, seenNonce, seenAllowance, call, approval,
                 constants>>

ReadPoolFails ==
  /\ bounds.failures
  /\ seenPool' = NoPool
  /\ UNCHANGED <<chain, walletApp, form, signing, seenLp, seenNonce, seenAllowance, call, approval,
                 constants>>

ReadPosition ==
  /\ seenPool # NoPool
  /\ seenLp' = lp
  /\ UNCHANGED <<chain, walletApp, form, signing, seenPool, seenNonce, seenAllowance, call, approval,
                 constants>>

ReadNonce ==
  /\ seenPool # NoPool
  /\ seenNonce' = nonce
  /\ UNCHANGED <<chain, walletApp, form, signing, seenPool, seenLp, seenAllowance, call, approval,
                 constants>>

ReadAllowance(x) ==
  /\ x # native /\ (x = "lp" => seenPool # NoPool)
  /\ seenAllowance' = [seenAllowance EXCEPT ![x] = allowance[x]]
  /\ UNCHANGED <<chain, walletApp, form, signing, seenPool, seenLp, seenNonce, call, approval,
                 constants>>

Settled(i) == requests[i].status \in {"mined", "reverted"}
Noticed(i) ==
  [requests EXCEPT ![i].noticed = IF requests[i].status = "mined" THEN "success" ELSE "error"]

(* A confirmed call empties the field; the other readings it refreshes are *)
(* the ones above.                                                         *)
NoticeCall ==
  /\ IsLoading(call) /\ Settled(call)
  /\ requests' = Noticed(call)
  /\ input' = IF requests[call].status = "mined" THEN 0 ELSE input
  /\ UNCHANGED <<chain, queue, mode, percent, permitFallback, turns, signing, seen, call, approval,
                 constants>>

NoticeApproval(x) ==
  /\ IsLoading(approval[x]) /\ Settled(approval[x])
  /\ requests' = Noticed(approval[x])
  /\ UNCHANGED <<chain, queue, form, signing, seen, call, approval, constants>>

-----------------------------------------------------------------------------
User ==
  \/ \E v \in Amounts : TypeAmount(v)
  \/ \E v \in Percents : MoveSlider(v)
  \/ \E m \in {"add", "remove"} : SetMode(m)
  \/ TrySignatureAgain
  \/ \E x \in Asset : Approve(x)
  \/ AddLiquidity \/ Sign \/ Remove
  \/ WalletSigns \/ WalletRefusesSignature
  \/ \E i \in DOMAIN requests : WalletConfirms(i) \/ WalletRefuses(i)

Environment == MineAdd \/ MineRemove \/ MineApproval \/ \E amount \in TradeAmounts : OthersAct(amount)

Page ==
  \/ ReadPool \/ ReadPoolFails \/ ReadPosition \/ ReadNonce
  \/ \E x \in Asset : ReadAllowance(x) \/ NoticeApproval(x)
  \/ NoticeCall

Next == User \/ Environment \/ Page

Spec == Init /\ [][Next]_vars

(* A user who keeps pressing the button on show, a wallet that answers,    *)
(* a chain that mines, and queries that poll.                              *)
Fairness ==
  /\ WF_vars(Sign) /\ WF_vars(Remove) /\ WF_vars(Approve("lp"))
  /\ WF_vars(WalletSigns \/ WalletRefusesSignature)
  /\ WF_vars(\E i \in DOMAIN requests : WalletConfirms(i) \/ WalletRefuses(i))
  /\ WF_vars(MineAdd \/ MineRemove \/ MineApproval)
  /\ WF_vars(ReadNonce) /\ WF_vars(ReadAllowance("lp"))
  /\ WF_vars(NoticeCall) /\ WF_vars(NoticeApproval("lp"))

LSpec == Spec /\ Fairness

-----------------------------------------------------------------------------
(* Types, with what the hooks may hold, a backed LP position, and no call  *)
(* that moves nothing (of a deposit too small for the other side to be a   *)
(* unit, the card does ask).                                               *)
TypeOK ==
  /\ lp \in Nat /\ nonce \in Nat /\ \A x \in Asset : allowance[x] \in Nat
  /\ pool # NoPool => pool.totalSupply >= lp /\ pool.reserve0 > 0 /\ pool.reserve1 > 0
  /\ mode \in {"add", "remove"} /\ input \in Amounts /\ permitFallback \in BOOLEAN
  /\ \A i \in DOMAIN requests :
       CASE requests[i].kind = "add" -> requests[i].amountA > 0 /\ requests[i].amountB \in Nat
         [] requests[i].kind = "remove" -> requests[i].liquidity > 0
         [] OTHER -> requests[i].amount > 0
  /\ call \in 0 .. Len(requests) /\ \A x \in Asset : approval[x] \in 0 .. Len(requests)

(* The removal waits for a signature in the middle, while every query may  *)
(* refresh the page.  What it sends then is what was signed: the permit is *)
(* for the liquidity of the call.                                          *)
PermitMatchesTheCall ==
  \A i \in DOMAIN requests :
    LET r == requests[i]
    IN  r.kind = "remove" /\ r.signed # Unread => r.signed = r.liquidity

(* And the minimums are those of the position it was asked for: a removal  *)
(* that is mined pays, of either token, no less than the tolerated share   *)
(* of what the pool the page showed then would have paid for exactly this  *)
(* liquidity.                                                              *)
RemovalKeepsItsMinimum ==
  \A i \in DOMAIN requests :
    LET r == requests[i]
    IN  r.kind = "remove" /\ r.status = "mined" =>
          /\ r.gotA >= WithSlippage((r.liquidity * r.pool.reserve1) \div r.pool.totalSupply)
          /\ r.gotB >= WithSlippage((r.liquidity * r.pool.reserve0) \div r.pool.totalSupply)

(* A deposit made while the page showed the pool is taken at a ratio       *)
(* within the tolerance of the one shown, on both sides.                   *)
DepositKeepsTheShownRatio ==
  \A i \in DOMAIN requests :
    LET r == requests[i]
    IN  r.kind = "add" /\ r.status = "mined" /\ r.pool # NoPool =>
          /\ r.gotA \in WithSlippage(r.amountA) .. r.amountA
          /\ r.gotB \in WithSlippage(r.amountB) .. r.amountB

(* Whatever was typed, moved or read again while the wallet was open, what *)
(* is mined stays within the limits that were on show.                     *)
LimitsAreThoseShown ==
  TypeOK /\ RemovalKeepsItsMinimum /\ DepositKeepsTheShownRatio

(* While a call is in the wallet or the mempool another is asked for only  *)
(* after the user changed mode, or after a signature that was asked for    *)
(* before arrived, whose removal takes the place of the call the button    *)
(* waits for.                                                              *)
Outstanding(i) ==
  requests[i].kind \in {"add", "remove"} /\ requests[i].status \in {"asked", "sent"}
SignedSince(i, j) ==
  \E k \in i + 1 .. j : requests[k].kind = "remove" /\ requests[k].signed # Unread
OneCallInFlight ==
  \A i, j \in DOMAIN requests :
    i < j /\ Outstanding(i) /\ Outstanding(j) =>
      requests[i].turns # requests[j].turns \/ SignedSince(i, j)

(* A wallet that will not sign does not lock the liquidity in: a user who  *)
(* keeps pressing the button on show gets a removal asked of the wallet,   *)
(* through an approval if not through a permit.                            *)
RemovalAsked == \E i \in DOMAIN requests : requests[i].kind = "remove"
WantsOut == mode = "remove" /\ seenPool # NoPool /\ RemoveAmount > 0
RefusalStillRemoves ==
  []<>(RemovalAsked \/ ~WantsOut \/ Len(requests) = bounds.requests)

(* addLiquidity(): only the first deposit into an empty pool goes without  *)
(* a limit, every later deposit is protected.                              *)
LaterDepositsAreProtected ==
  [][\A i \in DOMAIN requests :
       /\ requests[i].kind = "add" /\ requests[i].status = "sent"
       /\ requests'[i].status = "mined" /\ pool # NoPool
       => requests[i].minA > 0 /\ requests[i].minB > 0]_vars
=============================================================================
