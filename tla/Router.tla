------------------------------- MODULE Router -------------------------------
(***************************************************************************)
(* The router in use: users call its functions and the pairs', each call   *)
(* being one transaction that either happens as a whole or not at all.     *)
(* Nothing runs inside a transaction but the router and the pairs, except  *)
(* the receiver of native KASH, which gets control when all that is left   *)
(* of the call is to return; what it does is a later transaction here.     *)
(***************************************************************************)
EXTENDS RouterCalls

CONSTANTS
  Genesis,             \* token balances and native KASH of the users at the start
  Liquidity,           \* token pairs <<a, b>> that users add and remove
  AddAmounts,          \* desired amounts and msg.value of additions
  AddMinimums,
  RemoveShares,
  RemoveMinimums,
  Paths,
  SwapAmounts,         \* amounts in, amounts out, msg.value
  SwapLimits,          \* amountOutMin and amountInMax
  Recipients,          \* what users pass as `to'
  Strays,              \* where tokens may be sent directly
  StrayAmounts,
  Approvals,           \* values of approve and permit
  Deadlines,
  MaxNow,
  MaxNonce

VARIABLES
  world,
  signed,              \* permit messages the owners have signed
  now                  \* block.timestamp

vars == <<world, signed, now>>

Message == [pool : Pool, owner : User, value : Approvals, nonce : 0 .. MaxNonce - 1,
            deadline : Deadlines]

ASSUME RouterAssumption ==
  /\ Genesis \in [tok : [Token -> [User -> Nat]], kash : [User -> Nat]]
  /\ \A u \in User : Genesis.tok[WKASH][u] = 0
  /\ \A ab \in Liquidity : ab \in Token \X Token /\ ab[1] # ab[2]
  /\ \A path \in Paths :
       /\ path \in Seq(Token) /\ Len(path) >= 2
       /\ \A i \in 1 .. Len(path) - 1 : path[i] # path[i + 1]
  /\ Recipients \subseteq User
  /\ Strays \subseteq Account
  /\ AddAmounts \cup AddMinimums \cup RemoveShares \cup RemoveMinimums \subseteq Nat
  /\ SwapAmounts \cup SwapLimits \cup StrayAmounts \cup Approvals \cup Deadlines \subseteq Nat
  /\ MaxNow \in Nat /\ MaxNonce \in Nat

TypeOK ==
  /\ world.tok \in [Token -> [Account -> Nat]]
  /\ world.kash \in [Account -> Nat]
  /\ world.pairs \subseteq Pool
  /\ world.reserve \in [Pool -> [Token -> Nat]]
  /\ world.lp \in [Pool -> [Account -> Nat]]
  /\ world.supply \in [Pool -> Nat]
  /\ world.allowance \in [Pool -> [User -> Nat]]
  /\ world.nonces \in [Pool -> [User -> 0 .. MaxNonce]]
  /\ signed \subseteq Message
  /\ now \in 0 .. MaxNow

Init ==
  /\ world = [tok |-> [t \in Token |->
                        [a \in Account |-> IF a \in User THEN Genesis.tok[t][a] ELSE 0]],
              kash |-> [a \in Account |-> IF a \in User THEN Genesis.kash[a] ELSE 0],
              pairs |-> {},
              reserve |-> [p \in Pool |-> [t \in Token |-> 0]],
              lp |-> [p \in Pool |-> [a \in Account |-> 0]],
              supply |-> [p \in Pool |-> 0],
              allowance |-> [p \in Pool |-> [u \in User |-> 0]],
              nonces |-> [p \in Pool |-> [u \in User |-> 0]]]
  /\ signed = {}
  /\ now = 0

-----------------------------------------------------------------------------
(* modifier ensure                                                         *)
InTime(deadline) == deadline >= now

Happens(w) ==
  /\ UNCHANGED <<signed, now>>
  /\ w # Failed
  /\ world' = w

AddLiquidityCall(u) ==
  \E d \in Deadlines, ab \in Liquidity, x, y \in AddAmounts, minX, minY \in AddMinimums,
     to \in Recipients :
    /\ InTime(d)
    /\ \/ Happens(AddLiquidity(world, u, ab[1], ab[2], x, y, minX, minY, to))
       \/ /\ ab[2] = WKASH
          /\ Happens(AddLiquidityETH(world, u, ab[1], x, y, minX, minY, to))

(* The three removals, from the world in which the caller's permit, if     *)
(* there is one, has been accepted.                                        *)
Removal(w, u, a, b, shares, minA, minB, to) ==
  \/ Happens(Then(w, LAMBDA v : RemoveLiquidity(v, u, a, b, shares, minA, minB, to)))
  \/ /\ b = WKASH
     /\ Happens(Then(w, LAMBDA v : RemoveLiquidityETH(v, u, a, shares, minA, minB, to)))
  \/ /\ b = WKASH
     /\ Happens(Then(w, LAMBDA v :
                  RemoveLiquidityETHSupportingFee(v, u, a, shares, minA, minB, to)))

RemoveLiquidityCall(u) ==
  \E d \in Deadlines, ab \in Liquidity, shares \in RemoveShares, minA, minB \in RemoveMinimums,
     to \in Recipients :
    /\ InTime(d)
    /\ Removal(world, u, ab[1], ab[2], shares, minA, minB, to)

(* ...WithPermit: the message is the caller's own, for the shares removed  *)
(* or with approveMax for Unlimited, and its deadline is the call's.       *)
Fits(m, u, p, shares) == m.owner = u /\ m.pool = p /\ m.value \in {shares, Unlimited}

PermitRemoval(u, m) ==
  \E ab \in Liquidity, shares \in RemoveShares, minA, minB \in RemoveMinimums, to \in Recipients :
    /\ Fits(m, u, PairFor(ab[1], ab[2]), shares)
    /\ InTime(m.deadline)
    /\ Removal(Permit(world, m, now), u, ab[1], ab[2], shares, minA, minB, to)

PermitRemovalCall(u) == \E m \in signed : PermitRemoval(u, m)

SwapCall(u) ==
  \E d \in Deadlines, x \in SwapAmounts, limit \in SwapLimits, path \in Paths, to \in Recipients :
    /\ InTime(d)
    /\ \/ Happens(SwapExactTokensForTokens(world, u, x, limit, path, to))
       \/ Happens(SwapTokensForExactTokens(world, u, x, limit, path, to))
       \/ Happens(SwapExactETHForTokens(world, u, x, limit, path, to))
       \/ Happens(SwapTokensForExactETH(world, u, x, limit, path, to))
       \/ Happens(SwapExactTokensForETH(world, u, x, limit, path, to))
       \/ Happens(SwapETHForExactTokens(world, u, x, limit, path, to))
       \/ Happens(SwapExactTokensForTokensSupportingFee(world, u, x, limit, path, to))
       \/ Happens(SwapExactETHForTokensSupportingFee(world, u, x, limit, path, to))
       \/ Happens(SwapExactTokensForETHSupportingFee(world, u, x, limit, path, to))

-----------------------------------------------------------------------------
(* What users do without the router.                                       *)

(* A token sent straight to a pair, or to the router by mistake            *)
Stray(u) ==
  \E t \in Token, to \in Strays, amount \in StrayAmounts :
    Happens(Transfer(world, t, u, to, amount))

(* pair.approve(router, value)                                             *)
Approve(u) ==
  \E p \in world.pairs, value \in Approvals : Happens(ApproveRouter(world, p, u, value))

(* An owner signs a message for her next nonce, off the chain.             *)
Sign(u) ==
  \E p \in world.pairs, value \in Approvals, d \in Deadlines :
    /\ world.nonces[p][u] < MaxNonce
    /\ signed' = signed \cup {[pool |-> p, owner |-> u, value |-> value,
                               nonce |-> world.nonces[p][u], deadline |-> d]}
    /\ UNCHANGED <<world, now>>

(* Anyone who has seen a message may submit it to pair.permit.             *)
SubmitPermit(m) == Happens(Permit(world, m, now))

Sync == \E p \in Pool : Happens(PairSync(world, p))

Tick ==
  /\ now < MaxNow
  /\ now' = now + 1
  /\ UNCHANGED <<world, signed>>

Next ==
  \/ \E u \in User :
       AddLiquidityCall(u) \/ RemoveLiquidityCall(u) \/ PermitRemovalCall(u) \/ SwapCall(u)
  \/ \E u \in User : Stray(u) \/ Approve(u) \/ Sign(u)
  \/ \E m \in signed : SubmitPermit(m)
  \/ Sync
  \/ Tick

Spec == Init /\ [][Next]_vars

-----------------------------------------------------------------------------
(* The holdings of an account as seen before and after a call of the       *)
(* current world.                                                          *)
Gains(v, t, a) == v.tok[t][a] - world.tok[t][a]
GainsKash(v, a) == v.kash[a] - world.kash[a]

(* Whatever happened to the pools before a user's call is included, and    *)
(* however many pools it crosses, a swap that succeeds delivers at least   *)
(* amountOutMin to the recipient, or exactly amountOut for at most         *)
(* amountInMax or msg.value, the rest of which comes back; the three       *)
(* functions for taxed tokens deliver it even of a taxed one.  Who trades  *)
(* a token for itself is paid in what she paid with.                       *)
SwapLimitsHonoured ==
  \A u \in User, x \in SwapAmounts, limit \in SwapLimits, path \in Paths, to \in Recipients :
    LET in == path[1]
        out == Seqs!Last(path)
        roundTrip == in = out /\ to = u
        Honours(v, Bound(_)) == v # Failed => Bound(v)
        AtLeast(v) == Gains(v, out, to) >= limit
        AtLeastTraded(v) == IF roundTrip THEN Gains(v, out, u) + x >= limit ELSE AtLeast(v)
        AtLeastKash(v) == GainsKash(v, to) >= limit
        Spent(v) == -Gains(v, in, u) <= limit
        Exactly(v) == IF roundTrip THEN Gains(v, out, u) >= x - limit
                                   ELSE Gains(v, out, to) = x /\ Spent(v)
    IN  /\ Honours(SwapExactTokensForTokensSupportingFee(world, u, x, limit, path, to),
                   AtLeastTraded)
        /\ Honours(SwapExactETHForTokensSupportingFee(world, u, x, limit, path, to), AtLeast)
        /\ Honours(SwapExactTokensForETHSupportingFee(world, u, x, limit, path, to), AtLeastKash)
        /\ out \notin Taxed =>
             /\ Honours(SwapExactTokensForTokens(world, u, x, limit, path, to), AtLeastTraded)
             /\ Honours(SwapExactETHForTokens(world, u, x, limit, path, to), AtLeast)
             /\ Honours(SwapExactTokensForETH(world, u, x, limit, path, to), AtLeastKash)
             /\ Honours(SwapTokensForExactTokens(world, u, x, limit, path, to), Exactly)
             /\ Honours(SwapTokensForExactETH(world, u, x, limit, path, to),
                        LAMBDA v : GainsKash(v, to) = x /\ Spent(v))
             /\ Honours(SwapETHForExactTokens(world, u, x, limit, path, to),
                        LAMBDA v : Gains(v, out, to) = x /\ -GainsKash(v, u) <= limit)

(* The review's claim for the standard functions: with a taxed token they  *)
(* revert rather than deliver less than the caller's minimum               *)
(* (docs/SECURITY-REVIEW.md, standing warnings).                           *)
StandardPathNeverShortchanges ==
  \A u \in User, x \in SwapAmounts, limit \in SwapLimits, path \in Paths, to \in Recipients :
    LET v == SwapExactETHForTokens(world, u, x, limit, path, to)
    IN  v # Failed => Gains(v, Seqs!Last(path), to) >= limit

(* A quote is good: a swap whose quote is within the caller's limit, and   *)
(* that the caller can pay, passes the check of every pair on the path, so *)
(* long as no pool is crossed twice and no token is taxed.                 *)
QuotedSwapSucceeds ==
  \A u \in User, x \in SwapAmounts, path \in Paths, to \in Recipients :
    LET outs == GetAmountsOut(world, x, path)
        ins == GetAmountsIn(world, x, path)
        pool(i) == PairFor(path[i], path[i + 1])
        straight == /\ \A i, j \in 1 .. Len(path) - 1 : i # j => pool(i) # pool(j)
                    /\ \A i \in 1 .. Len(path) : path[i] \notin Taxed
        Can(amount) == amount > 0 /\ world.tok[path[1]][u] >= amount
    IN  straight =>
          /\ Seqs!Last(outs) > 0 /\ Can(x) =>
               SwapExactTokensForTokens(world, u, x, Seqs!Last(outs), path, to) # Failed
          /\ Can(ins[1]) =>
               SwapTokensForExactTokens(world, u, x, ins[1], path, to) # Failed
          /\ path[1] = WKASH /\ Seqs!Last(outs) > 0 /\ world.kash[u] >= x =>
               SwapExactETHForTokens(world, u, x, Seqs!Last(outs), path, to) # Failed
          /\ path[1] = WKASH /\ ins[1] > 0 /\ world.kash[u] >= ins[1] =>
               SwapETHForExactTokens(world, u, x, ins[1], path, to) # Failed

(* A deposit never takes more than the amounts desired nor, of a pool that *)
(* has a price, less than the minimums; native KASH beyond it comes back.  *)
(* (Where the minimum is above the amount desired the desired amount is    *)
(* taken: the code compares the minimum with the other side's quote only.) *)
DepositLimitsHonoured ==
  \A u \in User, ab \in Liquidity, x, y \in AddAmounts, minX, minY \in AddMinimums,
     to \in Recipients :
    LET v == AddLiquidity(world, u, ab[1], ab[2], x, y, minX, minY, to)
        w == AddLiquidityETH(world, u, ab[1], x, y, minX, minY, to)
        priced == world.supply[PairFor(ab[1], ab[2])] > 0
        Within(spent, min, max) == spent <= max /\ (priced => spent >= Min(min, max))
    IN  /\ v # Failed =>
             /\ Within(-Gains(v, ab[1], u), minX, x)
             /\ Within(-Gains(v, ab[2], u), minY, y)
        /\ ab[2] = WKASH /\ w # Failed =>
             /\ Within(-Gains(w, ab[1], u), minX, x)
             /\ Within(-GainsKash(w, u), minY, y)

(* A holder can always leave: whoever has shares worth at least one unit   *)
(* of both tokens can redeem them through the router, as tokens and, from  *)
(* a pool of wrapped KASH, as native KASH, whatever was done to the pool   *)
(* and to the wrapper before.  A taxed token takes the function for it.    *)
HoldersCanLeave ==
  \A u \in User, ab \in Liquidity, to \in Recipients :
    LET p == PairFor(ab[1], ab[2])
        shares == world.lp[p][u]
        w == ApproveRouter(world, p, u, shares)
        worth(t) == (shares * Balance(world, p, t)) \div world.supply[p]
    IN  shares > 0 /\ (\A t \in p : worth(t) > 0) =>
          /\ RemoveLiquidity(w, u, ab[1], ab[2], shares, worth(ab[1]), worth(ab[2]), to) # Failed
          /\ ab[2] = WKASH =>
               /\ RemoveLiquidityETHSupportingFee(w, u, ab[1], shares, worth(ab[1]),
                                                  worth(WKASH), to) # Failed
               /\ ab[1] \notin Taxed =>
                    LET v == RemoveLiquidityETH(w, u, ab[1], shares, worth(ab[1]),
                                                worth(WKASH), to)
                    IN  /\ v # Failed
                        /\ Gains(v, ab[1], to) >= worth(ab[1])
                        /\ GainsKash(v, to) >= worth(WKASH)

(* The wrapper is backed (invariant H): it holds as much native KASH as    *)
(* there is wrapped KASH, so unwrapping never fails for want of it.        *)
WkashBacked ==
  world.kash[WKASH] = Total(world.tok[WKASH])

(* The router is a pass-through (invariant G): no call ever leaves it with *)
(* more of a token, of native KASH or of LP shares than it had, and what   *)
(* someone sent it by mistake is the only thing it can hold.               *)
RouterGainsNothing ==
  [][/\ world'.kash[Router] = 0
     /\ \A p \in Pool : world'.lp[p][Router] = 0
     /\ \A t \in Token : world'.tok[t][Router] > world.tok[t][Router] =>
          /\ \E u \in User : world'.tok[t][u] < world.tok[t][u]
          /\ \A p \in Pool : world'.tok[t][p] = world.tok[t][p]]_vars

(* No call makes a share of any pool worth less (invariant C), along whole *)
(* paths and whatever taxed tokens deliver: the product of the reserves    *)
(* per squared supply never falls.                                         *)
ShareValueKept ==
  [][\A a, b \in Token :
       LET p == PairFor(a, b)
           K(w) == w.reserve[p][a] * w.reserve[p][b]
       IN  a # b /\ world.supply[p] > 0 =>
             K(world') * world.supply[p] * world.supply[p]
               >= K(world) * world'.supply[p] * world'.supply[p]]_vars

(* A step in which a pair accepts a signed message.                        *)
Accepts(m) == SubmitPermit(m) \/ \E u \in User : PermitRemoval(u, m)

(* A signature is worth one approval: once accepted, from anyone or within *)
(* a removal, superseded or expired, no later sequence of calls makes it   *)
(* live again.                                                             *)
SignaturesDie ==
  [][\A m \in signed :
       PermitLive(world', m, now') => PermitLive(world, m, now) /\ ~Accepts(m)]_vars
=============================================================================
