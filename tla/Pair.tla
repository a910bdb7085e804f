-------------------------------- MODULE Pair --------------------------------
(***************************************************************************)
(* One liquidity pool: core/ArkSwapPair.sol with the LP ledger it inherits *)
(* from core/ArkSwapERC20.sol and the protocol-fee switch it reads from    *)
(* core/ArkSwapFactory.sol.                                                *)
(*                                                                         *)
(* Every external function is one action, except swap.  swap hands control *)
(* to the receiver between paying out and checking what came back, so it   *)
(* is two actions, SwapBegin and SwapEnd, with the receiver's own calls    *)
(* (Deposit, MoveShares, SetFeeTo, and any pair function that does not     *)
(* check the lock) in between; Revert undoes all of it.  A swap without    *)
(* callback data is the case in which nothing happens in between.          *)
(*                                                                         *)
(* The two tokens are standard ERC20s that live outside the repository:    *)
(* all the pair sees of them is its own balance.  LP shares are tracked by *)
(* who can do something different with them: the burnt ones at address     *)
(* zero, the ones sent to the pair to be redeemed, and everybody else's.   *)
(* A call that reverts changes nothing, so a failed require is an action   *)
(* that is not enabled.                                                    *)
(***************************************************************************)
EXTENDS AmmMath

CONSTANTS
  MINIMUM_LIQUIDITY,   \* shares locked by the first mint (10^3)
  MaxUint112,          \* largest storable reserve (2^112 - 1)
  TokenSupply,         \* total supply of each token, outside the pair's control
  Q112,                \* the fixed-point one of UQ112x112 (2^112)
  UintModulus,         \* an accumulator wraps at 2^256
  TimeModulus,         \* a stored timestamp wraps at 2^32
  MaxNow,              \* the last block timestamp a behaviour reaches
  Deposits,            \* amounts the environment transfers to the pair
  Outputs,             \* amounts a swap asks for, per token
  ShareMoves,          \* amounts of LP shares a holder transfers
  NoFrame              \* no swap is waiting for its receiver

Token == {0, 1}
Other(t) == 1 - t
Holder == {"zero", "pair", "held"}
Receiver == {"pair", "outside"}

VARIABLES
  bal,                 \* balanceOf(pair) in each token
  reserve,             \* reserve0 and reserve1
  lp,                  \* LP shares per holder
  totalSupply,
  kLast,               \* product of the reserves after the last liquidity event
  feeOn,               \* factory.feeTo() is set
  unlocked,            \* the reentrancy lock
  frame,               \* the swap waiting for its receiver, or NoFrame
  now,                 \* block.timestamp
  blockTimestampLast,
  priceCumulative      \* price0CumulativeLast and price1CumulativeLast

vars == <<bal, reserve, lp, totalSupply, kLast, feeOn, unlocked, frame, now,
          blockTimestampLast, priceCumulative>>

Balance == {b \in [Token -> Nat] : \A t \in Token : b[t] <= TokenSupply[t]}
Saved == [bal : Balance, reserve : [Token -> 0 .. MaxUint112], lp : [Holder -> Nat],
          totalSupply : Nat, kLast : Nat, feeOn : BOOLEAN,
          blockTimestampLast : 0 .. TimeModulus - 1,
          priceCumulative : [Token -> 0 .. UintModulus - 1]]
Frame == [out : [Token -> Nat], pre : Saved]

ASSUME PairAssumption ==
  /\ MINIMUM_LIQUIDITY \in Nat \ {0}
  /\ MaxUint112 \in Nat \ {0}
  /\ TokenSupply \in [Token -> Nat]
  /\ Q112 \in Nat \ {0}
  /\ UintModulus \in Nat \ {0}
  /\ TimeModulus \in Nat \ {0}
  /\ MaxNow \in Nat
  /\ Deposits \subseteq Nat
  /\ Outputs \subseteq Nat
  /\ ShareMoves \subseteq Nat
  /\ NoFrame \notin Frame

TypeOK ==
  /\ bal \in Balance
  /\ reserve \in [Token -> 0 .. MaxUint112]
  /\ lp \in [Holder -> Nat]
  /\ totalSupply \in Nat
  /\ kLast \in Nat
  /\ feeOn \in BOOLEAN
  /\ unlocked \in BOOLEAN
  /\ frame \in Frame \cup {NoFrame}
  /\ now \in 0 .. MaxNow
  /\ blockTimestampLast \in 0 .. TimeModulus - 1
  /\ priceCumulative \in [Token -> 0 .. UintModulus - 1]

Init ==
  /\ bal = [t \in Token |-> 0]
  /\ reserve = [t \in Token |-> 0]
  /\ lp = [h \in Holder |-> 0]
  /\ totalSupply = 0
  /\ kLast = 0
  /\ feeOn = FALSE
  /\ unlocked = TRUE
  /\ frame = NoFrame
  /\ now = 0
  /\ blockTimestampLast = 0
  /\ priceCumulative = [t \in Token |-> 0]

-----------------------------------------------------------------------------
(* _update: what every function that moves reserves ends with.             *)

FitsAlways(b) == TRUE
FitsUint112(b) == \A t \in Token : b[t] <= MaxUint112

(* UQ112x112.encode(numerator).uqdiv(denominator)                          *)
Price(numerator, denominator) == (numerator * Q112) \div denominator

(* uint32 subtraction: the wrap-around is desired; and without it.         *)
TimeDifference == (now % TimeModulus) - blockTimestampLast
TimeElapsed == ((now % TimeModulus) - blockTimestampLast) % TimeModulus

Accumulated(r) ==
  IF TimeElapsed > 0 /\ r[0] # 0 /\ r[1] # 0
  THEN [t \in Token |->
          (priceCumulative[t] + Price(r[Other(t)], r[t]) * TimeElapsed) % UintModulus]
  ELSE priceCumulative

(* b: the balances that become the reserves; r: the reserves the caller    *)
(* read when it was entered.                                               *)
Update(b, r) ==
  /\ FitsUint112(b)
  /\ priceCumulative' = Accumulated(r)
  /\ blockTimestampLast' = now % TimeModulus
  /\ reserve' = b

-----------------------------------------------------------------------------
(* _mintFee: one sixth of the growth of sqrt(k), as new shares.            *)

FeeShares ==
  LET rootK == Sqrt(reserve[0] * reserve[1])
      rootKLast == Sqrt(kLast)
  IN  IF feeOn /\ kLast # 0 /\ rootK > rootKLast
      THEN (totalSupply * (rootK - rootKLast)) \div (rootK * 5 + rootKLast)
      ELSE 0

(* kLast once the liquidity event has updated the reserves to b; and the   *)
(* same computed from the reserves before the event.                       *)
NewKLastStale(b) == IF feeOn THEN reserve[0] * reserve[1] ELSE 0
NewKLast(b) == IF feeOn THEN b[0] * b[1] ELSE 0

-----------------------------------------------------------------------------
(* External functions.                                                     *)

Enter == unlocked

(* The first mint without its permanently locked shares.                   *)
NothingLocked == 0
LockedShares == MINIMUM_LIQUIDITY

(* Shares for the more generous of the two deposits.                       *)
SharesByLarger(amount, supply) ==
  LET s(t) == (amount[t] * supply) \div reserve[t]
  IN  IF s(0) < s(1) THEN s(1) ELSE s(0)

SharesFor(amount, supply) ==
  Min((amount[0] * supply) \div reserve[0], (amount[1] * supply) \div reserve[1])

(* mint(to)                                                                *)
Mint(to) ==
  LET amount == [t \in Token |-> bal[t] - reserve[t]]
      fee == FeeShares
      supply == totalSupply + fee
      first == supply = 0
      locked == IF first THEN LockedShares ELSE 0
      shares == IF first
                THEN Sqrt(amount[0] * amount[1]) - MINIMUM_LIQUIDITY
                ELSE SharesFor(amount, supply)
  IN  /\ Enter
      /\ \A t \in Token : reserve[t] <= bal[t] /\ (~first => reserve[t] # 0)
      /\ shares > 0
      /\ lp' = [h \in Holder |-> lp[h] + (IF h = "held" THEN fee ELSE 0)
                                      + (IF h = "zero" THEN locked ELSE 0)
                                      + (IF h = to THEN shares ELSE 0)]
      /\ totalSupply' = supply + locked + shares
      /\ Update(bal, reserve)
      /\ kLast' = NewKLast(bal)
      /\ UNCHANGED <<bal, feeOn, unlocked, frame, now>>

(* burn(to)                                                                *)
Burn(to) ==
  LET shares == lp["pair"]
      fee == FeeShares
      supply == totalSupply + fee
      amount == [t \in Token |-> (shares * bal[t]) \div supply]
      left == IF to = "pair" THEN bal ELSE [t \in Token |-> bal[t] - amount[t]]
  IN  /\ Enter
      /\ supply # 0
      /\ \A t \in Token : amount[t] > 0
      /\ lp' = [lp EXCEPT !["pair"] = 0, !["held"] = @ + fee]
      /\ totalSupply' = supply - shares
      /\ bal' = left
      /\ Update(left, reserve)
      /\ kLast' = NewKLast(left)
      /\ UNCHANGED <<feeOn, unlocked, frame, now>>

Snapshot ==
  [bal |-> bal, reserve |-> reserve, lp |-> lp, totalSupply |-> totalSupply, kLast |-> kLast,
   feeOn |-> feeOn, blockTimestampLast |-> blockTimestampLast, priceCumulative |-> priceCumulative]

(* swap(amount0Out, amount1Out, to, data), up to the call of arkSwapCall   *)
SwapBegin(out, to) ==
  /\ Enter
  /\ frame = NoFrame
  /\ \E t \in Token : out[t] > 0
  /\ \A t \in Token : out[t] < reserve[t] /\ out[t] <= bal[t]
  /\ bal' = IF to = "pair" THEN bal ELSE [t \in Token |-> bal[t] - out[t]]
  /\ unlocked' = FALSE
  /\ frame' = [out |-> out, pre |-> Snapshot]
  /\ UNCHANGED <<reserve, lp, totalSupply, kLast, feeOn, now, blockTimestampLast, priceCumulative>>

(* What the pair takes as paid in: its balance above reserve - out.        *)
AmountIn(t) ==
  LET kept == frame.pre.reserve[t] - frame.out[t]
  IN  IF bal[t] > kept THEN bal[t] - kept ELSE 0

(* The check with the fee left out of the adjusted balances, and on the    *)
(* sum instead of the product.                                             *)
SumHolds(b0, b1, in0, in1, r0, r1) == b0 + b1 >= r0 + r1
InvariantHolds(b0, b1, in0, in1, r0, r1) == KHolds(b0, b1, in0, in1, r0, r1)

(* swap, from the return of arkSwapCall                                    *)
SwapEnd ==
  /\ frame # NoFrame
  /\ \E t \in Token : AmountIn(t) > 0
  /\ LET r == frame.pre.reserve
     IN  /\ InvariantHolds(bal[0], bal[1], AmountIn(0), AmountIn(1), r[0], r[1])
         /\ Update(bal, r)
  /\ unlocked' = TRUE
  /\ frame' = NoFrame
  /\ UNCHANGED <<bal, lp, totalSupply, kLast, feeOn, now>>

(* The receiver, or one of the checks of SwapEnd, reverts the transaction. *)
Revert ==
  /\ frame # NoFrame
  /\ bal' = frame.pre.bal
  /\ reserve' = frame.pre.reserve
  /\ lp' = frame.pre.lp
  /\ totalSupply' = frame.pre.totalSupply
  /\ kLast' = frame.pre.kLast
  /\ feeOn' = frame.pre.feeOn
  /\ blockTimestampLast' = frame.pre.blockTimestampLast
  /\ priceCumulative' = frame.pre.priceCumulative
  /\ unlocked' = TRUE
  /\ frame' = NoFrame
  /\ UNCHANGED now

(* skim(to), and the same sending away the whole balance.                  *)
WholeBalance(t) == bal[t]
Excess(t) == bal[t] - reserve[t]

Skim(to) ==
  /\ Enter
  /\ \A t \in Token : reserve[t] <= bal[t]
  /\ bal' = IF to = "pair" THEN bal ELSE [t \in Token |-> bal[t] - Excess(t)]
  /\ UNCHANGED <<reserve, lp, totalSupply, kLast, feeOn, unlocked, frame, now,
                 blockTimestampLast, priceCumulative>>

(* sync()                                                                  *)
Sync ==
  /\ Enter
  /\ Update(bal, reserve)
  /\ UNCHANGED <<bal, lp, totalSupply, kLast, feeOn, unlocked, frame, now>>

-----------------------------------------------------------------------------
(* What others do, between transactions and inside a swap's callback.      *)

(* Anyone transfers tokens to the pair.                                    *)
Deposit(t, amount) ==
  /\ bal[t] + amount <= TokenSupply[t]
  /\ bal' = [bal EXCEPT ![t] = @ + amount]
  /\ UNCHANGED <<reserve, lp, totalSupply, kLast, feeOn, unlocked, frame, now,
                 blockTimestampLast, priceCumulative>>

(* A holder transfers LP shares to the pair, or burns them at address zero. *)
MoveShares(to, shares) ==
  /\ shares <= lp["held"]
  /\ lp' = [lp EXCEPT !["held"] = @ - shares, ![to] = @ + shares]
  /\ UNCHANGED <<bal, reserve, totalSupply, kLast, feeOn, unlocked, frame, now,
                 blockTimestampLast, priceCumulative>>

(* The factory's feeToSetter switches the protocol fee.                    *)
SetFeeTo ==
  /\ feeOn' = ~feeOn
  /\ UNCHANGED <<bal, reserve, lp, totalSupply, kLast, unlocked, frame, now,
                 blockTimestampLast, priceCumulative>>

(* A later block: never in the middle of a transaction.                    *)
Tick ==
  /\ frame = NoFrame
  /\ now < MaxNow
  /\ now' = now + 1
  /\ UNCHANGED <<bal, reserve, lp, totalSupply, kLast, feeOn, unlocked, frame,
                 blockTimestampLast, priceCumulative>>

(* The calls that record new reserves, and the ones that do not.           *)
Recording ==
  \/ \E to \in Holder : Mint(to)
  \/ \E to \in Receiver : Burn(to)
  \/ SwapEnd
  \/ Sync

NotRecording ==
  \/ \E out \in [Token -> Outputs], to \in Receiver : SwapBegin(out, to)
  \/ Revert
  \/ \E to \in Receiver : Skim(to)
  \/ \E t \in Token, amount \in Deposits : Deposit(t, amount)
  \/ \E to \in {"pair", "zero"}, shares \in ShareMoves : MoveShares(to, shares)
  \/ SetFeeTo

Next == Recording \/ NotRecording \/ Tick

Spec == Init /\ [][Next]_vars

-----------------------------------------------------------------------------
(* The reserves the pair has recorded are tokens it really holds (the      *)
(* repository's invariant A), and while a swap waits for its receiver the  *)
(* pair is short of them by no more than what it has just paid out.        *)
ReservesBacked ==
  \A t \in Token :
    reserve[t] <= bal[t] + (IF frame = NoFrame THEN 0 ELSE frame.out[t])

(* Reentrancy: the lock is held exactly while a swap waits for its         *)
(* receiver, so whatever the receiver calls meanwhile, the reserves and    *)
(* the supply the swap will be checked against are those it began with,    *)
(* and the state a revert restores was itself backed and locked.           *)
FrameInv ==
  /\ frame = NoFrame => unlocked
  /\ frame # NoFrame =>
       /\ ~unlocked
       /\ frame.pre.reserve = reserve
       /\ frame.pre.totalSupply = totalSupply
       /\ \A t \in Token : frame.out[t] < reserve[t]
       /\ \A t \in Token : reserve[t] <= frame.pre.bal[t]
       /\ totalSupply = frame.pre.lp["zero"] + frame.pre.lp["pair"] + frame.pre.lp["held"]
       /\ totalSupply > 0 => frame.pre.lp["zero"] >= MINIMUM_LIQUIDITY

(* A pool that has issued shares can never be drained or left without      *)
(* shares: the minimum liquidity stays at address zero and both reserves   *)
(* stay positive (invariant B), so no later mint divides by zero or counts *)
(* as a first deposit; and the supply is exactly what the holders have.    *)
LiquidityLocked ==
  /\ totalSupply = lp["zero"] + lp["pair"] + lp["held"]
  /\ totalSupply > 0 =>
       /\ lp["zero"] >= MINIMUM_LIQUIDITY
       /\ \A t \in Token : reserve[t] > 0

(* The product of the reserves that one share is measured against: the     *)
(* current one, but with the protocol fee on only what the root of kLast   *)
(* guarantees, because _mintFee takes its sixth of the growth since then.  *)
Principal ==
  IF feeOn /\ kLast # 0
  THEN Min(Sqrt(kLast) * Sqrt(kLast), reserve[0] * reserve[1])
  ELSE reserve[0] * reserve[1]

(* No step makes a share worth less (invariants C and D): k per squared    *)
(* supply never falls, rounding included, whatever is deposited, donated,  *)
(* borrowed, skimmed or redeemed and in which order.  With the protocol    *)
(* fee on, the fee may take growth but never principal.                    *)
ShareValueNeverFalls ==
  [][totalSupply > 0 =>
       reserve'[0] * reserve'[1] * totalSupply * totalSupply
         >= Principal * totalSupply' * totalSupply']_vars

(* The protocol takes its sixth of any growth only once: right after a     *)
(* liquidity event, whoever made it and however the fee was switched       *)
(* before, another one would mint it nothing.                              *)
GrowthChargedOnce == [][totalSupply' # totalSupply => FeeShares' = 0]_vars
=============================================================================
