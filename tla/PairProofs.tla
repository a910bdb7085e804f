----------------------------- MODULE PairProofs -----------------------------
(***************************************************************************)
(* The safety of the pool for every token supply, every reserve bound and  *)
(* every amount: its types, its backing and its locked minimum, what a     *)
(* share is worth, the growth the protocol fee takes, and the price        *)
(* accumulators with the clock of PairOracle.                              *)
(***************************************************************************)
EXTENDS PairOracle, AmmMathProofs

(* The inductive invariant.                                                *)
IInv == TypeOK /\ FrameInv /\ ReservesBacked /\ LiquidityLocked

(* The protocol's cut is a number of shares, and none before the first.    *)
LEMMA FeeSharesType ==
  ASSUME TypeOK
  PROVE  FeeShares \in Nat /\ (totalSupply = 0 => FeeShares = 0)
<1> DEFINE rootK == Sqrt(reserve[0] * reserve[1])
           rootKLast == Sqrt(kLast)
           num == totalSupply * (rootK - rootKLast)
           den == rootK * 5 + rootKLast
<1>1. totalSupply \in Nat /\ kLast \in Nat /\ reserve[0] \in Nat /\ reserve[1] \in Nat
  BY DEF TypeOK, Token
<1>2. reserve[0] * reserve[1] \in Nat
  BY <1>1, SMT
<1>3. rootK \in Nat /\ rootKLast \in Nat
  BY <1>1, <1>2, SqrtType
<1> HIDE DEF rootK, rootKLast
<1>4. CASE feeOn /\ kLast # 0 /\ rootK > rootKLast
  <2>1. num \in Nat /\ den \in Nat /\ den > 0 /\ (totalSupply = 0 => num = 0)
    BY <1>1, <1>3, <1>4, SMT
  <2>2. num \div den \in Nat /\ (num \div den) * den <= num
    BY <2>1, DivBounds
  <2>3. num = 0 => num \div den = 0
    BY <2>1, <2>2, SMT
  <2> QED BY <1>4, <2>1, <2>2, <2>3 DEF FeeShares, rootK, rootKLast
<1>5. CASE ~(feeOn /\ kLast # 0 /\ rootK > rootKLast)
  BY <1>5 DEF FeeShares, rootK, rootKLast
<1> QED BY <1>4, <1>5

(* The accumulators stay machine integers.                                 *)
LEMMA AccumulatedType ==
  ASSUME TypeOK, NEW r \in [Token -> Nat]
  PROVE  Accumulated(r) \in [Token -> 0 .. UintModulus - 1]
<1> USE PairAssumption
<1>1. \A n \in Int : n % UintModulus \in 0 .. UintModulus - 1
  BY SMT
<1>2. TimeElapsed \in Int
  <2>1. now \in Int /\ blockTimestampLast \in Int
    BY DEF TypeOK
  <2> QED BY <2>1, SMT DEF TimeElapsed
<1>3. ASSUME NEW t \in Token, r[0] # 0, r[1] # 0
      PROVE  (priceCumulative[t] + Price(r[Other(t)], r[t]) * TimeElapsed) \in Int
  <2>1. r[Other(t)] \in Nat /\ r[t] \in Nat /\ r[t] > 0
    BY <1>3 DEF Token, Other
  <2>2. r[Other(t)] * Q112 \in Nat
    BY <2>1, SMT
  <2>3. Price(r[Other(t)], r[t]) \in Int
    BY <2>1, <2>2, DivBounds DEF Price
  <2>4. priceCumulative[t] \in Int
    BY DEF TypeOK
  <2> QED BY <1>2, <2>3, <2>4, SMT
<1> QED BY <1>1, <1>3 DEF Accumulated, TypeOK

LEMMA InitIInv == Init => IInv
<1> SUFFICES ASSUME Init PROVE IInv
  OBVIOUS
<1> USE PairAssumption DEF Init
<1>1. TypeOK
  <2>1. bal \in Balance
    BY DEF Balance
  <2>2. 0 \in 0 .. MaxUint112 /\ 0 \in 0 .. TimeModulus - 1 /\ 0 \in 0 .. UintModulus - 1
        /\ 0 \in 0 .. MaxNow
    BY SMT
  <2> QED BY <2>1, <2>2 DEF TypeOK
<1>2. FrameInv /\ ReservesBacked /\ LiquidityLocked
  BY DEF FrameInv, ReservesBacked, LiquidityLocked, Token, Holder
<1> QED BY <1>1, <1>2 DEF IInv

(* What recording the balances b as the new reserves establishes.          *)
LEMMA UpdateType ==
  ASSUME TypeOK, NEW b \in [Token -> Nat], Update(b, reserve)
  PROVE  /\ reserve' \in [Token -> 0 .. MaxUint112]
         /\ reserve' = b
         /\ blockTimestampLast' \in 0 .. TimeModulus - 1
         /\ priceCumulative' \in [Token -> 0 .. UintModulus - 1]
<1> USE PairAssumption
<1>1. reserve \in [Token -> Nat]
  BY SMT DEF TypeOK
<1>2. priceCumulative' \in [Token -> 0 .. UintModulus - 1]
  BY <1>1, AccumulatedType DEF Update
<1>3. reserve' \in [Token -> 0 .. MaxUint112]
  BY SMT DEF Update, FitsUint112
<1>4. blockTimestampLast' \in 0 .. TimeModulus - 1
  <2>1. now \in Int
    BY DEF TypeOK
  <2> QED BY <2>1, SMT DEF Update
<1> QED BY <1>2, <1>3, <1>4 DEF Update

(* The bookkeeping of a liquidity event's kLast.                           *)
LEMMA NewKLastType ==
  ASSUME NEW b \in [Token -> Nat]
  PROVE  NewKLast(b) \in Nat
<1>1. b[0] \in Nat /\ b[1] \in Nat
  BY DEF Token
<1>2. b[0] * b[1] \in Nat
  BY <1>1, SMT
<1> QED BY <1>2 DEF NewKLast

(* Outside a swap the frame imposes nothing, and stays empty.              *)
LEMMA UnlockedFrame ==
  ASSUME FrameInv, unlocked
  PROVE  frame = NoFrame
BY DEF FrameInv

LEMMA MintIInv ==
  ASSUME IInv, NEW to \in Holder, Mint(to)
  PROVE  IInv'
<1> USE PairAssumption
<1> DEFINE amount == [t \in Token |-> bal[t] - reserve[t]]
           fee == FeeShares
           supply == totalSupply + fee
           first == supply = 0
           locked == IF first THEN LockedShares ELSE 0
           shares == IF first
                     THEN Sqrt(amount[0] * amount[1]) - MINIMUM_LIQUIDITY
                     ELSE SharesFor(amount, supply)
<1>1. /\ unlocked
      /\ \A t \in Token : reserve[t] <= bal[t] /\ (~first => reserve[t] # 0)
      /\ shares > 0
      /\ lp' = [h \in Holder |-> lp[h] + (IF h = "held" THEN fee ELSE 0)
                                      + (IF h = "zero" THEN locked ELSE 0)
                                      + (IF h = to THEN shares ELSE 0)]
      /\ totalSupply' = supply + locked + shares
      /\ Update(bal, reserve)
      /\ kLast' = NewKLast(bal)
      /\ bal' = bal /\ feeOn' = feeOn /\ unlocked' = unlocked /\ frame' = frame /\ now' = now
  BY DEF Mint, Enter
<1>2. TypeOK /\ FrameInv /\ LiquidityLocked
  BY DEF IInv
<1>3. fee \in Nat /\ totalSupply \in Nat /\ (totalSupply = 0 => fee = 0)
  BY <1>2, FeeSharesType DEF TypeOK
<1>4. locked \in Nat /\ (first => locked = MINIMUM_LIQUIDITY)
  BY DEF LockedShares
<1>5. /\ bal \in [Token -> Nat] /\ reserve \in [Token -> Nat]
      /\ bal[0] \in Nat /\ bal[1] \in Nat /\ reserve[0] \in Nat /\ reserve[1] \in Nat
  BY <1>2, SMT DEF TypeOK, Balance, Token
<1>6. amount[0] = bal[0] - reserve[0] /\ amount[1] = bal[1] - reserve[1]
      /\ amount[0] \in Nat /\ amount[1] \in Nat
  BY <1>1, <1>5, SMT DEF Token
<1> HIDE DEF amount, fee, supply
<1>7. shares \in Nat
  <2>1. CASE first
    <3>1. amount[0] * amount[1] \in Nat
      BY <1>6, SMT
    <3>2. Sqrt(amount[0] * amount[1]) \in Nat
      BY <3>1, SqrtType
    <3> QED BY <1>1, <2>1, <3>2, SMT
  <2>2. CASE ~first
    <3>1. reserve[0] > 0 /\ reserve[1] > 0
      BY <1>1, <1>5, <2>2 DEF Token
    <3>2. supply \in Nat
      BY <1>3, SMT DEF supply
    <3>3. amount[0] * supply \in Nat /\ amount[1] * supply \in Nat
      BY <1>6, <3>2, SMT
    <3>4. (amount[0] * supply) \div reserve[0] \in Nat /\ (amount[1] * supply) \div reserve[1] \in Nat
      BY <1>5, <3>1, <3>3, DivBounds
    <3> QED BY <2>2, <3>4 DEF SharesFor, Min
  <2> QED BY <2>1, <2>2
<1> HIDE DEF shares, locked
<1>8. /\ lp' \in [Holder -> Nat]
      /\ lp'["zero"] >= lp["zero"] + locked
      /\ lp'["zero"] + lp'["pair"] + lp'["held"]
           = lp["zero"] + lp["pair"] + lp["held"] + fee + locked + shares
  <2>1. lp \in [Holder -> Nat]
    BY <1>2 DEF TypeOK
  <2> QED BY <2>1, <1>1, <1>3, <1>4, <1>7, SMT DEF Holder
<1>9. totalSupply' \in Nat
  BY <1>1, <1>3, <1>4, <1>7, SMT DEF supply
<1>10. frame = NoFrame
  BY <1>1, <1>2, UnlockedFrame
<1>11. /\ reserve' \in [Token -> 0 .. MaxUint112] /\ reserve' = bal
       /\ blockTimestampLast' \in 0 .. TimeModulus - 1
       /\ priceCumulative' \in [Token -> 0 .. UintModulus - 1]
  BY <1>1, <1>2, <1>5, UpdateType
<1>12. TypeOK'
  <2>1. kLast' \in Nat
    BY <1>1, <1>5, NewKLastType
  <2> QED BY <2>1, <1>1, <1>2, <1>8, <1>9, <1>11 DEF TypeOK
<1>13. FrameInv' /\ ReservesBacked'
  BY <1>1, <1>2, <1>5, <1>10, <1>11, SMT DEF FrameInv, ReservesBacked
<1>14. LiquidityLocked'
  <2>1. totalSupply' = lp'["zero"] + lp'["pair"] + lp'["held"]
    BY <1>1, <1>2, <1>3, <1>4, <1>7, <1>8, SMT DEF LiquidityLocked, supply, TypeOK, Holder
  <2>2. lp'["zero"] >= MINIMUM_LIQUIDITY
    <3>1. CASE first
      BY <3>1, <1>2, <1>4, <1>8, SMT DEF TypeOK, Holder
    <3>2. CASE ~first
      <4>1. totalSupply > 0
        BY <3>2, <1>3, SMT DEF supply
      <4> QED BY <4>1, <1>2, <1>4, <1>8, SMT DEF TypeOK, Holder, LiquidityLocked
    <3> QED BY <3>1, <3>2
  <2>3. \A t \in Token : bal[t] > 0
    <3>1. CASE first
      <4>1. amount[0] * amount[1] \in Nat
        BY <1>6, SMT
      <4>2. Sqrt(amount[0] * amount[1]) \in Nat /\ Sqrt(amount[0] * amount[1]) <= amount[0] * amount[1]
        BY <4>1, SqrtType
      <4>3. amount[0] * amount[1] > 0
        BY <1>1, <3>1, <4>1, <4>2, SMT DEF shares
      <4>4. amount[0] > 0 /\ amount[1] > 0
        BY <1>6, <4>3, SMT
      <4> QED BY <1>5, <1>6, <4>4, SMT DEF Token
    <3>2. CASE ~first
      BY <3>2, <1>1, <1>5, SMT DEF Token
    <3> QED BY <3>1, <3>2
  <2> QED BY <2>1, <2>2, <2>3, <1>11 DEF LiquidityLocked
<1> QED BY <1>12, <1>13, <1>14 DEF IInv

LEMMA BurnIInv ==
  ASSUME IInv, NEW to \in Receiver, Burn(to)
  PROVE  IInv'
<1> USE PairAssumption
<1> DEFINE shares == lp["pair"]
           fee == FeeShares
           supply == totalSupply + fee
           amount == [t \in Token |-> (shares * bal[t]) \div supply]
           left == IF to = "pair" THEN bal ELSE [t \in Token |-> bal[t] - amount[t]]
<1>1. /\ unlocked
      /\ supply # 0
      /\ lp' = [lp EXCEPT !["pair"] = 0, !["held"] = @ + fee]
      /\ totalSupply' = supply - shares
      /\ bal' = left
      /\ Update(left, reserve)
      /\ kLast' = NewKLast(left)
      /\ feeOn' = feeOn /\ unlocked' = unlocked /\ frame' = frame /\ now' = now
  BY DEF Burn, Enter
<1>2. TypeOK /\ FrameInv /\ LiquidityLocked /\ ReservesBacked
  BY DEF IInv
<1>3. /\ fee \in Nat /\ totalSupply \in Nat /\ (totalSupply = 0 => fee = 0)
      /\ lp["pair"] \in Nat /\ lp["zero"] \in Nat /\ lp["held"] \in Nat
  BY <1>2, FeeSharesType DEF TypeOK, Holder
<1>4. frame = NoFrame
  BY <1>1, <1>2, UnlockedFrame
<1> HIDE DEF fee
<1>5. /\ supply \in Nat /\ totalSupply > 0 /\ shares < supply
      /\ supply = lp["zero"] + lp["pair"] + lp["held"] + fee
  BY <1>1, <1>2, <1>3, SMT DEF LiquidityLocked
<1> HIDE DEF supply
<1>6. ASSUME NEW t \in Token
      PROVE  bal[t] \in Nat /\ amount[t] \in Nat /\ amount[t] < bal[t]
  <2>1. bal[t] \in Nat /\ bal[t] > 0
    <3>1. bal[t] \in Nat /\ reserve[t] \in Nat /\ reserve[t] <= bal[t]
      BY <1>2, <1>4, SMT DEF TypeOK, Balance, ReservesBacked
    <3> QED BY <3>1, <1>2, <1>5, SMT DEF LiquidityLocked
  <2>2. shares * bal[t] \in Nat /\ supply > 0
    BY <1>1, <1>3, <1>5, <2>1, SMT
  <2>3. amount[t] \in Nat /\ amount[t] * supply <= shares * bal[t]
    BY <1>5, <2>2, DivBounds
  <2>4. ASSUME amount[t] >= bal[t] PROVE FALSE
    <3>1. bal[t] * supply <= amount[t] * supply
      BY <1>5, <2>1, <2>3, <2>4, MulMonotone
    <3>2. (supply - shares) * bal[t] > 0
      BY <1>3, <1>5, <2>1, SMT
    <3> QED BY <1>3, <1>5, <2>1, <2>3, <3>1, <3>2, SMT
  <2> QED BY <2>1, <2>3, <2>4, SMT
<1> HIDE DEF amount
<1>7. left \in [Token -> Nat] /\ \A t \in Token : left[t] > 0 /\ left[t] <= bal[t]
  <2>1. bal \in [Token -> Nat]
    BY <1>2 DEF TypeOK, Balance
  <2> QED BY <2>1, <1>6, SMT
<1>8. left \in Balance
  <2>1. \A t \in Token : bal[t] <= TokenSupply[t] /\ bal[t] \in Nat /\ TokenSupply[t] \in Nat
    BY <1>2 DEF TypeOK, Balance
  <2> QED BY <2>1, <1>7, SMT DEF Balance
<1> HIDE DEF left
<1>9. /\ reserve' \in [Token -> 0 .. MaxUint112] /\ reserve' = left
      /\ blockTimestampLast' \in 0 .. TimeModulus - 1
      /\ priceCumulative' \in [Token -> 0 .. UintModulus - 1]
  BY <1>1, <1>2, <1>7, UpdateType
<1>10. /\ lp' \in [Holder -> Nat]
       /\ lp'["zero"] = lp["zero"] /\ lp'["pair"] = 0 /\ lp'["held"] = lp["held"] + fee
  <2>1. lp \in [Holder -> Nat]
    BY <1>2 DEF TypeOK
  <2> QED BY <2>1, <1>1, <1>3, SMT DEF Holder
<1>11. totalSupply' \in Nat /\ totalSupply' = lp'["zero"] + lp'["pair"] + lp'["held"]
  BY <1>1, <1>3, <1>5, <1>10, SMT
<1>12. TypeOK'
  <2>1. kLast' \in Nat
    BY <1>1, <1>7, NewKLastType
  <2> QED BY <2>1, <1>1, <1>2, <1>8, <1>9, <1>10, <1>11 DEF TypeOK
<1>13. FrameInv' /\ ReservesBacked'
  BY <1>1, <1>2, <1>4, <1>7, <1>9, SMT DEF FrameInv, ReservesBacked
<1>14. LiquidityLocked'
  BY <1>1, <1>2, <1>5, <1>7, <1>9, <1>10, <1>11, SMT DEF LiquidityLocked
<1> QED BY <1>12, <1>13, <1>14 DEF IInv

LEMMA SwapBeginIInv ==
  ASSUME IInv, NEW out \in [Token -> Outputs], NEW to \in Receiver, SwapBegin(out, to)
  PROVE  IInv'
<1> USE PairAssumption
<1>1. TypeOK /\ FrameInv /\ LiquidityLocked /\ ReservesBacked
  BY DEF IInv
<1>2. out \in [Token -> Nat]
  <2>1. \A t \in Token : out[t] \in Nat
    BY PairAssumption
  <2> QED BY <2>1
<1>3. /\ frame = NoFrame /\ frame' = [out |-> out, pre |-> Snapshot] /\ ~unlocked'
      /\ \A t \in Token : out[t] < reserve[t] /\ out[t] <= bal[t]
      /\ bal' = IF to = "pair" THEN bal ELSE [t \in Token |-> bal[t] - out[t]]
      /\ reserve' = reserve /\ lp' = lp /\ totalSupply' = totalSupply /\ kLast' = kLast
      /\ feeOn' = feeOn /\ now' = now /\ blockTimestampLast' = blockTimestampLast
      /\ priceCumulative' = priceCumulative /\ unlocked' = FALSE
  BY DEF SwapBegin
<1>4. bal \in [Token -> Nat] /\ \A t \in Token : bal[t] <= TokenSupply[t] /\ TokenSupply[t] \in Nat
  BY <1>1 DEF TypeOK, Balance
<1>5. bal' \in Balance /\ \A t \in Token : bal[t] <= bal'[t] + out[t]
  BY <1>2, <1>3, <1>4, SMT DEF Balance
<1>6. Snapshot \in Saved
  BY <1>1 DEF TypeOK, Snapshot, Saved
<1>7. frame' \in Frame /\ frame' # NoFrame
  BY <1>2, <1>3, <1>6 DEF Frame
<1>8. TypeOK'
  BY <1>1, <1>3, <1>5, <1>7 DEF TypeOK
<1>9. \A t \in Token : reserve[t] <= bal[t] /\ reserve[t] \in Nat /\ bal[t] \in Nat /\ bal'[t] \in Nat
  BY <1>1, <1>3, <1>5, SMT DEF ReservesBacked, TypeOK, Balance
<1>10. ReservesBacked'
  BY <1>2, <1>3, <1>5, <1>7, <1>9, SMT DEF ReservesBacked
<1>11. FrameInv'
  BY <1>1, <1>3, <1>7, <1>9 DEF FrameInv, Snapshot, LiquidityLocked
<1>12. LiquidityLocked'
  BY <1>1, <1>3 DEF LiquidityLocked
<1> QED BY <1>8, <1>10, <1>11, <1>12 DEF IInv

LEMMA SwapEndIInv ==
  ASSUME IInv, SwapEnd
  PROVE  IInv'
<1> USE PairAssumption
<1>1. TypeOK /\ FrameInv /\ LiquidityLocked /\ ReservesBacked
  BY DEF IInv
<1>2. /\ frame # NoFrame /\ frame.pre.reserve = reserve
      /\ Update(bal, reserve) /\ unlocked' = TRUE /\ frame' = NoFrame
      /\ InvariantHolds(bal[0], bal[1], AmountIn(0), AmountIn(1), reserve[0], reserve[1])
      /\ bal' = bal /\ lp' = lp /\ totalSupply' = totalSupply /\ kLast' = kLast
      /\ feeOn' = feeOn /\ now' = now
  BY <1>1 DEF SwapEnd, FrameInv
<1>3. bal \in [Token -> Nat] /\ reserve \in [Token -> Nat]
  BY <1>1, SMT DEF TypeOK, Balance
<1>4. /\ reserve' \in [Token -> 0 .. MaxUint112] /\ reserve' = bal
      /\ blockTimestampLast' \in 0 .. TimeModulus - 1
      /\ priceCumulative' \in [Token -> 0 .. UintModulus - 1]
  BY <1>1, <1>2, <1>3, UpdateType
<1>5. TypeOK'
  BY <1>1, <1>2, <1>4 DEF TypeOK
<1>6. FrameInv' /\ ReservesBacked'
  BY <1>2, <1>3, <1>4, SMT DEF FrameInv, ReservesBacked
<1>7. totalSupply > 0 => bal[0] > 0 /\ bal[1] > 0
  <2> SUFFICES ASSUME totalSupply > 0 PROVE bal[0] > 0 /\ bal[1] > 0
    OBVIOUS
  <2> DEFINE r0 == reserve[0]
             r1 == reserve[1]
             b0 == bal[0]
             b1 == bal[1]
             a0 == AmountIn(0)
             a1 == AmountIn(1)
  <2>1. r0 \in Nat /\ r1 \in Nat /\ b0 \in Nat /\ b1 \in Nat /\ r0 > 0 /\ r1 > 0
    BY <1>1, <1>3 DEF LiquidityLocked, Token
  <2>2. a0 \in Nat /\ a1 \in Nat /\ a0 <= b0 /\ a1 <= b1
    <3>1. frame \in Frame
      BY <1>1, <1>2 DEF TypeOK
    <3>2. \A t \in Token : frame.out[t] \in Nat /\ reserve[t] <= bal[t] + frame.out[t]
          /\ reserve[t] \in Nat /\ bal[t] \in Nat
      BY <3>1, <1>1, <1>2, <1>3 DEF Frame, ReservesBacked
    <3>3. \A t \in Token : AmountIn(t) = IF bal[t] > reserve[t] - frame.out[t]
                                         THEN bal[t] - (reserve[t] - frame.out[t]) ELSE 0
      BY <1>2 DEF AmountIn
    <3>4. \A t \in Token : frame.out[t] <= reserve[t]
      BY <1>1, <1>2, <3>2, SMT DEF FrameInv
    <3> QED BY <3>2, <3>3, <3>4, SMT DEF Token
  <2>3. KHolds(b0, b1, a0, a1, r0, r1)
    BY <1>2 DEF InvariantHolds
  <2> HIDE DEF r0, r1, b0, b1, a0, a1
  <2>4. b0 > 0 /\ b1 > 0
    BY <2>1, <2>2, <2>3, KKeepsBalances
  <2> QED BY <2>4 DEF b0, b1
<1>8. LiquidityLocked'
  BY <1>1, <1>2, <1>4, <1>7, SMT DEF LiquidityLocked, Token
<1> QED BY <1>5, <1>6, <1>8 DEF IInv

LEMMA RevertIInv ==
  ASSUME IInv, Revert
  PROVE  IInv'
<1>1. TypeOK /\ FrameInv /\ LiquidityLocked
  BY DEF IInv
<1>2. frame \in Frame /\ frame.pre \in Saved
  BY <1>1 DEF Revert, TypeOK, Frame
<1>3. /\ bal' = frame.pre.bal /\ reserve' = reserve /\ lp' = frame.pre.lp
      /\ totalSupply' = totalSupply /\ unlocked' = TRUE /\ frame' = NoFrame /\ now' = now
  BY <1>1 DEF Revert, FrameInv
<1>4. TypeOK'
  BY <1>1, <1>2 DEF Revert, TypeOK, Saved
<1>5. FrameInv' /\ ReservesBacked'
  <2>1. \A t \in Token : bal'[t] \in Nat /\ reserve'[t] <= bal'[t]
    BY <1>1, <1>2, <1>3, <1>4 DEF FrameInv, Revert, TypeOK, Balance
  <2> QED BY <2>1, <1>3, SMT DEF FrameInv, ReservesBacked
<1>6. LiquidityLocked'
  BY <1>1, <1>3 DEF LiquidityLocked, FrameInv, Revert
<1> QED BY <1>4, <1>5, <1>6 DEF IInv

LEMMA SkimIInv ==
  ASSUME IInv, NEW to \in Receiver, Skim(to)
  PROVE  IInv'
<1> USE PairAssumption
<1>1. TypeOK /\ FrameInv /\ LiquidityLocked /\ ReservesBacked
  BY DEF IInv
<1>2. frame = NoFrame
  BY <1>1, UnlockedFrame DEF Skim, Enter
<1>3. \A t \in Token : /\ bal[t] \in Nat /\ reserve[t] \in Nat /\ TokenSupply[t] \in Nat
                       /\ reserve[t] <= bal[t] /\ bal[t] <= TokenSupply[t]
  BY <1>1, SMT DEF TypeOK, Balance, Skim
<1>4. bal' \in Balance /\ \A t \in Token : reserve[t] <= bal'[t]
  <2>1. CASE to = "pair"
    BY <2>1, <1>1, <1>3 DEF Skim, TypeOK
  <2>2. CASE to # "pair"
    <3>1. bal' = [t \in Token |-> bal[t] - (bal[t] - reserve[t])]
      BY <2>2 DEF Skim, Excess
    <3> QED BY <3>1, <1>3, SMT DEF Balance
  <2> QED BY <2>1, <2>2
<1>5. TypeOK'
  BY <1>1, <1>4 DEF Skim, TypeOK
<1>6. FrameInv' /\ ReservesBacked'
  <2>1. \A t \in Token : bal'[t] \in Nat
    BY <1>4 DEF Balance
  <2>2. ReservesBacked'
    BY <1>2, <1>4, <2>1, SMT DEF ReservesBacked, Skim
  <2> QED BY <1>1, <1>2, <2>2 DEF FrameInv, Skim
<1>7. LiquidityLocked'
  BY <1>1 DEF LiquidityLocked, Skim
<1> QED BY <1>5, <1>6, <1>7 DEF IInv

LEMMA SyncIInv ==
  ASSUME IInv, Sync
  PROVE  IInv'
<1> USE PairAssumption
<1>1. TypeOK /\ FrameInv /\ LiquidityLocked /\ ReservesBacked
  BY DEF IInv
<1>2. frame = NoFrame
  BY <1>1, UnlockedFrame DEF Sync, Enter
<1>3. bal \in [Token -> Nat] /\ reserve \in [Token -> Nat]
  BY <1>1, SMT DEF TypeOK, Balance
<1>4. /\ reserve' \in [Token -> 0 .. MaxUint112] /\ reserve' = bal
      /\ blockTimestampLast' \in 0 .. TimeModulus - 1
      /\ priceCumulative' \in [Token -> 0 .. UintModulus - 1]
  BY <1>1, <1>3, UpdateType DEF Sync
<1>5. TypeOK'
  BY <1>1, <1>4 DEF Sync, TypeOK
<1>6. FrameInv' /\ ReservesBacked'
  BY <1>1, <1>2, <1>3, <1>4, SMT DEF FrameInv, ReservesBacked, Sync
<1>7. LiquidityLocked'
  BY <1>1, <1>2, <1>3, <1>4, SMT DEF LiquidityLocked, ReservesBacked, Sync
<1> QED BY <1>5, <1>6, <1>7 DEF IInv

LEMMA DepositIInv ==
  ASSUME IInv, NEW t \in Token, NEW amount \in Deposits, Deposit(t, amount)
  PROVE  IInv'
<1> USE PairAssumption
<1>1. TypeOK /\ FrameInv /\ LiquidityLocked /\ ReservesBacked
  BY DEF IInv
<1>2. amount \in Nat
  OBVIOUS
<1>3. \A u \in Token : bal[u] \in Nat /\ TokenSupply[u] \in Nat /\ bal[u] <= TokenSupply[u]
                       /\ reserve[u] \in Nat
  BY <1>1, SMT DEF TypeOK, Balance
<1>4. bal' \in Balance /\ \A u \in Token : bal[u] <= bal'[u]
  <2>1. bal \in [Token -> Nat] /\ bal[t] + amount <= TokenSupply[t]
        /\ bal' = [bal EXCEPT ![t] = bal[t] + amount]
    BY <1>1 DEF TypeOK, Balance, Deposit
  <2> QED BY <2>1, <1>2, <1>3, SMT DEF Balance
<1>5. TypeOK'
  BY <1>1, <1>4 DEF Deposit, TypeOK
<1>6. ReservesBacked'
  <2>1. frame # NoFrame => frame.out \in [Token -> Nat]
    BY <1>1 DEF TypeOK, Frame
  <2>2. \A u \in Token : bal'[u] \in Nat
    BY <1>4 DEF Balance
  <2> QED BY <1>1, <1>3, <1>4, <2>1, <2>2, SMT DEF ReservesBacked, Deposit
<1>7. FrameInv' /\ LiquidityLocked'
  BY <1>1 DEF FrameInv, LiquidityLocked, Deposit
<1> QED BY <1>5, <1>6, <1>7 DEF IInv

LEMMA MoveSharesIInv ==
  ASSUME IInv, NEW to \in {"pair", "zero"}, NEW shares \in ShareMoves, MoveShares(to, shares)
  PROVE  IInv'
<1> USE PairAssumption
<1>1. TypeOK /\ FrameInv /\ LiquidityLocked /\ ReservesBacked
  BY DEF IInv
<1>2. shares \in Nat /\ shares <= lp["held"] /\ lp \in [Holder -> Nat]
      /\ lp' = [lp EXCEPT !["held"] = @ - shares, ![to] = @ + shares]
  BY <1>1 DEF MoveShares, TypeOK
<1>3. /\ lp' \in [Holder -> Nat] /\ lp'["zero"] >= lp["zero"]
      /\ lp'["zero"] + lp'["pair"] + lp'["held"] = lp["zero"] + lp["pair"] + lp["held"]
  BY <1>2, SMT DEF Holder
<1>4. TypeOK'
  BY <1>1, <1>3 DEF MoveShares, TypeOK
<1>5. FrameInv' /\ ReservesBacked'
  BY <1>1 DEF FrameInv, ReservesBacked, MoveShares
<1>6. LiquidityLocked'
  <2>1. totalSupply' = totalSupply /\ reserve' = reserve
    BY DEF MoveShares
  <2>2. lp["zero"] \in Nat /\ lp'["zero"] \in Nat /\ MINIMUM_LIQUIDITY \in Nat
    BY <1>2, <1>3 DEF Holder
  <2> QED BY <1>1, <1>3, <2>1, <2>2, SMT DEF LiquidityLocked
<1> QED BY <1>4, <1>5, <1>6 DEF IInv

LEMMA EnvironmentIInv ==
  ASSUME IInv, SetFeeTo \/ Tick \/ UNCHANGED vars
  PROVE  IInv'
<1> USE PairAssumption
<1>1. TypeOK /\ FrameInv /\ LiquidityLocked /\ ReservesBacked
  BY DEF IInv
<1>2. CASE SetFeeTo
  BY <1>1, <1>2 DEF SetFeeTo, IInv, TypeOK, FrameInv, LiquidityLocked, ReservesBacked
<1>3. CASE Tick
  <2>1. now' \in 0 .. MaxNow
    BY <1>1, <1>3, SMT DEF Tick, TypeOK
  <2> QED BY <1>1, <1>3, <2>1 DEF Tick, IInv, TypeOK, FrameInv, LiquidityLocked, ReservesBacked
<1>4. CASE UNCHANGED vars
  BY <1>1, <1>4 DEF vars, IInv, TypeOK, FrameInv, LiquidityLocked, ReservesBacked
<1> QED BY <1>2, <1>3, <1>4

LEMMA NextIInv == IInv /\ [Next]_vars => IInv'
<1> SUFFICES ASSUME IInv, [Next]_vars PROVE IInv'
  OBVIOUS
<1>1. ASSUME NEW to \in Holder, Mint(to) PROVE IInv'
  BY <1>1, MintIInv
<1>2. ASSUME NEW to \in Receiver, Burn(to) PROVE IInv'
  BY <1>2, BurnIInv
<1>3. ASSUME NEW out \in [Token -> Outputs], NEW to \in Receiver, SwapBegin(out, to) PROVE IInv'
  BY <1>3, SwapBeginIInv
<1>4. CASE SwapEnd
  BY <1>4, SwapEndIInv
<1>5. CASE Revert
  BY <1>5, RevertIInv
<1>6. ASSUME NEW to \in Receiver, Skim(to) PROVE IInv'
  BY <1>6, SkimIInv
<1>7. CASE Sync
  BY <1>7, SyncIInv
<1>8. ASSUME NEW t \in Token, NEW amount \in Deposits, Deposit(t, amount) PROVE IInv'
  BY <1>8, DepositIInv
<1>9. ASSUME NEW to \in {"pair", "zero"}, NEW shares \in ShareMoves, MoveShares(to, shares)
      PROVE  IInv'
  BY <1>9, MoveSharesIInv
<1>10. CASE SetFeeTo \/ Tick \/ UNCHANGED vars
  BY <1>10, EnvironmentIInv
<1> QED BY <1>1, <1>2, <1>3, <1>4, <1>5, <1>6, <1>7, <1>8, <1>9, <1>10
        DEF Next, Recording, NotRecording

LEMMA Inductive == Spec => []IInv
<1> QED BY InitIInv, NextIInv, PTL DEF Spec

(* Every value the pool stores keeps its type: in particular no reserve    *)
(* that _update writes is ever beyond uint112, and no subtraction of the   *)
(* LP ledger goes below zero.                                              *)
THEOREM PairTypeCorrect == Spec => []TypeOK
<1>1. IInv => TypeOK
  BY DEF IInv
<1> QED BY <1>1, Inductive, PTL

(* The reserves of the pool are backed by tokens it holds, through every   *)
(* interleaving of a swap with its receiver's own calls.                   *)
THEOREM ReservesAlwaysBacked == Spec => []ReservesBacked
<1>1. IInv => ReservesBacked
  BY DEF IInv
<1> QED BY <1>1, Inductive, PTL

(* No sequence of calls drains a pool that has issued shares or takes the  *)
(* locked minimum out of it, and its supply is what its holders have.      *)
THEOREM LiquidityAlwaysLocked == Spec => []LiquidityLocked
<1>1. IInv => LiquidityLocked
  BY DEF IInv
<1> QED BY <1>1, Inductive, PTL

-----------------------------------------------------------------------------
(* What a share is worth: the product of the reserves over the square of   *)
(* the supply.                                                             *)

(* The protocol's cut leaves the other shares their principal.             *)
LEMMA FeeKeepsPrincipal ==
  ASSUME TypeOK
  PROVE  /\ Principal \in Nat /\ Principal <= reserve[0] * reserve[1]
         /\ Principal * ((totalSupply + FeeShares) * (totalSupply + FeeShares))
              <= (reserve[0] * reserve[1]) * (totalSupply * totalSupply)
<1> DEFINE k == reserve[0] * reserve[1]
           rootK == Sqrt(k)
           rootKLast == Sqrt(kLast)
           S == totalSupply
           f == FeeShares
<1>1. S \in Nat /\ kLast \in Nat /\ reserve[0] \in Nat /\ reserve[1] \in Nat
  BY DEF TypeOK, Token
<1>2. k \in Nat
  BY <1>1, SMT
<1>3. /\ rootK \in Nat /\ rootK * rootK <= k
      /\ rootKLast \in Nat /\ rootKLast * rootKLast \in Nat
  <2>1. \A y \in Nat : Sqrt(y) \in Nat /\ Sqrt(y) * Sqrt(y) <= y
    BY SqrtType DEF IsSqrt
  <2>2. \A y \in Nat : y * y \in Nat
    BY SMT
  <2> HIDE DEF k
  <2> QED BY <1>1, <1>2, <2>1, <2>2
<1>4. f \in Nat
  BY FeeSharesType
<1>5. /\ Principal = IF feeOn /\ kLast # 0 THEN Min(rootKLast * rootKLast, k) ELSE k
      /\ f = IF feeOn /\ kLast # 0 /\ rootK > rootKLast
             THEN (S * (rootK - rootKLast)) \div (rootK * 5 + rootKLast) ELSE 0
  BY DEF Principal, FeeShares
<1> HIDE DEF k, rootK, rootKLast, f, S
<1>6. Principal \in Nat /\ Principal <= k
  BY <1>2, <1>3, <1>5, SMT DEF Min
<1>7. Principal * ((S + f) * (S + f)) <= k * (S * S)
  <2>1. CASE feeOn /\ kLast # 0 /\ rootK > rootKLast
    <3>1. f * (rootK * 5 + rootKLast) <= S * (rootK - rootKLast)
      <4>1. S * (rootK - rootKLast) \in Nat /\ rootK * 5 + rootKLast \in Nat /\ rootK * 5 + rootKLast > 0
        BY <1>1, <1>3, <2>1, SMT DEF S
      <4> QED BY <1>5, <2>1, <4>1, DivBounds
    <3>2. rootKLast * (S + f) <= rootK * S
      BY <1>1, <1>3, <1>4, <2>1, <3>1, CutOfGrowth DEF S
    <3>3. (rootKLast * rootKLast) * ((S + f) * (S + f)) <= (rootK * rootK) * (S * S)
      <4>1. S + f \in Nat /\ S \in Nat
        BY <1>1, <1>4 DEF S
      <4> QED BY <1>3, <3>2, <4>1, SquareMonotone
    <3>4. /\ Principal <= rootKLast * rootKLast
          /\ (S + f) * (S + f) \in Nat /\ S * S \in Nat
          /\ rootK * rootK \in Nat
      BY <1>1, <1>2, <1>3, <1>4, <1>5, <2>1, SMT DEF Min, S
    <3>5. Principal * ((S + f) * (S + f)) <= (rootKLast * rootKLast) * ((S + f) * (S + f))
      BY <1>3, <1>6, <3>4, MulMonotone
    <3>6. (rootK * rootK) * (S * S) <= k * (S * S)
      BY <1>2, <1>3, <3>4, MulMonotone
    <3>7. /\ Principal * ((S + f) * (S + f)) \in Nat
          /\ (rootKLast * rootKLast) * ((S + f) * (S + f)) \in Nat
          /\ (rootK * rootK) * (S * S) \in Nat /\ k * (S * S) \in Nat
      BY <1>2, <1>3, <1>6, <3>4, SMT
    <3> QED BY <3>3, <3>5, <3>6, <3>7, SMT
  <2>2. CASE ~(feeOn /\ kLast # 0 /\ rootK > rootKLast)
    <3>1. S + f = S /\ S * S \in Nat
      BY <1>1, <1>5, <2>2, SMT DEF S
    <3> QED BY <1>2, <1>6, <3>1, MulMonotone
  <2> QED BY <2>1, <2>2
<1> QED BY <1>6, <1>7 DEF k, S, f

(* A step that leaves the supply alone and shrinks no product keeps what   *)
(* every share is worth.                                                   *)
LEMMA SupplyStays ==
  ASSUME TypeOK, TypeOK', totalSupply' = totalSupply,
         reserve'[0] * reserve'[1] >= reserve[0] * reserve[1]
  PROVE  reserve'[0] * reserve'[1] * totalSupply * totalSupply
           >= Principal * totalSupply' * totalSupply'
<1> DEFINE k == reserve[0] * reserve[1]
           l == reserve'[0] * reserve'[1]
           P == Principal
           S == totalSupply
<1>1. P \in Nat /\ P <= k
  BY FeeKeepsPrincipal
<1>2. S \in Nat /\ k \in Nat /\ l \in Nat /\ k <= l
  <2>1. /\ S \in Nat /\ reserve[0] \in Nat /\ reserve[1] \in Nat
        /\ reserve'[0] \in Nat /\ reserve'[1] \in Nat
    BY DEF TypeOK, Token
  <2> QED BY <2>1, SMT
<1> HIDE DEF k, l, P, S
<1>3. P * (S * S) <= l * (S * S)
  <2>1. S * S \in Nat /\ P <= l
    BY <1>1, <1>2, SMT
  <2> QED BY <1>1, <1>2, <2>1, MulMonotone
<1>4. P * S * S <= l * S * S
  BY <1>1, <1>2, <1>3, SMT
<1> QED BY <1>4 DEF l, P, S

(* So does one after which either reserve is worth no less per share than  *)
(* it was to the supply that includes the protocol's cut.                  *)
LEMMA SupplyMoves ==
  ASSUME TypeOK, TypeOK', totalSupply > 0,
         \A t \in Token : reserve[t] * totalSupply' <= reserve'[t] * (totalSupply + FeeShares)
  PROVE  reserve'[0] * reserve'[1] * totalSupply * totalSupply
           >= Principal * totalSupply' * totalSupply'
<1> DEFINE k == reserve[0] * reserve[1]
           l == reserve'[0] * reserve'[1]
           P == Principal
           S == totalSupply
           T == totalSupply'
           s == totalSupply + FeeShares
<1>1. /\ S \in Nat /\ T \in Nat /\ reserve[0] \in Nat /\ reserve[1] \in Nat
      /\ reserve'[0] \in Nat /\ reserve'[1] \in Nat
  BY DEF TypeOK, Token
<1>2. s \in Nat /\ s > 0
  BY <1>1, FeeSharesType, SMT
<1>3. P \in Nat /\ P * (s * s) <= k * (S * S)
  BY FeeKeepsPrincipal
<1>4. k * (T * T) <= l * (s * s)
  <2>1. reserve[0] * T <= reserve'[0] * s /\ reserve[1] * T <= reserve'[1] * s
    BY DEF Token
  <2> HIDE DEF T, s
  <2> QED BY <1>1, <1>2, <2>1, BothSides
<1>5. k \in Nat /\ l \in Nat
  BY <1>1, SMT
<1> HIDE DEF k, l, P, S, T, s
<1>6. P * T * T <= l * S * S
  BY <1>1, <1>2, <1>3, <1>4, <1>5, Chained
<1>7. P * T * T \in Int /\ l * S * S \in Int
  BY <1>1, <1>3, <1>5, SMT
<1> QED BY <1>6, <1>7, SMT DEF l, P, S, T

(* Products of two reserves.                                               *)
LEMMA ReservesGrow ==
  ASSUME TypeOK, TypeOK', \A t \in Token : reserve[t] <= reserve'[t]
  PROVE  reserve'[0] * reserve'[1] >= reserve[0] * reserve[1]
<1>1. /\ reserve[0] \in Nat /\ reserve[1] \in Nat /\ reserve'[0] \in Nat /\ reserve'[1] \in Nat
      /\ reserve[0] <= reserve'[0] /\ reserve[1] <= reserve'[1]
  BY DEF TypeOK, Token
<1>2. reserve[0] * reserve[1] <= reserve'[0] * reserve'[1]
  BY <1>1, MulMonotone
<1>3. reserve[0] * reserve[1] \in Nat /\ reserve'[0] * reserve'[1] \in Nat
  BY <1>1, SMT
<1> QED BY <1>2, <1>3, SMT

(* A mint issues shares in proportion to the smaller of its two deposits.  *)
LEMMA MintKeepsShareValue ==
  ASSUME IInv, IInv', NEW to \in Holder, Mint(to), totalSupply > 0
  PROVE  \A t \in Token : reserve[t] * totalSupply' <= reserve'[t] * (totalSupply + FeeShares)
<1> DEFINE supply == totalSupply + FeeShares
           amount == [t \in Token |-> bal[t] - reserve[t]]
           shares == SharesFor(amount, supply)
<1>1. FeeShares \in Nat /\ totalSupply \in Nat
  BY FeeSharesType DEF IInv, TypeOK
<1>2. supply \in Nat /\ supply > 0
  BY <1>1, SMT
<1>3. /\ \A t \in Token : reserve[t] <= bal[t] /\ reserve[t] # 0
      /\ shares > 0 /\ totalSupply' = supply + shares /\ reserve' = bal
  BY <1>1, <1>2 DEF Mint, Update
<1>4. \A t \in Token : bal[t] \in Nat /\ reserve[t] \in Nat /\ reserve[t] > 0
  BY <1>3, SMT DEF IInv, TypeOK, Balance
<1>5. \A t \in Token : amount[t] \in Nat /\ bal[t] = reserve[t] + amount[t]
  BY <1>3, <1>4, SMT
<1> HIDE DEF supply, amount
<1>6. \A t \in Token : (amount[t] * supply) \div reserve[t] \in Nat
  <2> TAKE t \in Token
  <2>1. amount[t] * supply \in Nat
    BY <1>2, <1>5, SMT
  <2> QED BY <1>4, <2>1, DivBounds
<1>7. shares \in Nat /\ \A t \in Token : shares <= (amount[t] * supply) \div reserve[t]
  BY <1>6, SMT DEF SharesFor, Min, Token
<1> HIDE DEF shares
<1>8. \A t \in Token : reserve[t] * (supply + shares) <= (reserve[t] + amount[t]) * supply
  BY <1>2, <1>4, <1>5, <1>7, SharesInProportion
<1> QED BY <1>3, <1>5, <1>8 DEF supply

(* A burn rounds both of its payments down.                                *)
LEMMA BurnKeepsShareValue ==
  ASSUME IInv, IInv', NEW to \in Receiver, Burn(to), totalSupply > 0
  PROVE  \A t \in Token : reserve[t] * totalSupply' <= reserve'[t] * (totalSupply + FeeShares)
<1> DEFINE supply == totalSupply + FeeShares
           shares == lp["pair"]
<1>1. FeeShares \in Nat /\ totalSupply \in Nat /\ shares \in Nat
  BY FeeSharesType DEF IInv, TypeOK, Holder
<1>2. supply \in Nat /\ supply > 0 /\ shares <= supply
  <2>1. totalSupply = lp["zero"] + lp["pair"] + lp["held"] /\ lp["zero"] \in Nat /\ lp["held"] \in Nat
    BY DEF IInv, LiquidityLocked, TypeOK, Holder
  <2> QED BY <1>1, <2>1, SMT
<1>3. /\ totalSupply' = supply - shares /\ unlocked
      /\ reserve' = IF to = "pair" THEN bal
                    ELSE [t \in Token |-> bal[t] - (shares * bal[t]) \div supply]
  BY DEF Burn, Update, Enter
<1>4. \A t \in Token : bal[t] \in Nat /\ reserve[t] \in Nat /\ reserve[t] <= bal[t]
  <2>1. frame = NoFrame
    BY <1>3, UnlockedFrame DEF IInv
  <2> QED BY <2>1, SMT DEF IInv, TypeOK, Balance, ReservesBacked
<1> HIDE DEF supply, shares
<1>5. ASSUME NEW t \in Token
      PROVE  reserve[t] * (supply - shares) <= reserve'[t] * supply
  <2>1. supply - shares \in Nat
    BY <1>1, <1>2, SMT
  <2>2. reserve[t] * (supply - shares) <= bal[t] * (supply - shares)
    BY <1>4, <2>1, MulMonotone
  <2>3. bal[t] * (supply - shares) <= reserve'[t] * supply
    <3>1. CASE to = "pair"
      <4>1. reserve'[t] = bal[t] /\ supply - shares <= supply
        BY <1>1, <1>2, <1>3, <3>1, SMT
      <4> QED BY <1>2, <1>4, <2>1, <4>1, MulMonotone
    <3>2. CASE to # "pair"
      <4>1. reserve'[t] = bal[t] - (shares * bal[t]) \div supply
        BY <1>3, <3>2
      <4> QED BY <1>1, <1>2, <1>4, <4>1, LeftInProportion
    <3> QED BY <3>1, <3>2
  <2>4. /\ reserve[t] * (supply - shares) \in Int /\ bal[t] * (supply - shares) \in Int
        /\ reserve'[t] * supply \in Int
    <3>1. reserve'[t] \in Nat
      BY DEF IInv, TypeOK
    <3> QED BY <1>2, <1>4, <2>1, <3>1, SMT
  <2> QED BY <2>2, <2>3, <2>4, SMT
<1> QED BY <1>3, <1>5 DEF supply

(* A swap that passes its check shrinks no product.                        *)
LEMMA SwapEndKeepsProduct ==
  ASSUME IInv, IInv', SwapEnd, totalSupply > 0
  PROVE  totalSupply' = totalSupply /\ reserve'[0] * reserve'[1] >= reserve[0] * reserve[1]
<1> DEFINE r0 == reserve[0]
           r1 == reserve[1]
           b0 == bal[0]
           b1 == bal[1]
           a0 == AmountIn(0)
           a1 == AmountIn(1)
<1>1. /\ frame # NoFrame /\ frame.pre.reserve = reserve /\ totalSupply' = totalSupply
      /\ reserve' = bal /\ KHolds(b0, b1, a0, a1, r0, r1)
  BY DEF SwapEnd, Update, InvariantHolds, IInv, FrameInv
<1>2. r0 \in Nat /\ r1 \in Nat /\ b0 \in Nat /\ b1 \in Nat /\ r0 > 0 /\ r1 > 0
  BY SMT DEF IInv, LiquidityLocked, TypeOK, Balance, Token
<1>3. a0 \in Nat /\ a1 \in Nat /\ a0 <= b0 /\ a1 <= b1
  <2>1. \A t \in Token : /\ frame.out[t] \in Nat /\ frame.out[t] <= reserve[t]
                         /\ reserve[t] \in Nat /\ bal[t] \in Nat
    BY <1>1, SMT DEF IInv, TypeOK, Frame, Balance, FrameInv
  <2>2. \A t \in Token : AmountIn(t) = IF bal[t] > reserve[t] - frame.out[t]
                                       THEN bal[t] - (reserve[t] - frame.out[t]) ELSE 0
    BY <1>1 DEF AmountIn
  <2> QED BY <2>1, <2>2, SMT DEF Token
<1> HIDE DEF r0, r1, b0, b1, a0, a1
<1>4. b0 * b1 >= r0 * r1
  BY <1>1, <1>2, <1>3, KKeepsBalances
<1> QED BY <1>1, <1>4 DEF r0, r1, b0, b1

(* Every step: a revert goes back to the reserves of the call's beginning, *)
(* which no step before its end changed.                                   *)
LEMMA StepKeepsShareValue ==
  ASSUME IInv, IInv', [Next]_vars, totalSupply > 0
  PROVE  reserve'[0] * reserve'[1] * totalSupply * totalSupply
           >= Principal * totalSupply' * totalSupply'
<1> DEFINE Kept == reserve'[0] * reserve'[1] * totalSupply * totalSupply
                     >= Principal * totalSupply' * totalSupply'
<1>1. TypeOK /\ TypeOK'
  BY DEF IInv
<1>2. ASSUME NEW to \in Holder, Mint(to) PROVE Kept
  BY <1>1, <1>2, MintKeepsShareValue, SupplyMoves
<1>3. ASSUME NEW to \in Receiver, Burn(to) PROVE Kept
  BY <1>1, <1>3, BurnKeepsShareValue, SupplyMoves
<1>4. CASE SwapEnd
  BY <1>1, <1>4, SwapEndKeepsProduct, SupplyStays
<1>5. CASE Sync
  <2>1. frame = NoFrame /\ reserve' = bal /\ totalSupply' = totalSupply
    BY <1>5, UnlockedFrame DEF Sync, Enter, Update, IInv
  <2>2. \A t \in Token : reserve[t] <= reserve'[t]
    BY <2>1, SMT DEF IInv, ReservesBacked, TypeOK, Balance
  <2> QED BY <1>1, <2>1, <2>2, ReservesGrow, SupplyStays
<1>6. CASE NotRecording \/ Tick \/ UNCHANGED vars
  <2>1. reserve' = reserve /\ totalSupply' = totalSupply
    BY <1>6 DEF NotRecording, SwapBegin, Revert, Skim, Deposit, MoveShares, SetFeeTo, Tick, vars,
       IInv, FrameInv
  <2>2. \A t \in Token : reserve[t] <= reserve'[t]
    BY <2>1, SMT DEF IInv, TypeOK
  <2> QED BY <1>1, <2>1, <2>2, ReservesGrow, SupplyStays
<1> QED BY <1>2, <1>3, <1>4, <1>5, <1>6 DEF Next, Recording

(* No call, and no sequence of calls, makes a share worth less: k per      *)
(* squared supply never falls, rounding included, through swaps with a     *)
(* receiver that calls back, donations, mints, burns and syncs, and the    *)
(* protocol fee takes growth but never principal.                          *)
THEOREM ShareValueKeptByEveryStep == Spec => ShareValueNeverFalls
<1>1. IInv /\ IInv' /\ [Next]_vars =>
        [totalSupply > 0 =>
           reserve'[0] * reserve'[1] * totalSupply * totalSupply
             >= Principal * totalSupply' * totalSupply']_vars
  BY StepKeepsShareValue
<1> QED BY <1>1, Inductive, PTL DEF Spec, ShareValueNeverFalls

(* The event that has just happened left no growth to charge.              *)
LEMMA FeeIsPaid ==
  ASSUME TypeOK', kLast' = IF feeOn' THEN reserve'[0] * reserve'[1] ELSE 0
  PROVE  FeeShares' = 0
<1>1. reserve'[0] * reserve'[1] \in Nat
  <2>1. reserve'[0] \in Nat /\ reserve'[1] \in Nat
    BY DEF TypeOK, Token
  <2> QED BY <2>1, SMT
<1>2. Sqrt(reserve'[0] * reserve'[1]) \in Nat
  BY <1>1, SqrtType
<1>3. ~(feeOn' /\ Sqrt(reserve'[0] * reserve'[1]) > Sqrt(kLast'))
  BY <1>2
<1> QED BY <1>3 DEF FeeShares

(* However the fee is switched and whoever makes it, a liquidity event     *)
(* leaves nothing of the growth up to it to be charged again.              *)
THEOREM GrowthIsChargedOnce == Spec => GrowthChargedOnce
<1>1. IInv /\ IInv' /\ [Next]_vars => [totalSupply' # totalSupply => FeeShares' = 0]_vars
  <2> SUFFICES ASSUME IInv, IInv', [Next]_vars, totalSupply' # totalSupply PROVE FeeShares' = 0
    OBVIOUS
  <2>1. (\E to \in Holder : Mint(to)) \/ (\E to \in Receiver : Burn(to))
    BY DEF Next, Recording, NotRecording, SwapBegin, SwapEnd, Revert, Skim, Sync, Deposit, MoveShares,
       SetFeeTo, Tick, vars, IInv, FrameInv
  <2>2. kLast' = NewKLast(reserve') /\ feeOn' = feeOn
    BY <2>1 DEF Mint, Burn, Update
  <2> QED BY <2>2, FeeIsPaid DEF IInv, NewKLast
<1> QED BY <1>1, Inductive, PTL DEF Spec, GrowthChargedOnce

-----------------------------------------------------------------------------
(* The price accumulators, against the price integral of PairOracle.       *)

(* What the accumulators stand for at any moment.                          *)
Elapsed == untouched < TimeModulus => TimeElapsed = untouched

(* A revert would bring back the accumulators as they are.                 *)
FrameClock ==
  frame # NoFrame => /\ frame.pre.priceCumulative = priceCumulative
                     /\ frame.pre.blockTimestampLast = blockTimestampLast

OracleInv ==
  /\ IInv /\ FrameClock /\ Elapsed /\ AccumulatorIsIntegral
  /\ untouched \in 0 .. TimeModulus
  /\ integral \in [Token -> 0 .. UintModulus - 1]

(* Prices are naturals, whatever the reserves recorded.                    *)
LEMMA PriceType ==
  ASSUME NEW r \in [Token -> Nat], NEW t \in Token
  PROVE  (IF r[0] # 0 /\ r[1] # 0 THEN Price(r[Other(t)], r[t]) ELSE 0) \in Nat
<1>1. r[Other(t)] \in Nat /\ r[t] \in Nat /\ (r[0] # 0 /\ r[1] # 0 => r[t] > 0)
  BY SMT DEF Token, Other
<1>2. r[Other(t)] * Q112 \in Nat
  BY <1>1, PairAssumption, SMT
<1> QED BY <1>1, <1>2, DivBounds DEF Price

(* The spot price too, before a step and after.                            *)
LEMMA SpotPriceType ==
  ASSUME NEW t \in Token
  PROVE  /\ TypeOK => SpotPrice(t) \in Nat
         /\ TypeOK' => SpotPrice(t)' \in Nat
<1>1. TypeOK => reserve \in [Token -> Nat]
  BY SMT DEF TypeOK
<1>2. TypeOK' => reserve' \in [Token -> Nat]
  BY SMT DEF TypeOK
<1> QED BY <1>1, <1>2, PriceType DEF SpotPrice

(* Before the first second nothing has accumulated.                        *)
LEMMA InitOracle == OInit => OracleInv
<1> SUFFICES ASSUME OInit PROVE OracleInv
  OBVIOUS
<1>1. IInv
  BY InitIInv DEF OInit
<1>2. /\ frame = NoFrame /\ untouched = 0 /\ now = 0 /\ blockTimestampLast = 0
      /\ reserve = [t \in Token |-> 0]
      /\ integral = [t \in Token |-> 0] /\ priceCumulative = [t \in Token |-> 0]
  BY DEF OInit, Init
<1>3. UintModulus \in Nat /\ UintModulus > 0 /\ TimeModulus \in Nat /\ TimeModulus > 0
  BY PairAssumption
<1>4. 0 % TimeModulus = 0 /\ 0 % UintModulus = 0
  BY <1>3, ModUnique, SMT
<1>5. Elapsed
  BY <1>2, <1>4 DEF Elapsed, TimeElapsed
<1>6. AccumulatorIsIntegral
  <2>1. \A t \in Token : SpotPrice(t) = 0
    BY <1>2 DEF SpotPrice, Token
  <2>2. TimeElapsed = 0
    BY <1>2, <1>4 DEF TimeElapsed
  <2> QED BY <1>2, <1>4, <2>1, <2>2 DEF AccumulatorIsIntegral
<1> QED BY <1>1, <1>2, <1>3, <1>5, <1>6 DEF OracleInv, FrameClock

(* A second later: the integral grows by the spot price, and so does what  *)
(* the accumulators stand for.                                             *)
LEMMA TickOracle ==
  ASSUME OracleInv, OTick, IInv'
  PROVE  OracleInv'
<1>1. /\ UintModulus \in Nat /\ UintModulus > 0 /\ TimeModulus \in Nat /\ TimeModulus > 0
      /\ now \in Nat /\ blockTimestampLast \in 0 .. TimeModulus - 1 /\ untouched \in 0 .. TimeModulus
  BY PairAssumption DEF OracleInv, IInv, TypeOK
<1>2. /\ now' = now + 1 /\ untouched' = Min(untouched + 1, TimeModulus) /\ frame = NoFrame /\ frame' = frame
      /\ reserve' = reserve /\ blockTimestampLast' = blockTimestampLast /\ priceCumulative' = priceCumulative
      /\ integral' = [t \in Token |-> (integral[t] + SpotPrice(t)) % UintModulus]
  BY DEF OTick, Tick
<1>3. \A t \in Token : SpotPrice(t) \in Nat /\ SpotPrice(t)' = SpotPrice(t)
  BY <1>2, SpotPriceType DEF OracleInv, IInv, SpotPrice
<1>4. /\ untouched' \in 0 .. TimeModulus
      /\ untouched' < TimeModulus => untouched' = untouched + 1 /\ untouched < TimeModulus
  BY <1>1, <1>2, SMT DEF Min
<1>5. \A t \in Token : priceCumulative[t] \in Nat /\ integral[t] \in Nat
  BY <1>1, SMT DEF OracleInv, IInv, TypeOK
<1>6. integral' \in [Token -> 0 .. UintModulus - 1]
  <2>1. \A t \in Token : integral[t] + SpotPrice(t) \in Int
    BY <1>3, <1>5, SMT
  <2> QED BY <1>1, <1>2, <2>1, DivMod
<1>7. Elapsed'
  <2> SUFFICES ASSUME untouched' < TimeModulus PROVE TimeElapsed' = untouched'
    BY DEF Elapsed
  <2>1. ((now % TimeModulus) - blockTimestampLast) % TimeModulus = untouched
    BY <1>4 DEF OracleInv, Elapsed, TimeElapsed
  <2>2. ((now % TimeModulus) - blockTimestampLast) % TimeModulus = (now - blockTimestampLast) % TimeModulus
    <3> DEFINE b == 0 - blockTimestampLast
    <3>1. /\ b \in Int /\ now \in Int /\ now % TimeModulus \in Int
          /\ (now % TimeModulus) + b = (now % TimeModulus) - blockTimestampLast
          /\ now + b = now - blockTimestampLast
      BY <1>1, DivMod, SMT
    <3> HIDE DEF b
    <3>2. ((now % TimeModulus) + b) % TimeModulus = (now + b) % TimeModulus
      <4>1. TimeModulus \in Nat /\ TimeModulus > 0
        BY <1>1
      <4> QED BY <3>1, <4>1, ModAdd
    <3> QED BY <3>1, <3>2
  <2>3. (((now + 1) % TimeModulus) - blockTimestampLast) % TimeModulus
          = (now + 1 - blockTimestampLast) % TimeModulus
    BY <1>1, ModAdd, SMT
  <2>4. (((now - blockTimestampLast) % TimeModulus) + 1) % TimeModulus
          = (now - blockTimestampLast + 1) % TimeModulus
    BY <1>1, ModAdd, SMT
  <2>5. (untouched + 1) % TimeModulus = untouched + 1
    BY <1>1, <1>4, ModUnique, SMT
  <2> QED BY <1>1, <1>2, <1>4, <2>1, <2>2, <2>3, <2>4, <2>5, SMT DEF TimeElapsed
<1>8. AccumulatorIsIntegral'
  <2> SUFFICES ASSUME untouched' < TimeModulus, NEW t \in Token
               PROVE  (priceCumulative[t] + SpotPrice(t) * TimeElapsed') % UintModulus = integral'[t]
    BY <1>2, <1>3 DEF AccumulatorIsIntegral
  <2>1. TimeElapsed = untouched /\ TimeElapsed' = untouched + 1
    BY <1>4, <1>7 DEF OracleInv, Elapsed
  <2>2. (priceCumulative[t] + SpotPrice(t) * untouched) % UintModulus = integral[t]
    BY <1>4, <2>1 DEF OracleInv, AccumulatorIsIntegral
  <2> DEFINE a == priceCumulative[t] + SpotPrice(t) * untouched
             p == SpotPrice(t)
  <2>3. a \in Int /\ p \in Int
    BY <1>1, <1>3, <1>5, SMT
  <2>4. priceCumulative[t] + p * (untouched + 1) = a + p
    BY <1>1, <1>3, <1>5, SMT
  <2>5. a % UintModulus = integral[t] /\ integral'[t] = (integral[t] + p) % UintModulus
    BY <1>2, <2>2
  <2> HIDE DEF a, p
  <2>6. ((a % UintModulus) + p) % UintModulus = (a + p) % UintModulus
    BY <1>1, <2>3, ModAdd
  <2> QED BY <2>1, <2>4, <2>5, <2>6 DEF p
<1> QED BY <1>2, <1>4, <1>6, <1>7, <1>8 DEF OracleInv, FrameClock

(* Recording adds to the accumulators exactly what they were short of.     *)
LEMMA RecordingOracle ==
  ASSUME OracleInv, ORecording, IInv'
  PROVE  OracleInv'
<1>1. /\ UintModulus \in Nat /\ UintModulus > 0 /\ TimeModulus \in Nat /\ TimeModulus > 0
      /\ now \in Nat /\ untouched \in 0 .. TimeModulus
  BY PairAssumption DEF OracleInv, IInv, TypeOK
<1>2. /\ priceCumulative' = Accumulated(reserve) /\ blockTimestampLast' = now % TimeModulus
      /\ now' = now /\ frame' = NoFrame /\ integral' = integral
      /\ untouched' = IF untouched < TimeModulus THEN 0 ELSE untouched
  <2>1. CASE SwapEnd
    BY <2>1 DEF SwapEnd, Update, ORecording, OracleInv, IInv, FrameInv
  <2>2. CASE Sync
    BY <2>2, UnlockedFrame DEF Sync, Enter, Update, ORecording, OracleInv, IInv
  <2>3. ASSUME NEW to \in Holder, Mint(to)
        PROVE  /\ priceCumulative' = Accumulated(reserve) /\ blockTimestampLast' = now % TimeModulus
               /\ now' = now /\ frame' = NoFrame
    BY <2>3, UnlockedFrame DEF Mint, Enter, Update, OracleInv, IInv
  <2>4. ASSUME NEW to \in Receiver, Burn(to)
        PROVE  /\ priceCumulative' = Accumulated(reserve) /\ blockTimestampLast' = now % TimeModulus
               /\ now' = now /\ frame' = NoFrame
    BY <2>4, UnlockedFrame DEF Burn, Enter, Update, OracleInv, IInv
  <2> QED BY <2>1, <2>2, <2>3, <2>4 DEF ORecording, Recording
<1>3. TimeElapsed' = 0
  <2>1. now % TimeModulus \in Int
    BY <1>1, SMT
  <2>2. (now % TimeModulus) - (now % TimeModulus) = 0
    BY <2>1, SMT
  <2>3. 0 % TimeModulus = 0
    BY <1>1, ModUnique, SMT
  <2> QED BY <1>2, <2>2, <2>3 DEF TimeElapsed
<1>4. ASSUME untouched < TimeModulus, NEW t \in Token
      PROVE  priceCumulative'[t] = integral[t]
  <2>1. (priceCumulative[t] + SpotPrice(t) * TimeElapsed) % UintModulus = integral[t]
    BY <1>4 DEF OracleInv, AccumulatorIsIntegral
  <2>2. /\ priceCumulative[t] \in 0 .. UintModulus - 1 /\ SpotPrice(t) \in Nat
        /\ TimeElapsed = untouched
    BY <1>4, SpotPriceType DEF OracleInv, IInv, TypeOK, Elapsed
  <2>3. CASE TimeElapsed > 0 /\ reserve[0] # 0 /\ reserve[1] # 0
    BY <1>2, <2>1, <2>3 DEF Accumulated, SpotPrice
  <2>4. CASE ~(TimeElapsed > 0 /\ reserve[0] # 0 /\ reserve[1] # 0)
    <3>1. SpotPrice(t) * TimeElapsed = 0
      <4>1. SpotPrice(t) = 0 \/ TimeElapsed = 0
        BY <1>1, <2>2, <2>4 DEF SpotPrice
      <4> QED BY <1>1, <2>2, <4>1, SMT
    <3>2. priceCumulative[t] % UintModulus = priceCumulative[t]
      BY <1>1, <2>2, ModUnique, SMT
    <3> QED BY <1>2, <2>1, <2>2, <2>4, <3>1, <3>2 DEF Accumulated
  <2> QED BY <2>3, <2>4
<1>5. AccumulatorIsIntegral'
  <2> SUFFICES ASSUME untouched' < TimeModulus, NEW t \in Token
               PROVE  (priceCumulative'[t] + SpotPrice(t)' * TimeElapsed') % UintModulus = integral'[t]
    BY DEF AccumulatorIsIntegral
  <2>1. untouched < TimeModulus
    BY <1>2
  <2>2. integral[t] \in 0 .. UintModulus - 1 /\ SpotPrice(t)' \in Nat
    BY SpotPriceType DEF OracleInv, IInv
  <2>3. integral[t] % UintModulus = integral[t]
    BY <1>1, <2>2, ModUnique, SMT
  <2>4. integral[t] + SpotPrice(t)' * 0 = integral[t]
    BY <1>1, <2>2, SMT
  <2> QED BY <1>2, <1>3, <1>4, <2>1, <2>3, <2>4
<1>6. Elapsed' /\ untouched' \in 0 .. TimeModulus
  BY <1>1, <1>2, <1>3, SMT DEF Elapsed
<1> QED BY <1>2, <1>5, <1>6 DEF OracleInv, FrameClock

(* The rest, a revert included, leaves what was recorded.                  *)
LEMMA NotRecordingOracle ==
  ASSUME OracleInv, ONotRecording \/ UNCHANGED ovars, IInv'
  PROVE  OracleInv'
<1>1. /\ reserve' = reserve /\ priceCumulative' = priceCumulative
      /\ blockTimestampLast' = blockTimestampLast /\ now' = now
      /\ integral' = integral /\ untouched' = untouched
  BY DEF ONotRecording, NotRecording, SwapBegin, Revert, Skim, Deposit, MoveShares, SetFeeTo,
     ovars, vars, OracleInv, FrameClock, IInv, FrameInv
<1>2. FrameClock'
  <2>1. \/ frame' = frame \/ frame' = NoFrame
        \/ \E out \in [Token -> Outputs] : frame' = [out |-> out, pre |-> Snapshot]
    BY DEF ONotRecording, NotRecording, SwapBegin, Revert, Skim, Deposit, MoveShares, SetFeeTo, ovars, vars
  <2> QED BY <1>1, <2>1 DEF OracleInv, FrameClock, Snapshot
<1>3. Elapsed' /\ AccumulatorIsIntegral'
  BY <1>1 DEF OracleInv, Elapsed, AccumulatorIsIntegral, SpotPrice, TimeElapsed
<1> QED BY <1>1, <1>2, <1>3 DEF OracleInv

(* The two price accumulators are the integral of the spot price over      *)
(* time, through every wrap of either and every recording, revert and      *)
(* callback: _update (line 83).                                            *)
THEOREM AccumulatorFollowsPrice == OSpec => []AccumulatorIsIntegral
<1>1. OracleInv /\ [ONext]_ovars => OracleInv'
  <2> SUFFICES ASSUME OracleInv, [ONext]_ovars PROVE OracleInv'
    OBVIOUS
  <2>1. [Next]_vars
    BY DEF ONext, OTick, ORecording, ONotRecording, Next, ovars
  <2>2. IInv'
    BY <2>1, NextIInv DEF OracleInv
  <2> QED BY <2>2, TickOracle, RecordingOracle, NotRecordingOracle DEF ONext
<1>2. OracleInv => AccumulatorIsIntegral
  BY DEF OracleInv
<1> QED BY <1>1, <1>2, InitOracle, PTL DEF OSpec
=============================================================================
