---------------------------- MODULE AmmMathProofs ----------------------------
(***************************************************************************)
(* What the other proofs share: facts about the arithmetic of AmmMath for  *)
(* every amount and reserve, functions defined by recursion, and what the  *)
(* operators of Lists leave of a list.                                     *)
(***************************************************************************)
EXTENDS AmmMath, Lists, SequenceTheorems, TLAPS, WellFoundedInduction, NaturalsInduction

(* Products of naturals are ordered as their factors.                      *)
LEMMA MulMonotone ==
  ASSUME NEW a \in Nat, NEW b \in Nat, NEW c \in Nat, NEW d \in Nat, a <= c, b <= d
  PROVE  a * b <= c * d
<1>1. (c - a) * b >= 0 /\ c * (d - b) >= 0
  BY SMT
<1> QED BY <1>1, SMT

(* Truncating division of naturals by a positive one.                      *)
LEMMA DivBounds ==
  ASSUME NEW n \in Nat, NEW d \in Nat, d > 0
  PROVE  /\ n \div d \in Nat
         /\ (n \div d) * d <= n
         /\ n < (n \div d + 1) * d
BY SMT

(* What a quotient is at least, and at most.                               *)
LEMMA DivLowerBound ==
  ASSUME NEW n \in Nat, NEW d \in Nat, d > 0, NEW q \in Nat, q * d <= n
  PROVE  q <= n \div d
<1>1. n \div d \in Nat /\ n < (n \div d + 1) * d
  BY DivBounds
<1>2. SUFFICES ASSUME q >= n \div d + 1 PROVE FALSE
  BY <1>1, SMT
<1>3. (n \div d + 1) * d <= q * d
  BY <1>1, <1>2, MulMonotone
<1> QED BY <1>1, <1>3, SMT

(* Every natural number has an integer square root, and Sqrt chooses it.   *)
LEMMA SqrtType ==
  ASSUME NEW y \in Nat
  PROVE  Sqrt(y) \in Nat /\ Sqrt(y) <= y /\ IsSqrt(Sqrt(y), y)
<1> DEFINE Above == {r \in Nat : y < (r + 1) * (r + 1)}
<1>1. y \in Above
  <2>1. y * 1 <= (y + 1) * (y + 1)
    BY MulMonotone, SMT
  <2>2. (y + 1) * (y + 1) = y * y + 2 * y + 1 /\ y * y >= 0
    BY SMT
  <2> QED BY <2>2, SMT
<1>2. PICK r \in Above : \A s \in Above : ~ (<<s, r>> \in OpToRel(<, Nat))
  BY <1>1, WFMin, NatLessThanWellFounded
<1>3. \A s \in Nat : s < r => (s + 1) * (s + 1) <= y
  <2> SUFFICES ASSUME NEW s \in Nat, s < r, ~((s + 1) * (s + 1) <= y) PROVE FALSE
    OBVIOUS
  <2>1. s \in Above
    BY SMT
  <2> QED BY <1>2, <2>1 DEF OpToRel
<1>4. r * r <= y
  <2>1. CASE r = 0
    BY <2>1, SMT
  <2>2. CASE r # 0
    <3>1. r - 1 \in Nat /\ r - 1 < r /\ (r - 1) + 1 = r
      BY <2>2, SMT
    <3> QED BY <1>3, <3>1
  <2> QED BY <2>1, <2>2
<1>5. r <= y
  <2> SUFFICES ASSUME r > y PROVE FALSE
    BY SMT
  <2>1. r * 1 <= r * r
    BY MulMonotone, SMT
  <2> QED BY <2>1, <1>4, SMT
<1>6. r \in Nat /\ y < (r + 1) * (r + 1)
  OBVIOUS
<1>7. r \in 0 .. y /\ IsSqrt(r, y)
  BY <1>4, <1>5, <1>6 DEF IsSqrt
<1> QED BY <1>7, SMT DEF Sqrt

(* Roots are ordered as the numbers they are roots of.                     *)
LEMMA SqrtMonotone ==
  ASSUME NEW a \in Nat, NEW b \in Nat, a <= b
  PROVE  Sqrt(a) <= Sqrt(b)
<1>1. /\ Sqrt(a) \in Nat /\ Sqrt(a) * Sqrt(a) <= a
      /\ Sqrt(b) \in Nat /\ b < (Sqrt(b) + 1) * (Sqrt(b) + 1)
  BY SqrtType DEF IsSqrt
<1>2. SUFFICES ASSUME Sqrt(b) + 1 <= Sqrt(a) PROVE FALSE
  BY <1>1, SMT
<1>3. (Sqrt(b) + 1) * (Sqrt(b) + 1) <= Sqrt(a) * Sqrt(a)
  BY <1>1, <1>2, MulMonotone, SMT
<1> QED BY <1>1, <1>3, SMT

-----------------------------------------------------------------------------
(* What the constant-product check of swap implies for the balances it is  *)
(* given: their product has not fallen, and neither of them is exhausted.  *)
LEMMA KKeepsBalances ==
  ASSUME NEW b0 \in Nat, NEW b1 \in Nat, NEW in0 \in Nat, NEW in1 \in Nat,
         NEW r0 \in Nat, NEW r1 \in Nat, r0 > 0, r1 > 0, in0 <= b0, in1 <= b1,
         KHolds(b0, b1, in0, in1, r0, r1)
  PROVE  b0 * b1 >= r0 * r1 /\ b0 > 0 /\ b1 > 0
<1> DEFINE a0 == b0 * 1000 - in0 * 3
           a1 == b1 * 1000 - in1 * 3
<1>1. a0 * a1 >= r0 * r1 * 1000 * 1000
  BY DEF KHolds, FeeBase, FeeCut
<1>2. a0 \in Nat /\ a1 \in Nat /\ a0 <= b0 * 1000 /\ a1 <= b1 * 1000
  BY SMT
<1>3. b0 * 1000 \in Nat /\ b1 * 1000 \in Nat
  BY SMT
<1> HIDE DEF a0, a1
<1>4. a0 * a1 <= (b0 * 1000) * (b1 * 1000)
  BY <1>2, <1>3, MulMonotone
<1>5. b0 * b1 \in Nat /\ r0 * r1 \in Nat /\ r0 * r1 > 0
  BY SMT
<1>6. (b0 * 1000) * (b1 * 1000) = (b0 * b1) * 1000 * 1000
  BY SMT
<1>7. b0 * b1 >= r0 * r1
  BY <1>1, <1>2, <1>4, <1>5, <1>6, SMT
<1>8. b0 > 0 /\ b1 > 0
  BY <1>5, <1>7, SMT
<1> QED BY <1>7, <1>8

-----------------------------------------------------------------------------
(* A quoted output never empties the pool: getAmountOut returns less than  *)
(* the output reserve, whatever the input (ArkSwapLibrary.sol:65-72), so   *)
(* the INSUFFICIENT_LIQUIDITY guard of swap always lets a quote through.   *)
THEOREM AmountOutBelowReserve ==
  ASSUME NEW amountIn \in Nat \ {0}, NEW reserveIn \in Nat \ {0}, NEW reserveOut \in Nat \ {0}
  PROVE  GetAmountOut(amountIn, reserveIn, reserveOut) \in 0 .. reserveOut - 1
<1> DEFINE fee == amountIn * FeeKept
           den == reserveIn * FeeBase + fee
           out == (fee * reserveOut) \div den
<1> USE DEF FeeKept, FeeBase, FeeCut
<1>1. fee \in Nat /\ den \in Nat /\ den > fee /\ den > 0 /\ fee * reserveOut \in Nat
  BY SMT
<1>2. out \in Nat /\ out * den <= fee * reserveOut
  BY <1>1, DivBounds
<1>3. ASSUME out >= reserveOut PROVE FALSE
  <2>1. reserveOut * den <= out * den
    BY <1>1, <1>2, <1>3, MulMonotone, SMT
  <2>2. reserveOut * (den - fee) > 0
    BY <1>1, SMT
  <2>3. reserveOut * (den - fee) = reserveOut * den - fee * reserveOut
    BY <1>1, SMT
  <2> QED BY <1>1, <1>2, <2>1, <2>2, <2>3, SMT
<1> QED BY <1>2, <1>3, SMT DEF GetAmountOut

(* A swap that takes what the library quotes always passes the pair's own  *)
(* constant-product check (ArkSwapLibrary.sol:65-72 against                *)
(* ArkSwapPair.sol:186-191): the two formulas were written apart, and a    *)
(* router swap would revert wherever they disagreed.                       *)
THEOREM QuotedSwapPassesK ==
  ASSUME NEW amountIn \in Nat \ {0}, NEW reserveIn \in Nat \ {0}, NEW reserveOut \in Nat \ {0}
  PROVE  KHolds(reserveIn + amountIn, reserveOut - GetAmountOut(amountIn, reserveIn, reserveOut),
                amountIn, 0, reserveIn, reserveOut)
<1> DEFINE fee == amountIn * FeeKept
           den == reserveIn * FeeBase + fee
           out == GetAmountOut(amountIn, reserveIn, reserveOut)
<1>1. fee = amountIn * 997 /\ den = reserveIn * 1000 + fee
  BY SMT DEF FeeKept, FeeBase, FeeCut
<1>2. fee \in Nat /\ den \in Nat /\ den > 0 /\ fee * reserveOut \in Nat
  BY <1>1, SMT
<1>3. out \in Nat /\ out * den <= fee * reserveOut
  BY <1>2, DivBounds DEF GetAmountOut
<1> HIDE DEF fee, den, out
<1>4. den * (reserveOut - out) = den * reserveOut - out * den
  BY <1>2, <1>3, SMT
<1>5. den * reserveOut = reserveIn * 1000 * reserveOut + fee * reserveOut
  BY <1>1, <1>2, SMT
<1>6. den * (reserveOut - out) >= reserveIn * 1000 * reserveOut
  BY <1>2, <1>3, <1>4, <1>5, SMT
<1>7. (reserveIn + amountIn) * 1000 - amountIn * 3 = den
  BY <1>1, SMT
<1>8. den * (reserveOut - out) * 1000 >= reserveIn * 1000 * reserveOut * 1000
  BY <1>2, <1>3, <1>6, SMT
<1>9. den * ((reserveOut - out) * 1000 - 0 * 3) >= reserveIn * reserveOut * 1000 * 1000
  BY <1>2, <1>3, <1>8, SMT
<1> QED BY <1>7, <1>9 DEF KHolds, FeeBase, FeeCut, out

(* An exact-output quote pays for its output: feeding getAmountIn's answer *)
(* back through getAmountOut yields at least the amount asked for          *)
(* (ArkSwapLibrary.sol:65-81), thanks to the final add(1).                 *)
THEOREM AmountInSuffices ==
  ASSUME NEW amountOut \in Nat \ {0}, NEW reserveIn \in Nat \ {0}, NEW reserveOut \in Nat,
         amountOut < reserveOut
  PROVE  GetAmountOut(GetAmountIn(amountOut, reserveIn, reserveOut), reserveIn, reserveOut) >= amountOut
<1> DEFINE num == reserveIn * amountOut * FeeBase
           div == (reserveOut - amountOut) * FeeKept
           in == GetAmountIn(amountOut, reserveIn, reserveOut)
           fee == in * FeeKept
           den == reserveIn * FeeBase + fee
<1>1. num = reserveIn * amountOut * 1000 /\ div = (reserveOut - amountOut) * 997
  BY SMT DEF FeeKept, FeeBase, FeeCut
<1>2. num \in Nat /\ div \in Nat /\ div > 0
  BY <1>1, SMT
<1>3. in \in Nat /\ num < in * div
  <2>1. num \div div \in Nat /\ num < (num \div div + 1) * div
    BY <1>2, DivBounds
  <2> QED BY <2>1, SMT DEF GetAmountIn
<1> HIDE DEF num, div, in
<1>4. fee = in * 997 /\ den = reserveIn * 1000 + fee /\ fee \in Nat /\ den \in Nat /\ den > 0
  BY <1>3, SMT DEF FeeKept, FeeBase, FeeCut
<1> HIDE DEF fee, den
<1>5. in * div = fee * reserveOut - fee * amountOut
  <2>1. in * div = (in * 997) * (reserveOut - amountOut)
    BY <1>1, <1>3, SMT
  <2> QED BY <1>4, <2>1, SMT
<1>6. amountOut * den = num + fee * amountOut
  BY <1>1, <1>4, SMT
<1>7. amountOut * den <= fee * reserveOut
  BY <1>2, <1>3, <1>4, <1>5, <1>6, SMT
<1>8. amountOut <= (fee * reserveOut) \div den
  <2>1. fee * reserveOut \in Nat
    BY <1>4, SMT
  <2> QED BY <2>1, <1>4, <1>7, DivLowerBound
<1> QED BY <1>3, <1>4, <1>8, SMT DEF GetAmountOut, fee, den, in

(* _addLiquidity's assertion never fails: when the amount of B that        *)
(* matches the desired A is more than the desired B, the amount of A that  *)
(* matches the desired B is not more than the desired A, for all that both *)
(* quotes are truncated.                                                   *)
THEOREM OptimalAmountNeverExceedsDesired ==
  ASSUME NEW desiredA \in Nat, NEW desiredB \in Nat, NEW reserveA \in Nat, NEW reserveB \in Nat,
         reserveA > 0, reserveB > 0, Quote(desiredA, reserveA, reserveB) > desiredB
  PROVE  Quote(desiredB, reserveB, reserveA) <= desiredA
<1> DEFINE optimalB == (desiredA * reserveB) \div reserveA
           optimalA == (desiredB * reserveA) \div reserveB
<1>1. desiredA * reserveB \in Nat /\ desiredB * reserveA \in Nat
  BY SMT
<1>2. optimalB \in Nat /\ optimalB * reserveA <= desiredA * reserveB
  BY <1>1, DivBounds
<1>3. optimalA \in Nat /\ optimalA * reserveB <= desiredB * reserveA
  BY <1>1, DivBounds
<1>4. desiredB <= optimalB
  BY <1>2, SMT DEF Quote
<1>5. desiredB * reserveA <= optimalB * reserveA
  BY <1>2, <1>4, MulMonotone, SMT
<1>6. optimalA * reserveB <= desiredA * reserveB
  <2> HIDE DEF optimalA, optimalB
  <2> QED BY <1>1, <1>2, <1>3, <1>5, SMT
<1>7. SUFFICES ASSUME optimalA > desiredA PROVE FALSE
  BY <1>3, SMT DEF Quote
<1>8. (desiredA + 1) * reserveB <= optimalA * reserveB
  <2> HIDE DEF optimalA
  <2>1. desiredA + 1 <= optimalA /\ desiredA + 1 \in Nat
    BY <1>3, <1>7, SMT
  <2> QED BY <1>3, <2>1, MulMonotone
<1>9. (desiredA + 1) * reserveB = desiredA * reserveB + reserveB
  BY SMT
<1> QED
  <2> HIDE DEF optimalA, optimalB
  <2> QED BY <1>1, <1>3, <1>6, <1>8, <1>9, SMT

-----------------------------------------------------------------------------
(* Shares of two reserves.                                                 *)

(* A positive factor cancels.                                              *)
LEMMA MulCancel ==
  ASSUME NEW a \in Nat, NEW b \in Nat, NEW d \in Nat, d > 0, a * d <= b * d
  PROVE  a <= b
<1>1. ASSUME a > b PROVE FALSE
  <2>1. (a - b - 1) * d >= 0
    BY <1>1, SMT
  <2> QED BY <2>1, SMT
<1> QED BY <1>1, SMT

(* The cut f taken out of the growth from L to K leaves the others K / L.  *)
LEMMA CutOfGrowth ==
  ASSUME NEW K \in Nat, NEW L \in Nat, NEW S \in Nat, NEW f \in Nat, L < K,
         f * (K * 5 + L) <= S * (K - L)
  PROVE  L * (S + f) <= K * S
<1> DEFINE d == K * 5 + L
<1>1. L * (f * d) <= L * (S * (K - L))
  <2>1. f * d \in Nat /\ S * (K - L) \in Nat
    BY SMT
  <2> HIDE DEF d
  <2> QED BY <2>1, MulMonotone DEF d
<1>2. K * S * d - L * S * d - L * (S * (K - L)) = 5 * (K * S * (K - L))
  BY SMT
<1>3. K * S * (K - L) >= 0
  BY SMT
<1>4. L * (S + f) * d = L * S * d + L * (f * d)
  BY SMT
<1>5. L * (S + f) * d <= K * S * d
  BY <1>1, <1>2, <1>3, <1>4, SMT
<1> HIDE DEF d
<1> QED
  BY <1>5, MulCancel, SMT DEF d

(* Squares of products keep their order.                                   *)
LEMMA SquareMonotone ==
  ASSUME NEW a \in Nat, NEW b \in Nat, NEW c \in Nat, NEW d \in Nat, a * b <= c * d
  PROVE  (a * a) * (b * b) <= (c * c) * (d * d)
<1>1. a * b \in Nat /\ c * d \in Nat
  BY SMT
<1>2. (a * b) * (a * b) <= (c * d) * (c * d)
  <2> DEFINE x == a * b
             y == c * d
  <2> HIDE DEF x, y
  <2>1. x * x <= y * y
    BY <1>1, MulMonotone DEF x, y
  <2> QED BY <2>1 DEF x, y
<1>3. (a * b) * (a * b) = (a * a) * (b * b) /\ (c * d) * (c * d) = (c * c) * (d * d)
  BY SMT
<1> QED BY <1>2, <1>3

(* Both sides of the pool give each share at least what it had.            *)
LEMMA BothSides ==
  ASSUME NEW x \in Nat, NEW y \in Nat, NEW p \in Nat, NEW q \in Nat, NEW s \in Nat, NEW t \in Nat,
         x * t <= p * s, y * t <= q * s
  PROVE  (x * y) * (t * t) <= (p * q) * (s * s)
<1>1. x * t \in Nat /\ y * t \in Nat /\ p * s \in Nat /\ q * s \in Nat
  BY SMT
<1>2. (x * t) * (y * t) <= (p * s) * (q * s)
  <2> DEFINE a == x * t
             b == y * t
             c == p * s
             d == q * s
  <2> HIDE DEF a, b, c, d
  <2>1. a * b <= c * d
    BY <1>1, MulMonotone DEF a, b, c, d
  <2> QED BY <2>1 DEF a, b, c, d
<1>3. (x * t) * (y * t) = (x * y) * (t * t) /\ (p * s) * (q * s) = (p * q) * (s * s)
  BY SMT
<1> QED BY <1>2, <1>3

(* What a supply s keeps of P against S, and a supply t of k against s,    *)
(* t keeps of P against S.                                                 *)
LEMMA Chained ==
  ASSUME NEW P \in Nat, NEW k \in Nat, NEW kk \in Nat, NEW S \in Nat, NEW s \in Nat, NEW t \in Nat,
         s > 0, P * (s * s) <= k * (S * S), k * (t * t) <= kk * (s * s)
  PROVE  P * t * t <= kk * S * S
<1> DEFINE S2 == S * S
           s2 == s * s
           t2 == t * t
<1>1. S2 \in Nat /\ s2 \in Nat /\ t2 \in Nat /\ s2 > 0
  BY SMT
<1>2. P * t * t = P * t2 /\ kk * S * S = kk * S2
  BY SMT
<1>3. P * s2 <= k * S2 /\ k * t2 <= kk * s2
  OBVIOUS
<1> HIDE DEF S2, s2, t2
<1>4. (P * s2) * t2 <= (k * S2) * t2
  <2>1. P * s2 \in Nat /\ k * S2 \in Nat
    BY <1>1, SMT
  <2> QED BY <1>1, <1>3, <2>1, MulMonotone
<1>5. (k * t2) * S2 <= (kk * s2) * S2
  <2>1. k * t2 \in Nat /\ kk * s2 \in Nat
    BY <1>1, SMT
  <2> QED BY <1>1, <1>3, <2>1, MulMonotone
<1>6. (P * t2) * s2 <= (kk * S2) * s2
  <2>1. /\ (P * s2) * t2 = (P * t2) * s2 /\ (k * S2) * t2 = (k * t2) * S2
        /\ (kk * s2) * S2 = (kk * S2) * s2
    BY <1>1, SMT
  <2> QED BY <1>4, <1>5, <2>1, <1>1, SMT
<1>7. P * t2 <= kk * S2
  <2>1. P * t2 \in Nat /\ kk * S2 \in Nat
    BY <1>1, SMT
  <2> QED BY <1>1, <1>6, <2>1, MulCancel
<1> QED BY <1>2, <1>7

(* A truncated share of a balance leaves the rest at least in proportion.  *)
LEMMA LeftInProportion ==
  ASSUME NEW b \in Nat, NEW s \in Nat, NEW sh \in Nat, s > 0, sh <= s,
         NEW a, a = (sh * b) \div s
  PROVE  a \in Nat /\ b * (s - sh) <= (b - a) * s
<1>1. sh * b \in Nat
  BY SMT
<1>2. a \in Nat /\ a * s <= sh * b
  BY <1>1, DivBounds
<1>3. (b - a) * s - b * (s - sh) = sh * b - a * s
  BY <1>2, SMT
<1>4. (b - a) * s \in Int /\ b * (s - sh) \in Int /\ a * s \in Int
  BY <1>2, SMT
<1> QED BY <1>1, <1>2, <1>3, <1>4, SMT

(* No more shares than the deposit is of the reserve.                      *)
LEMMA SharesInProportion ==
  ASSUME NEW a \in Nat, NEW r \in Nat, NEW s \in Nat, r > 0, NEW sh \in Nat, sh <= (a * s) \div r
  PROVE  r * (s + sh) <= (r + a) * s
<1>1. a * s \in Nat
  BY SMT
<1>2. (a * s) \div r \in Nat /\ ((a * s) \div r) * r <= a * s
  BY <1>1, DivBounds
<1>3. sh * r <= ((a * s) \div r) * r
  BY <1>2, MulMonotone
<1>4. sh * r <= a * s
  BY <1>1, <1>2, <1>3, SMT
<1>5. (r + a) * s - r * (s + sh) = a * s - sh * r
  BY SMT
<1> QED BY <1>1, <1>4, <1>5, SMT

-----------------------------------------------------------------------------
(* Arithmetic that wraps.                                                  *)

(* Division with remainder.                                                *)
LEMMA DivMod ==
  ASSUME NEW x \in Int, NEW m \in Nat, m > 0
  PROVE  x \div m \in Int /\ x % m \in 0 .. m - 1 /\ x = (x \div m) * m + (x % m)
BY SMT

(* The remainder is the only one in its range.                             *)
LEMMA ModUnique ==
  ASSUME NEW x \in Int, NEW m \in Nat, m > 0, NEW q \in Int, NEW r \in 0 .. m - 1, x = q * m + r
  PROVE  x % m = r
<1> DEFINE p == x \div m
           s == x % m
<1>1. p \in Int /\ s \in 0 .. m - 1 /\ x = p * m + s
  BY DivMod
<1> HIDE DEF p, s
<1>2. CASE p > q
  <2>1. (p - q - 1) * m >= 0
    BY <1>1, <1>2, SMT
  <2>2. (p - q - 1) * m = p * m - q * m - m
    BY <1>1, SMT
  <2>3. p * m \in Int /\ q * m \in Int
    BY <1>1, SMT
  <2> QED BY <1>1, <2>1, <2>2, <2>3, SMT
<1>3. CASE p < q
  <2>1. (q - p - 1) * m >= 0
    BY <1>1, <1>3, SMT
  <2>2. (q - p - 1) * m = q * m - p * m - m
    BY <1>1, SMT
  <2>3. p * m \in Int /\ q * m \in Int
    BY <1>1, SMT
  <2> QED BY <1>1, <2>1, <2>2, <2>3, SMT
<1>4. CASE p = q
  <2>1. q * m \in Int
    BY SMT
  <2> QED BY <1>1, <1>4, <2>1, SMT DEF s
<1> QED BY <1>1, <1>2, <1>3, <1>4, SMT

(* Wrapping before an addition changes nothing.                            *)
LEMMA ModAdd ==
  ASSUME NEW a \in Int, NEW b \in Int, NEW m \in Nat, m > 0
  PROVE  ((a % m) + b) % m = (a + b) % m
<1> DEFINE q == a \div m
           r == a % m
           p == (r + b) \div m
           s == (r + b) % m
<1>1. q \in Int /\ r \in 0 .. m - 1 /\ a = q * m + r
  BY DivMod
<1> HIDE DEF q, r
<1>2. p \in Int /\ s \in 0 .. m - 1 /\ r + b = p * m + s
  BY <1>1, DivMod
<1> HIDE DEF p, s
<1>3. a + b = (q + p) * m + s
  BY <1>1, <1>2, SMT
<1>4. (a + b) % m = s
  <2>1. q + p \in Int /\ a + b \in Int
    BY <1>1, <1>2, SMT
  <2> QED BY <1>2, <1>3, <2>1, ModUnique
<1> QED BY <1>4 DEF s, r

(* Induction up to n: what holds at 0 and moves on holds everywhere.       *)
LEMMA UpTo ==
  ASSUME NEW n \in Nat, NEW S, 0 \in S, \A i \in 0 .. n - 1 : i \in S => i + 1 \in S
  PROVE  \A i \in 0 .. n : i \in S
<1> DEFINE Missing == {i \in 0 .. n : i \notin S}
<1> SUFFICES ASSUME Missing # {} PROVE FALSE
  OBVIOUS
<1>1. Missing \subseteq Nat
  OBVIOUS
<1>2. PICK i \in Missing : \A k \in Missing : ~(<<k, i>> \in OpToRel(<, Nat))
  BY <1>1, WFMin, NatLessThanWellFounded
<1>3. i \in 0 .. n /\ i # 0
  OBVIOUS
<1>4. i - 1 \in 0 .. n - 1 /\ i - 1 \in 0 .. n /\ i - 1 \in Nat /\ i \in Nat /\ i - 1 < i
      /\ (i - 1) + 1 = i
  BY <1>3, SMT
<1>5. i - 1 \in Missing
  BY <1>2, <1>4
<1> QED BY <1>2, <1>4, <1>5 DEF OpToRel

(* The formula of getAmountIn is a natural number.                         *)
LEMMA AmountInType ==
  ASSUME NEW out \in Nat, NEW ri \in Nat, NEW ro \in Nat, out < ro
  PROVE  GetAmountIn(out, ri, ro) \in Nat \ {0}
<1> DEFINE num == ri * out * FeeBase
           den == (ro - out) * FeeKept
<1>1. num \in Nat
  <2>1. ri * out \in Nat
    BY SMT
  <2> QED BY <2>1, SMT DEF FeeBase
<1>2. den \in Nat /\ den > 0
  <2>1. ro - out \in Nat /\ ro - out > 0
    BY SMT
  <2> DEFINE d == ro - out
  <2> HIDE DEF d
  <2>2. \A i \in Nat : i > 0 => i * 997 \in Nat /\ i * 997 > 0
    BY SMT
  <2>3. FeeKept = 997
    BY SMT DEF FeeKept, FeeBase, FeeCut
  <2> QED BY <2>1, <2>2, <2>3
<1> HIDE DEF num, den
<1>3. num \div den \in Nat
  BY <1>1, <1>2, DivBounds
<1>4. GetAmountIn(out, ri, ro) = num \div den + 1
  BY DEF GetAmountIn, num, den
<1> QED BY <1>3, <1>4, SMT

-----------------------------------------------------------------------------
(* A recursive function whose steps are within D exists.                   *)
Climbs(f, n, D, b, G) ==
  /\ f \in [1 .. n -> D]
  /\ n >= 1 => f[1] = b
  /\ \A i \in 1 .. n - 1 : f[i + 1] = G[<<i, f[i]>>]

LEMMA Recursion ==
  ASSUME NEW n \in Nat, NEW D, NEW b \in D, NEW G \in [(1 .. n) \X D -> D]
  PROVE  \E f : Climbs(f, n, D, b, G)
<1> DEFINE Is(f, k) == /\ f \in [1 .. k -> D]
                       /\ k >= 1 => f[1] = b
                       /\ \A i \in 1 .. k - 1 : f[i + 1] = G[<<i, f[i]>>]
           S == {k \in Nat : \E f : Is(f, k)}
<1>1. 0 \in S
  <2>1. Is([i \in 1 .. 0 |-> b], 0)
    <3>1. /\ \A i \in 1 .. 0 : FALSE
          /\ \A i \in 1 .. 0 - 1 : FALSE
          /\ ~(0 >= 1)
      BY SMT
    <3> QED BY <3>1
  <2> QED BY <2>1
<1>2. ASSUME NEW k \in 0 .. n - 1, k \in S PROVE k + 1 \in S
  <2>1. PICK f : Is(f, k)
    BY <1>2
  <2>2. k \in Nat /\ k + 1 \in Nat /\ (k + 1) - 1 = k
    BY SMT
  <2>3. /\ k # 0 => k \in 1 .. k /\ k \in 1 .. n /\ k >= 1
        /\ \A i \in 1 .. k : i # k + 1 /\ i \in 1 .. k + 1
        /\ \A i \in 1 .. k - 1 : i \in 1 .. k /\ i + 1 \in 1 .. k
        /\ \A i \in 1 .. k : i = k \/ i \in 1 .. k - 1
        /\ \A i \in 1 .. k + 1 : i = k + 1 \/ i \in 1 .. k
        /\ k + 1 \in 1 .. k + 1 /\ 1 \in 1 .. k + 1
        /\ k = 0 => k + 1 = 1
        /\ k # 0 => 1 \in 1 .. k
        /\ k = 0 => \A i \in 1 .. k : FALSE
    BY <2>2, SMT
  <2> DEFINE next == IF k = 0 THEN b ELSE G[<<k, f[k]>>]
             g == [i \in 1 .. k + 1 |-> IF i = k + 1 THEN next ELSE f[i]]
  <2>4. next \in D
    <3>1. CASE k = 0
      BY <3>1
    <3>2. CASE k # 0
      <4>1. f[k] \in D /\ k \in 1 .. n
        BY <2>1, <2>3, <3>2
      <4> QED BY <3>2, <4>1
    <3> QED BY <3>1, <3>2
  <2> HIDE DEF next
  <2>5. g \in [1 .. k + 1 -> D]
    BY <2>1, <2>3, <2>4
  <2>6. \A i \in 1 .. k : g[i] = f[i]
    BY <2>3
  <2>7. g[k + 1] = next
    BY <2>3
  <2> HIDE DEF g
  <2>8. g[1] = b
    <3>1. CASE k = 0
      BY <2>3, <2>7, <3>1 DEF next
    <3>2. CASE k # 0
      BY <2>1, <2>3, <2>6, <3>2
    <3> QED BY <3>1, <3>2
  <2>9. ASSUME NEW i \in 1 .. k PROVE g[i + 1] = G[<<i, g[i]>>]
    <3>1. CASE i = k
      BY <2>3, <2>6, <2>7, <3>1 DEF next
    <3>2. CASE i \in 1 .. k - 1
      BY <2>1, <2>3, <2>6, <3>2
    <3> QED BY <2>3, <3>1, <3>2
  <2>10. Is(g, k + 1)
    BY <2>2, <2>5, <2>8, <2>9
  <2> QED BY <2>2, <2>10
<1>3. n \in 0 .. n
  BY SMT
<1>4. n \in S
  <2> HIDE DEF S
  <2> QED BY <1>1, <1>2, <1>3, UpTo
<1> QED BY <1>4 DEF Climbs

-----------------------------------------------------------------------------
(* What a sequence holds, and how that follows from its parts.             *)
LEMMA AppendElements ==
  ASSUME NEW T, NEW s \in Seq(T), NEW x \in T
  PROVE  Append(s, x) \in Seq(T) /\ Seqs!ToSet(Append(s, x)) = Seqs!ToSet(s) \cup {x}
<1>1. /\ Append(s, x) \in Seq(T) /\ Len(s) \in Nat /\ DOMAIN s = 1 .. Len(s)
      /\ DOMAIN Append(s, x) = 1 .. Len(s) + 1
      /\ Append(s, x)[Len(s) + 1] = x
      /\ \A i \in 1 .. Len(s) : Append(s, x)[i] = s[i]
  BY AppendProperties, LenProperties
<1>2. \A i : i \in 1 .. Len(s) + 1 <=> i \in 1 .. Len(s) \/ i = Len(s) + 1
  BY <1>1, SMT
<1> DEFINE n == Len(s)
           t == Append(s, x)
<1> HIDE DEF n, t
<1>3. Seqs!ToSet(t) = Seqs!ToSet(s) \cup {x}
  <2>1. DOMAIN t = 1 .. n + 1 /\ DOMAIN s = 1 .. n /\ t[n + 1] = x /\ \A i \in 1 .. n : t[i] = s[i]
    BY <1>1 DEF n, t
  <2>2. \A i : i \in 1 .. n + 1 <=> i \in 1 .. n \/ i = n + 1
    BY <1>2 DEF n
  <2> QED BY <2>1, <2>2 DEF Seqs!ToSet
<1> QED BY <1>1, <1>3 DEF t

LEMMA ConcatElements ==
  ASSUME NEW T, NEW s \in Seq(T), NEW t \in Seq(T)
  PROVE  s \o t \in Seq(T) /\ Seqs!ToSet(s \o t) = Seqs!ToSet(s) \cup Seqs!ToSet(t)
<1> DEFINE u == s \o t
           m == Len(s)
           n == Len(t)
<1>1. /\ u \in Seq(T) /\ Len(u) = m + n /\ m \in Nat /\ n \in Nat
      /\ DOMAIN s = 1 .. m /\ DOMAIN t = 1 .. n /\ DOMAIN u = 1 .. m + n
      /\ \A i \in 1 .. m + n : u[i] = IF i <= m THEN s[i] ELSE t[i - m]
  BY ConcatProperties, LenProperties
<1> HIDE DEF u, m, n
<1>2. /\ \A i \in 1 .. m : i \in 1 .. m + n /\ i <= m
      /\ \A i \in 1 .. n : i + m \in 1 .. m + n /\ ~(i + m <= m) /\ (i + m) - m = i
      /\ \A i \in 1 .. m + n : (i <= m /\ i \in 1 .. m) \/ (~(i <= m) /\ i - m \in 1 .. n)
  BY <1>1, SMT
<1>3. \A i \in 1 .. m : u[i] = s[i]
  BY <1>1, <1>2
<1>4. \A i \in 1 .. n : u[i + m] = t[i]
  BY <1>1, <1>2
<1>5. ASSUME NEW i \in 1 .. m + n
      PROVE  u[i] \in Seqs!ToSet(s) \cup Seqs!ToSet(t)
  <2>1. CASE i <= m
    <3>1. u[i] = s[i] /\ i \in DOMAIN s
      BY <1>1, <1>2, <2>1
    <3> QED BY <3>1 DEF Seqs!ToSet
  <2>2. CASE ~(i <= m)
    <3>1. u[i] = t[i - m] /\ i - m \in DOMAIN t
      BY <1>1, <1>2, <2>2
    <3> QED BY <3>1 DEF Seqs!ToSet
  <2> QED BY <2>1, <2>2
<1>6. Seqs!ToSet(u) = Seqs!ToSet(s) \cup Seqs!ToSet(t)
  <2>1. ASSUME NEW i \in DOMAIN s
        PROVE  s[i] \in Seqs!ToSet(u)
    <3>1. u[i] = s[i] /\ i \in DOMAIN u
      BY <1>1, <1>2, <1>3
    <3> QED BY <3>1 DEF Seqs!ToSet
  <2>2. ASSUME NEW i \in DOMAIN t
        PROVE  t[i] \in Seqs!ToSet(u)
    <3>1. u[i + m] = t[i] /\ i + m \in DOMAIN u
      BY <1>1, <1>2, <1>4
    <3> QED BY <3>1 DEF Seqs!ToSet
  <2>3. Seqs!ToSet(u) \subseteq Seqs!ToSet(s) \cup Seqs!ToSet(t)
    BY <1>1, <1>5 DEF Seqs!ToSet
  <2> QED BY <2>1, <2>2, <2>3 DEF Seqs!ToSet
<1> QED BY <1>1, <1>6 DEF u

(* What Without leaves.                                                    *)
WithoutStep(f, i, s, S) ==
  IF i = 0 THEN <<>>
  ELSE IF s[i] \in S THEN f[i - 1] ELSE Append(f[i - 1], s[i])

LEMMA WithoutIs ==
  ASSUME NEW s, NEW S
  PROVE  Without(s, S) = (CHOOSE f : f = [i \in 0 .. Len(s) |-> WithoutStep(f, i, s, S)])[Len(s)]
BY DEF Without, WithoutStep

(* w is made of items of s at increasing places, up to the k-th.           *)
Picked(w, s, k) ==
  \E at \in [1 .. Len(w) -> 1 .. k] :
    /\ \A i \in 1 .. Len(w) : w[i] = s[at[i]]
    /\ \A i \in 1 .. Len(w) : \A j \in 1 .. Len(w) : i < j => at[i] < at[j]

LEMMA PickedMore ==
  ASSUME NEW T, NEW w \in Seq(T), NEW s \in Seq(T), NEW k \in Nat, Picked(w, s, k)
  PROVE  /\ Picked(w, s, k + 1)
         /\ k + 1 <= Len(s) => Picked(Append(w, s[k + 1]), s, k + 1)
<1>1. PICK at \in [1 .. Len(w) -> 1 .. k] :
        /\ \A i \in 1 .. Len(w) : w[i] = s[at[i]]
        /\ \A i \in 1 .. Len(w) : \A j \in 1 .. Len(w) : i < j => at[i] < at[j]
  BY DEF Picked
<1>2. Len(w) \in Nat /\ DOMAIN s = 1 .. Len(s) /\ Len(s) \in Nat
  BY LenProperties
<1>3. \A x \in 1 .. k : x \in 1 .. k + 1 /\ x < k + 1
  BY SMT
<1>4. Picked(w, s, k + 1)
  <2>1. at \in [1 .. Len(w) -> 1 .. k + 1]
    BY <1>3
  <2> QED BY <1>1, <2>1 DEF Picked
<1>5. ASSUME k + 1 <= Len(s) PROVE Picked(Append(w, s[k + 1]), s, k + 1)
  <2> DEFINE x == s[k + 1]
             v == Append(w, x)
             n == Len(w)
             to == [i \in 1 .. n + 1 |-> IF i = n + 1 THEN k + 1 ELSE at[i]]
  <2>1. x \in T
    <3>1. k + 1 \in 1 .. Len(s)
      BY <1>2, <1>5, SMT
    <3> QED BY <3>1, ElementOfSeq
  <2>2. Len(v) = n + 1 /\ v[n + 1] = x /\ \A i \in 1 .. n : v[i] = w[i]
    BY <2>1, AppendProperties
  <2> HIDE DEF v
  <2>3. /\ \A i \in 1 .. n + 1 : i = n + 1 \/ i \in 1 .. n
        /\ \A i \in 1 .. n : i # n + 1 /\ i \in 1 .. n + 1 /\ ~(n + 1 < i)
        /\ n + 1 \in 1 .. n + 1 /\ ~(n + 1 < n + 1)
        /\ k + 1 \in 1 .. k + 1
    BY <1>2, SMT
  <2>4. to[n + 1] = k + 1 /\ \A i \in 1 .. n : to[i] = at[i]
    BY <2>3
  <2>5. to \in [1 .. n + 1 -> 1 .. k + 1]
    BY <1>1, <1>3, <2>3
  <2> HIDE DEF to, n
  <2>6. \A i \in 1 .. n : at[i] \in 1 .. k
    BY <1>1 DEF n
  <2>7. \A i \in 1 .. n + 1 : v[i] = s[to[i]]
    BY <1>1, <2>2, <2>3, <2>4 DEF n
  <2>8. ASSUME NEW i \in 1 .. n + 1, NEW j \in 1 .. n + 1, i < j PROVE to[i] < to[j]
    <3>1. i \in 1 .. n
      BY <1>2, <2>8, SMT DEF n
    <3>2. CASE j = n + 1
      BY <1>3, <2>4, <2>6, <3>1, <3>2
    <3>3. CASE j # n + 1
      <4>1. j \in 1 .. n
        BY <2>3, <3>3
      <4> QED BY <1>1, <2>4, <2>8, <3>1, <4>1 DEF n
    <3> QED BY <3>2, <3>3
  <2> QED BY <2>2, <2>5, <2>7, <2>8 DEF Picked, v
<1> QED BY <1>4, <1>5

LEMMA WithoutPicks ==
  ASSUME NEW T, NEW s \in Seq(T), NEW S
  PROVE  /\ Without(s, S) \in Seq(T)
         /\ Seqs!ToSet(Without(s, S)) = Seqs!ToSet(s) \ S
         /\ Len(Without(s, S)) <= Len(s)
         /\ Picked(Without(s, S), s, Len(s))
<1> DEFINE n == Len(s)
           Is(f) == f = [i \in 0 .. n |-> WithoutStep(f, i, s, S)]
           D == Seq(T)
           G == [z \in (1 .. n + 1) \X D |->
                   IF z[1] \in 1 .. n /\ s[z[1]] \notin S THEN Append(z[2], s[z[1]]) ELSE z[2]]
           g == CHOOSE f : Is(f)
<1>1. n \in Nat /\ n + 1 \in Nat /\ DOMAIN s = 1 .. n /\ \A i \in 1 .. n : s[i] \in T
  BY LenProperties, ElementOfSeq
<1>2. Without(s, S) = g[n]
  BY WithoutIs
<1>3. G \in [(1 .. n + 1) \X D -> D]
  <2>1. ASSUME NEW z \in (1 .. n + 1) \X D
        PROVE  (IF z[1] \in 1 .. n /\ s[z[1]] \notin S THEN Append(z[2], s[z[1]]) ELSE z[2]) \in D
    <3>1. z[2] \in Seq(T)
      OBVIOUS
    <3>2. z[1] \in 1 .. n => Append(z[2], s[z[1]]) \in Seq(T)
      BY <1>1, <3>1, AppendProperties
    <3> QED BY <3>1, <3>2
  <2> QED BY <2>1
<1>4. <<>> \in D
  BY EmptySeq
<1>5. \E f : Is(f)
  <2>1. PICK h : Climbs(h, n + 1, D, <<>>, G)
    <3> HIDE DEF D, G, n
    <3> QED BY <1>1, <1>3, <1>4, Recursion
  <2> DEFINE f == [i \in 0 .. n |-> h[i + 1]]
  <2>2. ASSUME NEW i \in 0 .. n PROVE f[i] = WithoutStep(f, i, s, S)
    <3>1. CASE i = 0
      <4>1. 0 + 1 = 1 /\ n + 1 >= 1
        BY <1>1, SMT
      <4> QED BY <2>1, <3>1, <4>1 DEF Climbs, WithoutStep
    <3>2. CASE i # 0
      <4>1. /\ i \in 1 .. (n + 1) - 1 /\ i \in 1 .. n /\ i \in 1 .. n + 1 /\ i - 1 \in 0 .. n
            /\ (i - 1) + 1 = i
        BY <1>1, <3>2, SMT
      <4>2. h[i + 1] = G[<<i, h[i]>>] /\ h[i] \in D
        BY <2>1, <4>1 DEF Climbs
      <4>3. h[i + 1] = IF s[i] \in S THEN h[i] ELSE Append(h[i], s[i])
        BY <4>1, <4>2
      <4>4. f[i] = h[i + 1] /\ f[i - 1] = h[i]
        BY <4>1
      <4> HIDE DEF f
      <4> QED BY <3>2, <4>3, <4>4 DEF WithoutStep
    <3> QED BY <3>1, <3>2
  <2> QED BY <2>2
<1>6. Is(g)
  <2> HIDE DEF Is
  <2> QED BY <1>5
<1>7. \A i \in 0 .. n : g[i] = WithoutStep(g, i, s, S)
  <2> HIDE DEF g
  <2> QED BY <1>6
<1> HIDE DEF g, n, D, G
<1> DEFINE Q == {k \in Nat : k <= n => /\ g[k] \in Seq(T)
                                       /\ Seqs!ToSet(g[k]) = {s[i] : i \in 1 .. k} \ S
                                       /\ Len(g[k]) <= k
                                       /\ Picked(g[k], s, k)}
<1>8. 0 \in Q
  <2>1. 1 .. 0 = {} /\ 0 \in 0 .. n /\ 0 \in Nat /\ 0 <= 0
    BY <1>1, SMT
  <2>2. g[0] = <<>>
    BY <1>7, <2>1 DEF WithoutStep
  <2>3. DOMAIN <<>> = {} /\ Len(<<>>) = 0 /\ <<>> \in Seq(T)
    BY EmptySeq
  <2>4. Seqs!ToSet(<<>>) = {}
    BY <2>3 DEF Seqs!ToSet
  <2>5. Picked(<<>>, s, 0)
    <3>1. [i \in 1 .. 0 |-> 0] \in [1 .. 0 -> 1 .. 0] /\ \A i \in 1 .. 0 : FALSE
      BY <2>1
    <3> QED BY <2>3, <3>1 DEF Picked
  <2> QED BY <2>1, <2>2, <2>3, <2>4, <2>5
<1>9. ASSUME NEW k \in 0 .. n - 1, k \in Q PROVE k + 1 \in Q
  <2>1. k <= n /\ k + 1 <= n /\ k + 1 \in 0 .. n /\ k + 1 \in 1 .. n /\ k + 1 \in Nat /\ k \in Nat
        /\ (k + 1) - 1 = k /\ k + 1 # 0
    BY <1>1, SMT
  <2>2. /\ g[k] \in Seq(T) /\ Seqs!ToSet(g[k]) = {s[i] : i \in 1 .. k} \ S
        /\ Len(g[k]) <= k /\ Picked(g[k], s, k)
    BY <1>9, <2>1
  <2>3. g[k + 1] = IF s[k + 1] \in S THEN g[k] ELSE Append(g[k], s[k + 1])
    BY <1>7, <2>1 DEF WithoutStep
  <2>4. \A i : i \in 1 .. k + 1 <=> i \in 1 .. k \/ i = k + 1
    BY <2>1, SMT
  <2>5. {s[i] : i \in 1 .. k + 1} = {s[i] : i \in 1 .. k} \cup {s[k + 1]}
    BY <2>4
  <2>6. s[k + 1] \in T /\ Len(g[k]) \in Nat
    BY <1>1, <2>1, <2>2, LenProperties
  <2>7. Picked(g[k], s, k + 1) /\ Picked(Append(g[k], s[k + 1]), s, k + 1)
    BY <2>1, <2>2, PickedMore DEF n
  <2>8. CASE s[k + 1] \in S
    <3>1. Len(g[k]) <= k + 1
      BY <2>1, <2>2, <2>6, SMT
    <3> QED BY <2>1, <2>2, <2>3, <2>5, <2>7, <2>8, <3>1
  <2>9. CASE s[k + 1] \notin S
    <3>1. /\ Append(g[k], s[k + 1]) \in Seq(T)
          /\ Seqs!ToSet(Append(g[k], s[k + 1])) = Seqs!ToSet(g[k]) \cup {s[k + 1]}
      BY <2>2, <2>6, AppendElements
    <3>2. Len(Append(g[k], s[k + 1])) = Len(g[k]) + 1
      BY <2>2, <2>6, AppendProperties
    <3>3. Len(g[k]) + 1 <= k + 1
      BY <2>1, <2>2, <2>6, SMT
    <3> QED BY <2>1, <2>2, <2>3, <2>5, <2>7, <2>9, <3>1, <3>2, <3>3
  <2> QED BY <2>8, <2>9
<1>10. n \in Q
  <2>1. \A k \in 0 .. n : k \in Q
    <3> HIDE DEF Q
    <3> QED BY <1>1, <1>8, <1>9, UpTo
  <2>2. n \in 0 .. n
    BY <1>1, SMT
  <2> QED BY <2>1, <2>2
<1>11. n <= n
  BY <1>1, SMT
<1>12. /\ g[n] \in Seq(T) /\ Seqs!ToSet(g[n]) = {s[i] : i \in 1 .. n} \ S
       /\ Len(g[n]) <= n /\ Picked(g[n], s, n)
  BY <1>10, <1>11
<1> QED BY <1>1, <1>2, <1>12 DEF Seqs!ToSet, n

(* What is unlike in s is unlike in what is left of it.                    *)
LEMMA WithoutDistinct ==
  ASSUME NEW T, NEW s \in Seq(T), NEW S, NEW key,
         \A i \in DOMAIN s : \A j \in DOMAIN s : key[s[i]] = key[s[j]] => i = j
  PROVE  LET w == Without(s, S)
         IN  \A i \in DOMAIN w : \A j \in DOMAIN w : key[w[i]] = key[w[j]] => i = j
<1> DEFINE w == Without(s, S)
<1>1. w \in Seq(T) /\ Picked(w, s, Len(s))
  BY WithoutPicks
<1> HIDE DEF w
<1>2. PICK at \in [1 .. Len(w) -> 1 .. Len(s)] :
        /\ \A i \in 1 .. Len(w) : w[i] = s[at[i]]
        /\ \A i \in 1 .. Len(w) : \A j \in 1 .. Len(w) : i < j => at[i] < at[j]
  BY <1>1 DEF Picked
<1>3. DOMAIN w = 1 .. Len(w) /\ DOMAIN s = 1 .. Len(s)
  BY <1>1, LenProperties
<1>4. ASSUME NEW i \in DOMAIN w, NEW j \in DOMAIN w, key[w[i]] = key[w[j]] PROVE i = j
  <2>1. i \in 1 .. Len(w) /\ j \in 1 .. Len(w) /\ at[i] \in 1 .. Len(s) /\ at[j] \in 1 .. Len(s)
    BY <1>2, <1>3
  <2>2. at[i] = at[j]
    BY <1>2, <1>3, <1>4, <2>1
  <2>3. ~(at[i] < at[j]) /\ ~(at[j] < at[i])
    BY <2>1, <2>2, SMT
  <2>4. ~(i < j) /\ ~(j < i)
    BY <1>2, <2>1, <2>3
  <2> QED BY <2>1, <2>4, SMT
<1> QED BY <1>4 DEF w
=============================================================================
