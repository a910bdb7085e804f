---------------------------- MODULE RouterProofs ----------------------------
(***************************************************************************)
(* Theorems about Router, for any tokens, users, paths and amounts.        *)
(*                                                                         *)
(* A router function is a chain of calls on tokens, on the wrapper and on  *)
(* pairs.  Sound says what holds of the world between any two of them and  *)
(* Kept what none of them may take from the holders of shares; each kind   *)
(* of call has a lemma, each router function is a chain of those lemmas,   *)
(* and swaps along a path are an induction over the hops.  RouterInv, the  *)
(* invariant of the system, is Sound with what the router itself holds and *)
(* the bounds of the signed messages.                                      *)
(***************************************************************************)
EXTENDS Router, AmmMathProofs, FiniteSetTheorems, NaturalsInduction, TLAPS

-----------------------------------------------------------------------------
(* Totals.  Units of f are pairs of an owner and a number, so that a sum   *)
(* over the accounts is the size of a set.                                 *)

Units(f) == UNION {{a} \X (1 .. f[a]) : a \in DOMAIN f}

LEMMA UnitsOf ==
  ASSUME NEW S, NEW f \in [S -> Nat], NEW x
  PROVE  x \in Units(f) <=> \E a \in S, i \in Nat : x = <<a, i>> /\ 1 <= i /\ i <= f[a]
<1>1. \A a \in S : f[a] \in Nat
  OBVIOUS
<1>2. x \in Units(f) <=> \E a \in S : x \in {a} \X (1 .. f[a])
  BY DEF Units
<1>3. \A a \in S : x \in {a} \X (1 .. f[a]) <=> \E i \in 1 .. f[a] : x = <<a, i>>
  OBVIOUS
<1>4. \A a \in S : \A i : i \in 1 .. f[a] <=> i \in Nat /\ 1 <= i /\ i <= f[a]
  BY <1>1, SMT
<1> QED BY <1>2, <1>3, <1>4

(* A total over finitely many accounts is a number,                        *)
LEMMA UnitsFinite ==
  ASSUME NEW S, IsFiniteSet(S), NEW f \in [S -> Nat]
  PROVE  IsFiniteSet(Units(f))
<1> DEFINE T == {{a} \X (1 .. f[a]) : a \in S}
           g == [a \in S |-> {a} \X (1 .. f[a])]
<1>1. g \in Surjection(S, T)
  BY DEF Surjection
<1>2. IsFiniteSet(T)
  BY <1>1, FS_Surjection
<1>3. \A a \in S : IsFiniteSet({a} \X (1 .. f[a]))
  <2> SUFFICES ASSUME NEW a \in S PROVE IsFiniteSet({a} \X (1 .. f[a]))
    OBVIOUS
  <2>1. f[a] \in Int
    BY SMT
  <2>2. IsFiniteSet({a})
    BY FS_Singleton
  <2>3. IsFiniteSet(1 .. f[a])
    BY <2>1, FS_Interval, 1 \in Int
  <2> QED BY <2>2, <2>3, FS_Product
<1>4. IsFiniteSet(UNION T)
  BY <1>2, <1>3, FS_UNION
<1>5. Units(f) = UNION T
  BY DEF Units
<1> QED BY <1>4, <1>5

LEMMA TotalType ==
  ASSUME NEW S, IsFiniteSet(S), NEW f \in [S -> Nat]
  PROVE  Total(f) \in Nat
BY UnitsFinite, FS_CardinalityType DEF Total, Units

(* none of nothing,                                                        *)
LEMMA TotalZero ==
  ASSUME NEW S, NEW f \in [S -> Nat], \A a \in S : f[a] = 0
  PROVE  Total(f) = 0
<1>1. Units(f) = {}
  BY UnitsOf, SMT
<1> QED BY <1>1, FS_EmptySet DEF Total, Units

(* More for one account is that much more in all.                          *)
More(f, a, n) == [f EXCEPT ![a] = f[a] + n]
Less(f, a, n) == [f EXCEPT ![a] = f[a] - n]

(* n more for one account is n more in total.                              *)
LEMMA TotalMore ==
  ASSUME NEW S, IsFiniteSet(S), NEW f \in [S -> Nat], NEW a \in S, NEW n \in Nat
  PROVE  Total(More(f, a, n)) = Total(f) + n
<1> DEFINE g == [f EXCEPT ![a] = f[a] + n]
           m == f[a]
           New == {a} \X (m + 1 .. m + n)
<1>1. m \in Nat /\ g \in [S -> Nat] /\ g[a] = m + n /\ \A b \in S : b # a => g[b] = f[b]
  OBVIOUS
<1>2. IsFiniteSet(New) /\ Cardinality(New) = n
  <2>1. IsFiniteSet(m + 1 .. m + n) /\ Cardinality(m + 1 .. m + n) = n
    <3>1. m + 1 \in Int /\ m + n \in Int
      BY <1>1
    <3>2. IsFiniteSet(m + 1 .. m + n)
          /\ Cardinality(m + 1 .. m + n) = IF m + 1 > m + n THEN 0 ELSE (m + n) - (m + 1) + 1
      BY <3>1, FS_Interval
    <3> QED BY <3>2, <1>1, SMT
  <2>2. IsFiniteSet({a}) /\ Cardinality({a}) = 1
    BY FS_Singleton
  <2>3. IsFiniteSet(New) /\ Cardinality(New) = Cardinality({a}) * Cardinality(m + 1 .. m + n)
    BY <2>1, <2>2, FS_Product
  <2> QED BY <2>1, <2>2, <2>3, SMT
<1>3. Units(g) = Units(f) \cup New
  <2> SUFFICES ASSUME NEW x PROVE x \in Units(g) <=> x \in Units(f) \/ x \in New
    OBVIOUS
  <2>1. x \in Units(g) <=> \E b \in S, i \in Nat : x = <<b, i>> /\ 1 <= i /\ i <= g[b]
    BY <1>1, UnitsOf
  <2>2. x \in Units(f) <=> \E b \in S, i \in Nat : x = <<b, i>> /\ 1 <= i /\ i <= f[b]
    BY UnitsOf
  <2>3. x \in New <=> \E i \in Nat : x = <<a, i>> /\ m + 1 <= i /\ i <= m + n
    BY <1>1, SMT
  <2>4. ASSUME x \in Units(g) PROVE x \in Units(f) \/ x \in New
    <3>1. PICK b \in S, i \in Nat : x = <<b, i>> /\ 1 <= i /\ i <= g[b]
      BY <2>1, <2>4
    <3>2. CASE b = a
      <4>1. i <= m \/ m + 1 <= i
        BY <1>1, SMT
      <4> QED BY <4>1, <3>1, <3>2, <2>2, <2>3, <1>1
    <3>3. CASE b # a
      BY <3>3, <3>1, <2>2, <1>1
    <3> QED BY <3>2, <3>3
  <2>5. ASSUME x \in Units(f) PROVE x \in Units(g)
    <3>1. PICK b \in S, i \in Nat : x = <<b, i>> /\ 1 <= i /\ i <= f[b]
      BY <2>2, <2>5
    <3>2. i <= g[b]
      BY <3>1, <1>1, SMT
    <3> QED BY <3>1, <3>2, <2>1
  <2>6. ASSUME x \in New PROVE x \in Units(g)
    <3>1. PICK i \in Nat : x = <<a, i>> /\ m + 1 <= i /\ i <= m + n
      BY <2>3, <2>6
    <3>2. 1 <= i /\ i <= g[a]
      BY <3>1, <1>1, SMT
    <3> QED BY <3>1, <3>2, <2>1
  <2> QED BY <2>4, <2>5, <2>6
<1>4. Units(f) \cap New = {}
  <2> SUFFICES ASSUME NEW x, x \in Units(f), x \in New PROVE FALSE
    OBVIOUS
  <2>1. PICK b \in S, i \in Nat : x = <<b, i>> /\ 1 <= i /\ i <= f[b]
    BY UnitsOf
  <2>2. x[1] = a /\ x[2] \in m + 1 .. m + n
    BY SMT
  <2>3. b = a /\ i \in m + 1 .. m + n
    BY <2>1, <2>2
  <2> QED BY <2>1, <2>3, <1>1, SMT
<1>5. IsFiniteSet(Units(f)) /\ Cardinality(Units(f)) \in Nat
  BY UnitsFinite, FS_CardinalityType
<1>6. Cardinality(Units(f) \cup New) = Cardinality(Units(f)) + n - Cardinality({})
  <2> HIDE DEF New
  <2> QED BY <1>2, <1>4, <1>5, FS_Union
<1>7. Total(g) = Cardinality(Units(g)) /\ Total(f) = Cardinality(Units(f))
  BY DEF Total, Units
<1>8. Total(g) = Total(f) + n
  <2> HIDE DEF g, New
  <2>1. Cardinality({}) = 0
    BY FS_EmptySet
  <2> QED BY <1>3, <1>5, <1>6, <1>7, <2>1, SMT
<1> QED BY <1>8 DEF g, More

(* Less for one account is that much less in all.                          *)
LEMMA TotalLess ==
  ASSUME NEW S, IsFiniteSet(S), NEW f \in [S -> Nat], NEW a \in S, NEW n \in 0 .. f[a]
  PROVE  Total(Less(f, a, n)) = Total(f) - n
<1> DEFINE g == Less(f, a, n)
<1>1. f[a] \in Nat /\ n \in Nat /\ f[a] - n \in Nat
  BY SMT
<1>2. g \in [S -> Nat] /\ g[a] + n = f[a]
  BY <1>1, SMT DEF Less
<1>3. f = More(g, a, n)
  BY <1>2 DEF Less, More
<1>4. Total(g) \in Nat
  BY <1>2, TotalType
<1> HIDE DEF g
<1>5. Total(More(g, a, n)) = Total(g) + n
  BY <1>1, <1>2, TotalMore
<1>6. Total(f) = Total(g) + n
  BY <1>3, <1>5
<1>7. Total(g) = Total(f) - n
  BY <1>1, <1>4, <1>6, SMT
<1> QED BY <1>7 DEF g

(* No two accounts have more than there is.                                *)
LEMMA TotalCovers ==
  ASSUME NEW S, IsFiniteSet(S), NEW f \in [S -> Nat], NEW a \in S, NEW b \in S, a # b
  PROVE  f[a] + f[b] <= Total(f)
<1> DEFINE g == Less(f, a, f[a])
           h == Less(g, b, g[b])
<1>1. f[a] \in 0 .. f[a] /\ f[a] - f[a] \in Nat
  BY SMT
<1>2. g \in [S -> Nat] /\ g[b] = f[b]
  BY <1>1 DEF Less
<1>3. Total(g) = Total(f) - f[a]
  BY <1>1, TotalLess
<1> HIDE DEF g
<1>4. g[b] \in 0 .. g[b] /\ g[b] - g[b] \in Nat
  BY <1>2, SMT
<1>5. h \in [S -> Nat]
  BY <1>2, <1>4 DEF Less
<1>6. Total(h) = Total(g) - g[b]
  BY <1>2, <1>4, TotalLess
<1> HIDE DEF h
<1>7. Total(h) \in Nat /\ Total(f) \in Nat
  BY <1>5, TotalType
<1>8. f[a] \in Nat /\ f[b] \in Nat
  OBVIOUS
<1> QED BY <1>2, <1>3, <1>6, <1>7, <1>8, SMT

-----------------------------------------------------------------------------
(* Accounts and pools.                                                     *)

(* Who is who: the accounts are finitely many and no two of them are one.  *)
LEMMA Accounts ==
  /\ IsFiniteSet(Account)
  /\ WKASH \in Account /\ Router \in Account /\ Zero \in Account
  /\ User \subseteq Account /\ Pool \subseteq Account
  /\ WKASH \in Token
  /\ Router \notin User \cup Pool \cup {WKASH, Zero}
  /\ WKASH \notin User \cup Pool \cup {Zero}
  /\ Zero \notin User \cup Pool
  /\ User \cap Pool = {}
<1>1. IsFiniteSet(SUBSET Token)
  BY LedgerAssumption, FS_SUBSET
<1>2. Pool \in SUBSET SUBSET Token
  BY DEF Pool, PairFor
<1>3. IsFiniteSet(Pool)
  BY <1>1, <1>2, FS_Subset
<1>4. IsFiniteSet(User \cup Pool)
  BY <1>3, LedgerAssumption, FS_Union
<1>5. IsFiniteSet({Router, WKASH, Zero})
  <2>1. IsFiniteSet({Router} \cup {WKASH})
    BY FS_Singleton, FS_AddElement
  <2>2. IsFiniteSet(({Router} \cup {WKASH}) \cup {Zero})
    BY <2>1, FS_AddElement
  <2>3. ({Router} \cup {WKASH}) \cup {Zero} = {Router, WKASH, Zero}
    OBVIOUS
  <2> QED BY <2>2, <2>3
<1>6. IsFiniteSet((User \cup Pool) \cup {Router, WKASH, Zero})
  BY <1>4, <1>5, FS_Union
<1>7. (User \cup Pool) \cup {Router, WKASH, Zero} = Account
  BY DEF Account
<1> QED BY <1>6, <1>7, LedgerAssumption DEF Account

(* A pool has two tokens.                                                  *)
LEMMA Sides ==
  ASSUME NEW a \in Token, NEW b \in Token, a # b
  PROVE  PairFor(a, b) \in Pool /\ PairFor(a, b) = {a, b} /\ PairFor(a, b) = PairFor(b, a)
<1>1. \A t \in Token : {a, b} # {t}
  OBVIOUS
<1> QED BY <1>1 DEF Pool, PairFor

(* A pool has two sides; each determines the other.                        *)
LEMMA TwoTokens ==
  ASSUME NEW p \in Pool
  PROVE  /\ \A t \in p : t \in Token
         /\ \E a, b \in Token : a # b /\ p = {a, b}
BY DEF Pool, PairFor

LEMMA TheOther ==
  ASSUME NEW p \in Pool, NEW t \in p, NEW s, s = CHOOSE x \in p : x # t
  PROVE  s \in p /\ s # t /\ p = {s, t}
<1>1. PICK a \in Token, b \in Token : a # b /\ p = {a, b}
  BY TwoTokens
<1>2. \E x \in p : x # t
  BY <1>1
<1>3. s \in p /\ s # t
  BY <1>2
<1> QED BY <1>1, <1>3

LEMMA TheFirst ==
  ASSUME NEW p \in Pool, NEW t, t = CHOOSE x \in p : TRUE
  PROVE  t \in p
<1>1. \E x \in p : TRUE
  BY TwoTokens
<1> QED BY <1>1

-----------------------------------------------------------------------------
(* The parts of a world.                                                   *)

LEMMA WorldParts ==
  ASSUME NEW w \in World
  PROVE  /\ w.tok \in [Token -> [Account -> Nat]]
         /\ w.kash \in [Account -> Nat]
         /\ w.pairs \in SUBSET Pool
         /\ w.reserve \in [Pool -> [Token -> Nat]]
         /\ w.lp \in [Pool -> [Account -> Nat]]
         /\ w.supply \in [Pool -> Nat]
         /\ w.allowance \in [Pool -> [User -> Nat]]
         /\ w.nonces \in [Pool -> [User -> Nat]]
BY DEF World

LEMMA DeliveredType ==
  ASSUME NEW t \in Token, NEW n \in Nat
  PROVE  /\ Delivered(t, n) \in Nat /\ Delivered(t, n) <= n
         /\ t \notin Taxed => Delivered(t, n) = n
<1>1. n \div TaxDivisor \in Nat /\ (n \div TaxDivisor) * TaxDivisor <= n
  BY LedgerAssumption, DivBounds, SMT
<1>2. n \div TaxDivisor <= n
  <2>1. (n \div TaxDivisor) * 1 <= (n \div TaxDivisor) * TaxDivisor
    BY <1>1, LedgerAssumption, MulMonotone, SMT
  <2>2. TaxDivisor \in Nat
    BY LedgerAssumption
  <2> QED BY <1>1, <2>1, <2>2, SMT
<1> QED BY <1>1, <1>2, SMT DEF Delivered

(* A transfer moves the amount and delivers what the tax leaves of it; of  *)
(* the world it changes nothing else.                                      *)
LEMMA TransferWorks ==
  ASSUME NEW w \in World, NEW t \in Token, NEW from \in Account, NEW to \in Account,
         NEW amount \in Nat, w.tok[t][from] >= amount,
         NEW v, v = Transfer(w, t, from, to, amount)
  PROVE  /\ v \in World
         /\ w.tok[t][from] >= amount
         /\ v = [w EXCEPT !.tok = v.tok]
         /\ \A s \in Token, a \in Account : (s # t \/ a \notin {from, to}) => v.tok[s][a] = w.tok[s][a]
         /\ from # to => /\ v.tok[t][from] = w.tok[t][from] - amount
                         /\ v.tok[t][to] = w.tok[t][to] + Delivered(t, amount)
         /\ from = to => v.tok[t][to] = w.tok[t][to] - amount + Delivered(t, amount)
<1> DEFINE d == Delivered(t, amount)
           sent == [w EXCEPT !.tok[t][from] = w.tok[t][from] - amount]
           x == [sent EXCEPT !.tok[t][to] = sent.tok[t][to] + d]
<1>1. v = x
  BY DEF Transfer, Require
<1>2. d \in Nat
  BY DeliveredType
<1>3. w.tok[t][from] \in Nat /\ w.tok[t][from] - amount \in Nat
  BY <1>1, WorldParts, SMT
<1> HIDE DEF d
<1>4. /\ sent \in World
      /\ sent = [w EXCEPT !.tok = sent.tok]
      /\ sent.tok[t][from] = w.tok[t][from] - amount
      /\ \A s \in Token, a \in Account : (s # t \/ a # from) => sent.tok[s][a] = w.tok[s][a]
  BY <1>3 DEF World
<1> HIDE DEF sent
<1>5. sent.tok[t][to] \in Nat /\ sent.tok[t][to] + d \in Nat
  BY <1>2, <1>4, WorldParts, SMT
<1>6. /\ x \in World
      /\ x = [sent EXCEPT !.tok = x.tok]
      /\ x.tok[t][to] = sent.tok[t][to] + d
      /\ \A s \in Token, a \in Account : (s # t \/ a # to) => x.tok[s][a] = sent.tok[s][a]
  BY <1>4, <1>5 DEF World
<1>7. x = [w EXCEPT !.tok = x.tok]
  BY <1>4, <1>6 DEF World
<1> HIDE DEF x
<1> QED BY <1>1, <1>4, <1>6, <1>7, SMT DEF d

(* What a transfer that goes through moves.                                *)
LEMMA TransferMoves ==
  ASSUME NEW w \in World, NEW t \in Token, NEW from \in Account, NEW to \in Account,
         NEW amount \in Nat, NEW v, v = Transfer(w, t, from, to, amount), v # Failed
  PROVE  /\ v \in World
         /\ w.tok[t][from] >= amount
         /\ v = [w EXCEPT !.tok = v.tok]
         /\ \A s \in Token, a \in Account : (s # t \/ a \notin {from, to}) => v.tok[s][a] = w.tok[s][a]
         /\ from # to => /\ v.tok[t][from] = w.tok[t][from] - amount
                         /\ v.tok[t][to] = w.tok[t][to] + Delivered(t, amount)
         /\ from = to => v.tok[t][to] = w.tok[t][to] - amount + Delivered(t, amount)
<1>1. w.tok[t][from] >= amount
  BY DEF Transfer, Require
<1> QED BY <1>1, TransferWorks

-----------------------------------------------------------------------------
(* What holds of the world between any two calls of a transaction.         *)

(* Every unit of wrapped KASH is backed.                                   *)
Backed(w) == w.kash[WKASH] = Total(w.tok[WKASH])

(* Every share is somebody's, and none the router's; a pool in use has     *)
(* shares locked at address zero and is registered.                        *)
Held(w) == \A p \in Pool : w.supply[p] = Total(w.lp[p]) /\ w.lp[p][Router] = 0
Locked(w) == \A p \in Pool : w.supply[p] > 0 => w.lp[p][Zero] > 0 /\ p \in w.pairs

(* Reserves are backed by balances.                                        *)
Covered(w) == \A p \in Pool : \A t \in p : w.reserve[p][t] <= w.tok[t][p]

Ledgers(w) == w \in World /\ Backed(w) /\ Held(w) /\ Locked(w)
Sound(w) == Ledgers(w) /\ Covered(w)

(* From w to v no share of a pool in use is worth less.                    *)
Product(w, p, a, b) == w.reserve[p][a] * w.reserve[p][b]
KeptFor(w, v, a, b) ==
  w.supply[PairFor(a, b)] > 0 =>
    /\ v.supply[PairFor(a, b)] > 0
    /\ Product(w, PairFor(a, b), a, b) * v.supply[PairFor(a, b)] * v.supply[PairFor(a, b)]
         <= Product(v, PairFor(a, b), a, b) * w.supply[PairFor(a, b)] * w.supply[PairFor(a, b)]
Kept(w, v) == \A a, b \in Token : a # b => KeptFor(w, v, a, b)

(* What calls on tokens and KASH leave alone.                              *)
SamePools(w, v) ==
  /\ v.pairs = w.pairs /\ v.reserve = w.reserve /\ v.lp = w.lp /\ v.supply = w.supply
  /\ v.allowance = w.allowance /\ v.nonces = w.nonces

LEMMA ProductType ==
  ASSUME NEW w \in World, NEW a \in Token, NEW b \in Token, a # b
  PROVE  Product(w, PairFor(a, b), a, b) \in Nat /\ w.supply[PairFor(a, b)] \in Nat
<1>1. PairFor(a, b) \in Pool
  BY Sides
<1>2. w.reserve[PairFor(a, b)][a] \in Nat /\ w.reserve[PairFor(a, b)][b] \in Nat
  BY <1>1, WorldParts
<1>3. w.supply[PairFor(a, b)] \in Nat
  BY <1>1, WorldParts
<1>4. \A x, y \in Nat : x * y \in Nat
  BY SMT
<1> QED BY <1>2, <1>3, <1>4 DEF Product

(* A call that touches no pool keeps the value of every share,             *)
LEMMA KeptWhenSame ==
  ASSUME NEW w \in World, NEW v, v.reserve = w.reserve, v.supply = w.supply
  PROVE  Kept(w, v)
<1> SUFFICES ASSUME NEW a \in Token, NEW b \in Token, a # b, w.supply[PairFor(a, b)] > 0
             PROVE  Product(w, PairFor(a, b), a, b) * w.supply[PairFor(a, b)] * w.supply[PairFor(a, b)]
                      <= Product(w, PairFor(a, b), a, b) * w.supply[PairFor(a, b)] * w.supply[PairFor(a, b)]
  BY DEF Kept, KeptFor, Product
<1>1. Product(w, PairFor(a, b), a, b) \in Nat /\ w.supply[PairFor(a, b)] \in Nat
  BY ProductType
<1>2. \A x, y \in Nat : x * y * y \in Nat
  BY SMT
<1>3. \A x \in Nat : x <= x
  BY SMT
<1> QED BY <1>1, <1>2, <1>3

(* and so do two calls that keep it, one after the other.                  *)
LEMMA KeptChained ==
  ASSUME NEW w \in World, NEW v \in World, NEW x \in World, Kept(w, v), Kept(v, x)
  PROVE  Kept(w, x)
<1> SUFFICES ASSUME NEW a \in Token, NEW b \in Token, a # b PROVE KeptFor(w, x, a, b)
  BY DEF Kept
<1>1. KeptFor(w, v, a, b) /\ KeptFor(v, x, a, b)
  BY DEF Kept
<1> DEFINE P == Product(w, PairFor(a, b), a, b)
           k == Product(v, PairFor(a, b), a, b)
           kk == Product(x, PairFor(a, b), a, b)
           S == w.supply[PairFor(a, b)]
           s == v.supply[PairFor(a, b)]
           t == x.supply[PairFor(a, b)]
<1>2. P \in Nat /\ k \in Nat /\ kk \in Nat /\ S \in Nat /\ s \in Nat /\ t \in Nat
  BY ProductType
<1>3. S > 0 => s > 0 /\ P * s * s <= k * S * S
  BY <1>1 DEF KeptFor
<1>4. s > 0 => t > 0 /\ k * t * t <= kk * s * s
  BY <1>1 DEF KeptFor
<1> HIDE DEF P, k, kk, S, s, t
<1>5. P * s * s = P * (s * s) /\ k * S * S = k * (S * S) /\ k * t * t = k * (t * t)
      /\ kk * s * s = kk * (s * s)
  BY <1>2, SMT
<1>6. S > 0 => t > 0 /\ P * t * t <= kk * S * S
  BY <1>2, <1>3, <1>4, <1>5, Chained
<1> QED BY <1>6 DEF KeptFor, P, kk, S, t

-----------------------------------------------------------------------------
(* Transfers.                                                              *)

(* A transfer keeps the ledgers: what the sender loses the recipient       *)
(* gains, or the tax burns.                                                *)
LEMMA TransferLedgers ==
  ASSUME NEW w, Ledgers(w), NEW t \in Token, NEW from \in Account, NEW to \in Account,
         NEW amount \in Nat, NEW v, v = Transfer(w, t, from, to, amount), v # Failed
  PROVE  Ledgers(v) /\ SamePools(w, v) /\ v.kash = w.kash
<1> w \in World /\ Backed(w)
  BY DEF Ledgers
<1>1. v \in World /\ v = [w EXCEPT !.tok = v.tok]
  BY TransferMoves
<1>2. SamePools(w, v) /\ v.kash = w.kash
  <2>1. w = [tok |-> w.tok, kash |-> w.kash, pairs |-> w.pairs, reserve |-> w.reserve, lp |-> w.lp,
             supply |-> w.supply, allowance |-> w.allowance, nonces |-> w.nonces]
    BY DEF World
  <2> QED BY <1>1, <2>1 DEF SamePools
<1>3. Held(v) /\ Locked(v)
  BY <1>2 DEF Ledgers, Held, Locked, SamePools
<1>4. Backed(v)
  <2>1. CASE t # WKASH
    <3>1. \A a \in Account : v.tok[WKASH][a] = w.tok[WKASH][a]
      BY <2>1, TransferMoves, Accounts
    <3>2. v.tok[WKASH] = w.tok[WKASH]
      BY <3>1, <1>1, WorldParts, Accounts
    <3> QED BY <3>2, <1>2 DEF Backed
  <2>2. CASE t = WKASH
    <3> DEFINE f == w.tok[WKASH]
               e == [f EXCEPT ![from] = f[from] - amount]
               g == [e EXCEPT ![to] = e[to] + amount]
    <3>1. f \in [Account -> Nat] /\ v.tok[WKASH] \in [Account -> Nat]
      BY <1>1, WorldParts, Accounts
    <3>2. amount <= f[from]
      BY <2>2, TransferMoves
    <3>3. amount \in 0 .. f[from]
      BY <3>1, <3>2, SMT
    <3>4. Delivered(WKASH, amount) = amount
      BY DeliveredType, Accounts, LedgerAssumption
    <3>5. \A a \in Account : v.tok[WKASH][a] = g[a]
      <4>1. /\ \A a \in Account : a \notin {from, to} => v.tok[WKASH][a] = f[a]
            /\ from # to => /\ v.tok[WKASH][from] = f[from] - amount
                            /\ v.tok[WKASH][to] = f[to] + amount
            /\ from = to => v.tok[WKASH][to] = f[to] - amount + amount
        BY <2>2, <3>4, TransferMoves
      <4> QED BY <4>1, <3>1
    <3>6. v.tok[WKASH] = g
      <4>1. DOMAIN g = Account
        BY <3>1
      <4> HIDE DEF g, f
      <4>2. v.tok[WKASH] = [a \in Account |-> v.tok[WKASH][a]]
        BY <3>1
      <4>3. g = [a \in Account |-> g[a]]
        BY <4>1 DEF g
      <4> QED BY <4>2, <4>3, <3>5
    <3>7. Total(g) = Total(f)
      <4>1. IsFiniteSet(Account)
        BY Accounts
      <4>2. e = Less(f, from, amount) /\ g = More(e, to, amount)
        BY DEF Less, More
      <4>3. f \in [Account -> Nat]
        BY <3>1
      <4> HIDE DEF f, e, g
      <4>4. Total(e) = Total(f) - amount
        BY <3>3, <4>1, <4>2, <4>3, TotalLess
      <4>5. e \in [Account -> Nat]
        BY <3>3, <4>2, <4>3, SMT DEF Less
      <4>6. Total(g) = Total(e) + amount
        BY <4>1, <4>2, <4>5, TotalMore
      <4>7. Total(f) \in Nat
        BY <4>1, <4>3, TotalType
      <4> QED BY <4>4, <4>6, <4>7, SMT
    <3> QED BY <3>6, <3>7, <1>2 DEF Backed
  <2> QED BY <2>1, <2>2
<1> QED BY <1>1, <1>2, <1>3, <1>4 DEF Ledgers

(* Pools lose nothing to a transfer by someone else.                       *)
LEMMA TransferSound ==
  ASSUME NEW w, Sound(w), NEW t \in Token, NEW from \in Account \ Pool, NEW to \in Account,
         NEW amount \in Nat, NEW v, v = Transfer(w, t, from, to, amount), v # Failed
  PROVE  Sound(v) /\ Kept(w, v) /\ SamePools(w, v) /\ v.kash = w.kash
<1>1. Ledgers(w) /\ w \in World
  BY DEF Sound, Ledgers
<1>2. Ledgers(v) /\ SamePools(w, v) /\ v.kash = w.kash /\ v \in World
  BY <1>1, TransferLedgers DEF Ledgers
<1>3. Covered(v)
  <2> SUFFICES ASSUME NEW p \in Pool, NEW s \in p PROVE w.reserve[p][s] <= v.tok[s][p]
    BY <1>2 DEF Covered, SamePools
  <2>1. s \in Token /\ p \in Account /\ p # from
    BY TwoTokens, Accounts
  <2>2. w.reserve[p][s] <= w.tok[s][p]
    BY DEF Sound, Covered
  <2>3. w.reserve[p][s] \in Nat /\ w.tok[s][p] \in Nat /\ Delivered(t, amount) \in Nat
    BY <1>1, <2>1, WorldParts, DeliveredType
  <2>4. v.tok[s][p] = w.tok[s][p] \/ v.tok[s][p] = w.tok[s][p] + Delivered(t, amount)
    BY <1>1, <2>1, TransferMoves
  <2> QED BY <2>2, <2>3, <2>4, SMT
<1>4. Kept(w, v)
  BY <1>1, <1>2, KeptWhenSame DEF SamePools
<1> QED BY <1>2, <1>3, <1>4 DEF Sound

-----------------------------------------------------------------------------
(* Native and wrapped KASH.                                                *)

SameTokens(w, v) == v.tok = w.tok

(* What a payment of native KASH between two accounts changes, neither of  *)
(* which is the wrapper.                                                   *)
Paid(w, from, to, value) ==
  [w EXCEPT !.kash[from] = w.kash[from] - value, !.kash[to] = w.kash[to] + value]

(* KASH that moves between accounts other than the wrapper moves nothing   *)
(* else.                                                                   *)
LEMMA KashSound ==
  ASSUME NEW w, Sound(w), NEW from \in Account \ {WKASH}, NEW to \in Account \ {WKASH}, from # to,
         NEW value \in Nat, value <= w.kash[from],
         NEW v, v = Paid(w, from, to, value)
  PROVE  /\ Sound(v) /\ Kept(w, v) /\ SamePools(w, v) /\ SameTokens(w, v)
         /\ v.kash[from] = w.kash[from] - value /\ v.kash[to] = w.kash[to] + value
         /\ \A a \in Account \ {from, to} : v.kash[a] = w.kash[a]
<1>1. w \in World
  BY DEF Sound, Ledgers
<1>2. w.kash[from] - value \in Nat /\ w.kash[to] + value \in Nat
  BY <1>1, WorldParts, SMT
<1>3. /\ v \in World
      /\ SamePools(w, v) /\ SameTokens(w, v)
      /\ v.kash[from] = w.kash[from] - value /\ v.kash[to] = w.kash[to] + value
      /\ \A a \in Account \ {from, to} : v.kash[a] = w.kash[a]
  BY <1>1, <1>2 DEF World, SamePools, SameTokens, Paid
<1>4. Backed(v)
  BY <1>3, Accounts DEF Sound, Ledgers, Backed, SameTokens
<1>5. Held(v) /\ Locked(v) /\ Covered(v)
  BY <1>3 DEF Sound, Ledgers, Held, Locked, Covered, SamePools, SameTokens
<1>6. Kept(w, v)
  BY <1>1, <1>3, KeptWhenSame DEF SamePools
<1> QED BY <1>3, <1>4, <1>5, <1>6 DEF Sound, Ledgers

(* msg.value arrives at the router.                                        *)
LEMMA PayInSound ==
  ASSUME NEW w, Sound(w), NEW from \in User, NEW value \in Nat,
         NEW v, v = PayIn(w, from, value), v # Failed
  PROVE  /\ Sound(v) /\ Kept(w, v) /\ SamePools(w, v) /\ SameTokens(w, v)
         /\ value <= w.kash[from]
         /\ v.kash[from] = w.kash[from] - value /\ v.kash[Router] = w.kash[Router] + value
         /\ \A a \in Account \ {from, Router} : v.kash[a] = w.kash[a]
<1>1. w.kash[from] >= value
      /\ v = Paid(w, from, Router, value)
  BY Accounts DEF PayIn, Require, Paid
<1>2. from \in Account \ {WKASH} /\ Router \in Account \ {WKASH} /\ from # Router
  BY Accounts
<1>3. w.kash[from] \in Nat
  BY <1>2, WorldParts DEF Sound, Ledgers
<1>4. value <= w.kash[from]
  BY <1>1, <1>3, SMT
<1> QED BY <1>1, <1>2, <1>4, KashSound

(* The router sends KASH it holds to a user.                               *)
LEMMA SendSound ==
  ASSUME NEW w, Sound(w), NEW to \in User, NEW value \in Nat,
         NEW v, v = SendKash(w, Router, to, value), v # Failed
  PROVE  /\ Sound(v) /\ Kept(w, v) /\ SamePools(w, v) /\ SameTokens(w, v)
         /\ value <= w.kash[Router]
         /\ v.kash[to] = w.kash[to] + value /\ v.kash[Router] = w.kash[Router] - value
         /\ \A a \in Account \ {Router, to} : v.kash[a] = w.kash[a]
<1>1. w.kash[Router] >= value
      /\ v = Paid(w, Router, to, value)
  BY Accounts DEF SendKash, Require, Paid
<1>2. to \in Account \ {WKASH} /\ Router \in Account \ {WKASH} /\ to # Router
  BY Accounts
<1>3. w.kash[Router] \in Nat
  BY <1>2, WorldParts DEF Sound, Ledgers
<1>4. value <= w.kash[Router]
  BY <1>1, <1>3, SMT
<1> QED BY <1>1, <1>2, <1>4, KashSound

(* deposit() of KASH that the router has goes through, and moves nothing   *)
(* but that KASH and as much wrapped KASH.                                 *)
LEMMA DepositWorks ==
  ASSUME NEW w, Sound(w), NEW value \in Nat, w.kash[Router] >= value,
         NEW v, v = Deposit(w, Router, value)
  PROVE  /\ Sound(v) /\ Kept(w, v) /\ SamePools(w, v)
         /\ v.kash[Router] = w.kash[Router] - value
         /\ \A a \in Account \ {Router, WKASH} : v.kash[a] = w.kash[a]
         /\ v.tok[WKASH][Router] = w.tok[WKASH][Router] + value
         /\ \A t \in Token, a \in Account : (t # WKASH \/ a # Router) => v.tok[t][a] = w.tok[t][a]
<1>1. w \in World /\ WKASH \in Token /\ WKASH \in Account /\ Router \in Account /\ Router # WKASH
  BY Accounts DEF Sound, Ledgers
<1>2. w.kash[Router] >= value
      /\ v = [w EXCEPT !.kash[Router] = w.kash[Router] - value, !.kash[WKASH] = w.kash[WKASH] + value,
                       !.tok[WKASH][Router] = w.tok[WKASH][Router] + value]
  BY <1>1 DEF Deposit, Require
<1>3. w.kash[Router] - value \in Nat /\ w.kash[WKASH] + value \in Nat
      /\ w.tok[WKASH][Router] + value \in Nat
  BY <1>1, <1>2, WorldParts, SMT
<1> DEFINE kash == [w.kash EXCEPT ![Router] = w.kash[Router] - value,
                                  ![WKASH] = w.kash[WKASH] + value]
           tok == [w.tok EXCEPT ![WKASH][Router] = w.tok[WKASH][Router] + value]
<1>4. w = [tok |-> w.tok, kash |-> w.kash, pairs |-> w.pairs, reserve |-> w.reserve, lp |-> w.lp,
           supply |-> w.supply, allowance |-> w.allowance, nonces |-> w.nonces]
  BY <1>1 DEF World
<1>5. v = [tok |-> tok, kash |-> kash, pairs |-> w.pairs, reserve |-> w.reserve, lp |-> w.lp,
           supply |-> w.supply, allowance |-> w.allowance, nonces |-> w.nonces]
  BY <1>2, <1>4
<1>6. /\ kash \in [Account -> Nat]
      /\ kash[Router] = w.kash[Router] - value /\ kash[WKASH] = w.kash[WKASH] + value
      /\ \A a \in Account \ {Router, WKASH} : kash[a] = w.kash[a]
  BY <1>1, <1>3, WorldParts
<1>7. /\ tok \in [Token -> [Account -> Nat]]
      /\ tok[WKASH] = [w.tok[WKASH] EXCEPT ![Router] = w.tok[WKASH][Router] + value]
      /\ tok[WKASH][Router] = w.tok[WKASH][Router] + value
      /\ \A t \in Token, a \in Account : (t # WKASH \/ a # Router) => tok[t][a] = w.tok[t][a]
  BY <1>1, <1>3, WorldParts
<1> HIDE DEF kash, tok
<1>8. v \in World
  BY <1>1, <1>5, <1>6, <1>7, WorldParts DEF World
<1>9. SamePools(w, v) /\ v.kash = kash /\ v.tok = tok
  BY <1>5 DEF SamePools
<1>10. /\ v \in World /\ SamePools(w, v)
       /\ v.kash[Router] = w.kash[Router] - value
       /\ v.kash[WKASH] = w.kash[WKASH] + value
       /\ \A a \in Account \ {Router, WKASH} : v.kash[a] = w.kash[a]
       /\ v.tok[WKASH] = [w.tok[WKASH] EXCEPT ![Router] = w.tok[WKASH][Router] + value]
       /\ v.tok[WKASH][Router] = w.tok[WKASH][Router] + value
       /\ \A t \in Token, a \in Account : (t # WKASH \/ a # Router) => v.tok[t][a] = w.tok[t][a]
  BY <1>6, <1>7, <1>8, <1>9
<1>11. Backed(v)
  <2>1. w.tok[WKASH] \in [Account -> Nat]
    BY <1>1, WorldParts
  <2>2. IsFiniteSet(Account)
    BY Accounts
  <2>3. Total(More(w.tok[WKASH], Router, value)) = Total(w.tok[WKASH]) + value
    BY <1>1, <2>1, <2>2, TotalMore
  <2>4. v.tok[WKASH] = More(w.tok[WKASH], Router, value)
    BY <1>10 DEF More
  <2> QED BY <1>10, <2>3, <2>4 DEF Sound, Ledgers, Backed
<1>12. Covered(v)
  <2> SUFFICES ASSUME NEW p \in Pool, NEW s \in p PROVE v.reserve[p][s] <= v.tok[s][p]
    BY DEF Covered
  <2>1. s \in Token /\ p \in Account /\ p # Router
    BY TwoTokens, Accounts
  <2> QED BY <1>10, <2>1 DEF Sound, Covered, SamePools
<1>13. Held(v) /\ Locked(v)
  BY <1>10 DEF Sound, Ledgers, Held, Locked, SamePools
<1>14. Kept(w, v)
  BY <1>1, <1>10, KeptWhenSame DEF SamePools
<1> QED BY <1>2, <1>10, <1>11, <1>12, <1>13, <1>14 DEF Sound, Ledgers

(* A deposit that went through was one of KASH that the router had.        *)
LEMMA DepositSound ==
  ASSUME NEW w, Sound(w), NEW value \in Nat, NEW v, v = Deposit(w, Router, value), v # Failed
  PROVE  /\ Sound(v) /\ Kept(w, v) /\ SamePools(w, v)
         /\ value <= w.kash[Router]
         /\ v.kash[Router] = w.kash[Router] - value
         /\ \A a \in Account \ {Router, WKASH} : v.kash[a] = w.kash[a]
         /\ v.tok[WKASH][Router] = w.tok[WKASH][Router] + value
         /\ \A t \in Token, a \in Account : (t # WKASH \/ a # Router) => v.tok[t][a] = w.tok[t][a]
<1>1. w.kash[Router] >= value
  BY DEF Deposit, Require
<1>2. w.kash[Router] \in Nat
  BY Accounts, WorldParts DEF Sound, Ledgers
<1>3. value <= w.kash[Router]
  BY <1>1, <1>2, SMT
<1> QED BY <1>1, <1>3, DepositWorks

(* Unwrapping gives back as much as it destroys.                           *)
LEMMA WithdrawnSound ==
  ASSUME NEW w, Sound(w), NEW value \in Nat, w.tok[WKASH][Router] >= value,
         NEW v, v = Withdraw(w, Router, value)
  PROVE  /\ Sound(v) /\ Kept(w, v) /\ SamePools(w, v)
         /\ value <= w.tok[WKASH][Router]
         /\ v.kash[Router] = w.kash[Router] + value
         /\ \A a \in Account \ {Router, WKASH} : v.kash[a] = w.kash[a]
         /\ v.tok[WKASH][Router] = w.tok[WKASH][Router] - value
         /\ \A t \in Token, a \in Account : (t # WKASH \/ a # Router) => v.tok[t][a] = w.tok[t][a]
<1>1. w \in World /\ WKASH \in Token /\ WKASH \in Account /\ Router \in Account /\ Router # WKASH
  BY Accounts DEF Sound, Ledgers
<1> DEFINE u == [w EXCEPT !.tok[WKASH][Router] = w.tok[WKASH][Router] - value]
<1>2. w.tok[WKASH][Router] - value \in Nat /\ value <= w.tok[WKASH][Router]
  BY <1>1, WorldParts, SMT
<1>3. /\ u \in World /\ SamePools(w, u) /\ u.kash = w.kash
      /\ u.tok[WKASH] = [w.tok[WKASH] EXCEPT ![Router] = w.tok[WKASH][Router] - value]
      /\ u.tok[WKASH][Router] = w.tok[WKASH][Router] - value
      /\ \A t \in Token, a \in Account : (t # WKASH \/ a # Router) => u.tok[t][a] = w.tok[t][a]
  BY <1>1, <1>2 DEF World, SamePools
<1>4. u # Failed /\ v = SendKash(u, WKASH, Router, value)
  <2>1. u # Failed
    BY <1>3, LedgerAssumption
  <2> QED BY <1>1, <2>1 DEF Withdraw, Require, Then
<1> HIDE DEF u
<1>5. u.kash[WKASH] >= value
  <2>1. w.tok[WKASH] \in [Account -> Nat] /\ IsFiniteSet(Account)
    BY <1>1, WorldParts, Accounts
  <2>2. w.tok[WKASH][Router] + w.tok[WKASH][WKASH] <= Total(w.tok[WKASH])
    BY <1>1, <2>1, TotalCovers
  <2>3. /\ w.tok[WKASH][Router] \in Nat /\ w.tok[WKASH][WKASH] \in Nat
        /\ Total(w.tok[WKASH]) \in Nat /\ w.kash[WKASH] = Total(w.tok[WKASH])
    BY <1>1, <2>1, TotalType DEF Sound, Ledgers, Backed
  <2>4. w.kash[WKASH] >= value
    BY <1>2, <2>2, <2>3, SMT
  <2> QED BY <1>3, <2>4
<1>6. v = [u EXCEPT !.kash[WKASH] = u.kash[WKASH] - value, !.kash[Router] = u.kash[Router] + value]
  BY <1>1, <1>4, <1>5 DEF SendKash, Require
<1>7. u.kash[WKASH] - value \in Nat /\ u.kash[Router] + value \in Nat
  BY <1>1, <1>3, <1>5, WorldParts, SMT
<1> DEFINE kash == [u.kash EXCEPT ![WKASH] = u.kash[WKASH] - value,
                                  ![Router] = u.kash[Router] + value]
<1>8. u = [tok |-> u.tok, kash |-> u.kash, pairs |-> u.pairs, reserve |-> u.reserve, lp |-> u.lp,
           supply |-> u.supply, allowance |-> u.allowance, nonces |-> u.nonces]
  BY <1>3 DEF World
<1>9. v = [tok |-> u.tok, kash |-> kash, pairs |-> u.pairs, reserve |-> u.reserve, lp |-> u.lp,
           supply |-> u.supply, allowance |-> u.allowance, nonces |-> u.nonces]
  BY <1>6, <1>8
<1>10. /\ kash \in [Account -> Nat]
       /\ kash[Router] = u.kash[Router] + value /\ kash[WKASH] = u.kash[WKASH] - value
       /\ \A a \in Account \ {Router, WKASH} : kash[a] = u.kash[a]
  BY <1>1, <1>3, <1>7, WorldParts
<1> HIDE DEF kash
<1>11. v \in World
  BY <1>3, <1>9, <1>10, WorldParts DEF World
<1>12. /\ v \in World /\ SamePools(u, v) /\ v.tok = u.tok
       /\ v.kash[WKASH] = u.kash[WKASH] - value
       /\ v.kash[Router] = u.kash[Router] + value
       /\ \A a \in Account \ {Router, WKASH} : v.kash[a] = u.kash[a]
  BY <1>9, <1>10, <1>11 DEF SamePools
<1>13. SamePools(w, v)
  BY <1>3, <1>12 DEF SamePools
<1>14. Backed(v)
  <2>1. w.tok[WKASH] \in [Account -> Nat]
    BY <1>1, WorldParts
  <2>2. IsFiniteSet(Account)
    BY Accounts
  <2>3. w.tok[WKASH][Router] \in Nat
    BY <1>1, <2>1
  <2>4. value \in 0 .. w.tok[WKASH][Router]
    BY <1>2, <2>3, SMT
  <2>5. Total(Less(w.tok[WKASH], Router, value)) = Total(w.tok[WKASH]) - value
    BY <1>1, <2>1, <2>2, <2>4, TotalLess
  <2>6. v.tok[WKASH] = Less(w.tok[WKASH], Router, value)
    BY <1>3, <1>12 DEF Less
  <2> QED BY <1>3, <1>12, <2>5, <2>6 DEF Sound, Ledgers, Backed
<1>15. Covered(v)
  <2> SUFFICES ASSUME NEW p \in Pool, NEW s \in p PROVE v.reserve[p][s] <= v.tok[s][p]
    BY DEF Covered
  <2>1. s \in Token /\ p \in Account /\ p # Router
    BY TwoTokens, Accounts
  <2> QED BY <1>3, <1>12, <1>13, <2>1 DEF Sound, Covered, SamePools
<1>16. Held(v) /\ Locked(v)
  BY <1>13 DEF Sound, Ledgers, Held, Locked, SamePools
<1>17. Kept(w, v)
  BY <1>1, <1>13, KeptWhenSame DEF SamePools
<1> QED BY <1>2, <1>3, <1>12, <1>13, <1>14, <1>15, <1>16, <1>17 DEF Sound, Ledgers

(* withdraw burns as much wrapped KASH as it releases.                     *)
LEMMA WithdrawSound ==
  ASSUME NEW w, Sound(w), NEW value \in Nat, NEW v, v = Withdraw(w, Router, value), v # Failed
  PROVE  /\ Sound(v) /\ Kept(w, v) /\ SamePools(w, v)
         /\ value <= w.tok[WKASH][Router]
         /\ v.kash[Router] = w.kash[Router] + value
         /\ \A a \in Account \ {Router, WKASH} : v.kash[a] = w.kash[a]
         /\ v.tok[WKASH][Router] = w.tok[WKASH][Router] - value
         /\ \A t \in Token, a \in Account : (t # WKASH \/ a # Router) => v.tok[t][a] = w.tok[t][a]
<1>1. w.tok[WKASH][Router] >= value
  BY DEF Withdraw, Require, Then
<1> QED BY <1>1, WithdrawnSound

-----------------------------------------------------------------------------
(* LP shares and the registry.                                             *)

SameMoney(w, v) == v.tok = w.tok /\ v.kash = w.kash

(* Shares that move to a pool keep their total.                            *)
LEMMA PulledSound ==
  ASSUME NEW w, Sound(w), NEW p \in Pool, NEW owner \in User, NEW shares \in Nat,
         w.allowance[p][owner] >= shares, w.lp[p][owner] >= shares,
         NEW v, v = PullShares(w, p, owner, shares)
  PROVE  /\ Sound(v) /\ Kept(w, v) /\ SameMoney(w, v)
         /\ v.pairs = w.pairs /\ v.reserve = w.reserve /\ v.supply = w.supply /\ v.nonces = w.nonces
         /\ v.lp[p][p] = w.lp[p][p] + shares
<1>1. w \in World /\ owner \in Account /\ p \in Account /\ owner # p /\ owner # Zero /\ owner # Router
      /\ p # Zero /\ p # Router
  BY Accounts DEF Sound, Ledgers
<1> DEFINE left == AllowanceLeft(w, p, owner, shares)
           e == [w.lp[p] EXCEPT ![owner] = w.lp[p][owner] - shares]
           f == [e EXCEPT ![p] = e[p] + shares]
           lp == [w.lp EXCEPT ![p] = f]
           allowance == [w.allowance EXCEPT ![p][owner] = left]
<1>2. w.allowance[p][owner] >= shares /\ w.lp[p][owner] >= shares
      /\ v = [w EXCEPT !.allowance[p][owner] = left,
                       !.lp[p][owner] = w.lp[p][owner] - shares, !.lp[p][p] = w.lp[p][p] + shares]
  BY <1>1 DEF PullShares, Require
<1>3. w.lp[p] \in [Account -> Nat] /\ w.allowance[p][owner] \in Nat
  BY <1>1, WorldParts
<1>4. w.lp[p][owner] \in Nat /\ w.lp[p][p] \in Nat /\ w.lp[p][owner] - shares \in Nat
  BY <1>1, <1>2, <1>3, SMT
<1>5. left \in Nat
  BY <1>2, <1>3, UnlimitedAssumption, SMT DEF AllowanceLeft
<1> HIDE DEF left
<1>6. e \in [Account -> Nat] /\ e[p] = w.lp[p][p] /\ e[Zero] = w.lp[p][Zero] /\ e[Router] = w.lp[p][Router]
  BY <1>1, <1>3, <1>4, Accounts
<1>7. Total(e) = Total(w.lp[p]) - shares
  <2>1. shares \in 0 .. w.lp[p][owner]
    BY <1>2, <1>4, SMT
  <2>2. e = Less(w.lp[p], owner, shares)
    BY DEF Less
  <2>3. IsFiniteSet(Account)
    BY Accounts
  <2> QED BY <1>1, <1>3, <2>1, <2>2, <2>3, TotalLess
<1> HIDE DEF e
<1>8. e[p] + shares \in Nat
  BY <1>4, <1>6, SMT
<1>9. f \in [Account -> Nat] /\ f[p] = w.lp[p][p] + shares /\ f[Zero] = w.lp[p][Zero]
      /\ f[Router] = w.lp[p][Router]
  BY <1>1, <1>6, <1>8
<1>10. Total(f) = Total(w.lp[p])
  <2>1. IsFiniteSet(Account)
    BY Accounts
  <2>2. f = More(e, p, shares)
    BY DEF More
  <2>3. Total(More(e, p, shares)) = Total(e) + shares
    BY <1>1, <1>6, <2>1, TotalMore
  <2>4. Total(w.lp[p]) \in Nat
    BY <1>3, <2>1, TotalType
  <2> HIDE DEF f
  <2> QED BY <1>7, <2>2, <2>3, <2>4, SMT
<1>11. w = [tok |-> w.tok, kash |-> w.kash, pairs |-> w.pairs, reserve |-> w.reserve, lp |-> w.lp,
            supply |-> w.supply, allowance |-> w.allowance, nonces |-> w.nonces]
  BY <1>1 DEF World
<1>12. v = [tok |-> w.tok, kash |-> w.kash, pairs |-> w.pairs, reserve |-> w.reserve, lp |-> lp,
            supply |-> w.supply, allowance |-> allowance, nonces |-> w.nonces]
  <2>1. e[p] = w.lp[p][p] /\ w.lp \in [Pool -> [Account -> Nat]]
    BY <1>1, <1>6, WorldParts
  <2>2. lp = [w.lp EXCEPT ![p][owner] = w.lp[p][owner] - shares, ![p][p] = w.lp[p][p] + shares]
    BY <2>1 DEF e
  <2>3. v = [w EXCEPT !.allowance = allowance, !.lp = lp]
    BY <1>2, <2>2
  <2> HIDE DEF f, lp, allowance
  <2> QED BY <1>11, <2>3
<1> HIDE DEF f
<1>13. lp \in [Pool -> [Account -> Nat]] /\ lp[p] = f /\ \A q \in Pool \ {p} : lp[q] = w.lp[q]
  BY <1>1, <1>9, WorldParts
<1>14. allowance \in [Pool -> [User -> Nat]]
  BY <1>1, <1>5, WorldParts
<1> HIDE DEF lp, allowance
<1>15. /\ v \in World /\ SameMoney(w, v) /\ v.lp = lp
       /\ v.pairs = w.pairs /\ v.reserve = w.reserve /\ v.supply = w.supply /\ v.nonces = w.nonces
  BY <1>1, <1>12, <1>13, <1>14, WorldParts DEF World, SameMoney
<1>16. Held(v)
  BY <1>9, <1>10, <1>13, <1>15 DEF Sound, Ledgers, Held
<1>17. Locked(v)
  BY <1>9, <1>13, <1>15 DEF Sound, Ledgers, Locked
<1>18. Backed(v) /\ Covered(v)
  BY <1>15 DEF Sound, Ledgers, Backed, Covered, SameMoney
<1>19. Kept(w, v)
  BY <1>1, <1>15, KeptWhenSame
<1> QED BY <1>9, <1>13, <1>15, <1>16, <1>17, <1>18, <1>19 DEF Sound, Ledgers

(* transferFrom spends an allowance and moves shares.                      *)
LEMMA PullSound ==
  ASSUME NEW w, Sound(w), NEW p \in Pool, NEW owner \in User, NEW shares \in Nat,
         NEW v, v = PullShares(w, p, owner, shares), v # Failed
  PROVE  /\ Sound(v) /\ Kept(w, v) /\ SameMoney(w, v)
         /\ v.pairs = w.pairs /\ v.reserve = w.reserve /\ v.supply = w.supply /\ v.nonces = w.nonces
         /\ v.lp[p][p] = w.lp[p][p] + shares
<1>1. w.allowance[p][owner] >= shares /\ w.lp[p][owner] >= shares
  BY DEF PullShares, Require
<1> QED BY <1>1, PulledSound

(* approve and permit touch no share and no balance.                       *)
LEMMA ApproveSound ==
  ASSUME NEW w, Sound(w), NEW p \in Pool, NEW owner \in User, NEW value \in Nat,
         NEW v, v = ApproveRouter(w, p, owner, value)
  PROVE  /\ Sound(v) /\ Kept(w, v) /\ SameMoney(w, v)
         /\ v.pairs = w.pairs /\ v.reserve = w.reserve /\ v.lp = w.lp /\ v.supply = w.supply
         /\ v.nonces = w.nonces /\ v.allowance[p][owner] = value
<1>1. w \in World
  BY DEF Sound, Ledgers
<1>2. /\ v \in World /\ SameMoney(w, v)
      /\ v.pairs = w.pairs /\ v.reserve = w.reserve /\ v.lp = w.lp /\ v.supply = w.supply
      /\ v.nonces = w.nonces /\ v.allowance[p][owner] = value
  BY <1>1 DEF ApproveRouter, World, SameMoney
<1>3. Kept(w, v)
  BY <1>1, <1>2, KeptWhenSame
<1> QED BY <1>2, <1>3 DEF Sound, Ledgers, Backed, Held, Locked, Covered, SameMoney

LEMMA PermitSound ==
  ASSUME NEW w, Sound(w), NEW m \in Message, Approvals \subseteq Nat, NEW time,
         NEW v, v = Permit(w, m, time), v # Failed
  PROVE  /\ Sound(v) /\ Kept(w, v) /\ SameMoney(w, v)
         /\ v.pairs = w.pairs /\ v.reserve = w.reserve /\ v.lp = w.lp /\ v.supply = w.supply
         /\ v.nonces = [w.nonces EXCEPT ![m.pool][m.owner] = m.nonce + 1]
<1>1. w \in World
  BY DEF Sound, Ledgers
<1>2. m.pool \in Pool /\ m.owner \in User /\ m.value \in Nat
  BY DEF Message
<1> DEFINE u == [w EXCEPT !.nonces[m.pool][m.owner] = w.nonces[m.pool][m.owner] + 1]
<1>3. m.nonce = w.nonces[m.pool][m.owner] /\ v = ApproveRouter(u, m.pool, m.owner, m.value)
  BY DEF Permit, Require, PermitLive
<1>4. w.nonces[m.pool][m.owner] + 1 \in Nat
  BY <1>1, <1>2, WorldParts, SMT
<1>5. /\ u \in World /\ SameMoney(w, u)
      /\ u.pairs = w.pairs /\ u.reserve = w.reserve /\ u.lp = w.lp /\ u.supply = w.supply
      /\ u.nonces = [w.nonces EXCEPT ![m.pool][m.owner] = m.nonce + 1]
  BY <1>1, <1>2, <1>3, <1>4 DEF World, SameMoney
<1> HIDE DEF u
<1>6. Sound(u)
  BY <1>5 DEF Sound, Ledgers, Backed, Held, Locked, Covered, SameMoney
<1>7. /\ Sound(v) /\ SameMoney(u, v)
      /\ v.pairs = u.pairs /\ v.reserve = u.reserve /\ v.lp = u.lp /\ v.supply = u.supply
      /\ v.nonces = u.nonces
  BY <1>2, <1>3, <1>6, ApproveSound
<1>8. Kept(w, v)
  BY <1>1, <1>5, <1>7, KeptWhenSame
<1> QED BY <1>5, <1>7, <1>8 DEF SameMoney

(* createPair registers a pool that has no shares yet.                     *)
LEMMA EnsureSound ==
  ASSUME NEW w, Sound(w), NEW p \in Pool, NEW v, v = EnsurePair(w, p)
  PROVE  /\ Sound(v) /\ Kept(w, v) /\ SameMoney(w, v)
         /\ v.reserve = w.reserve /\ v.lp = w.lp /\ v.supply = w.supply /\ v.nonces = w.nonces
         /\ p \in v.pairs
<1>1. w \in World
  BY DEF Sound, Ledgers
<1>2. /\ v \in World /\ SameMoney(w, v)
      /\ v.reserve = w.reserve /\ v.lp = w.lp /\ v.supply = w.supply /\ v.nonces = w.nonces
      /\ v.pairs = w.pairs \cup {p}
  BY <1>1 DEF EnsurePair, World, SameMoney
<1>3. Kept(w, v)
  BY <1>1, <1>2, KeptWhenSame
<1> QED BY <1>2, <1>3 DEF Sound, Ledgers, Backed, Held, Locked, Covered, SameMoney

-----------------------------------------------------------------------------
(* The functions of a pair.                                                *)

(* What a function of pair p may not touch.                                *)
OthersKept(w, v, p) ==
  \A q \in Pool \ {p} : v.supply[q] = w.supply[q] /\ v.reserve[q] = w.reserve[q]

(* A function of one pool keeps every other pool's shares as they are.     *)
LEMMA KeptByPair ==
  ASSUME NEW w \in World, NEW v \in World, NEW p \in Pool, OthersKept(w, v, p),
         NEW a \in Token, NEW b \in Token, a # b, p = {a, b},
         w.supply[p] > 0 =>
           /\ v.supply[p] > 0
           /\ (w.reserve[p][a] * w.reserve[p][b]) * (v.supply[p] * v.supply[p])
                <= (v.reserve[p][a] * v.reserve[p][b]) * (w.supply[p] * w.supply[p])
  PROVE  Kept(w, v)
<1> SUFFICES ASSUME NEW c \in Token, NEW d \in Token, c # d PROVE KeptFor(w, v, c, d)
  BY DEF Kept
<1>1. PairFor(c, d) \in Pool
  BY Sides
<1>2. CASE PairFor(c, d) # p
  <2> DEFINE q == PairFor(c, d)
             K == Product(w, q, c, d)
             S == w.supply[q]
  <2>1. v.supply[q] = S /\ Product(v, q, c, d) = K
    BY <1>1, <1>2 DEF OthersKept, Product
  <2>2. K \in Nat /\ S \in Nat
    BY ProductType
  <2> HIDE DEF K, S, q
  <2>3. S > 0 => S > 0 /\ K * S * S <= K * S * S
    <3>1. \A x, y \in Nat : x * y * y <= x * y * y
      BY SMT
    <3> QED BY <2>2, <3>1
  <2> QED BY <2>1, <2>3 DEF KeptFor, K, S, q
<1>3. CASE PairFor(c, d) = p
  <2>1. (c = a /\ d = b) \/ (c = b /\ d = a)
    BY <1>3 DEF PairFor
  <2>2. /\ w.reserve[p][a] \in Nat /\ w.reserve[p][b] \in Nat /\ w.supply[p] \in Nat
        /\ v.reserve[p][a] \in Nat /\ v.reserve[p][b] \in Nat /\ v.supply[p] \in Nat
    BY WorldParts
  <2> DEFINE ra == w.reserve[p][a]
             rb == w.reserve[p][b]
             xa == v.reserve[p][a]
             xb == v.reserve[p][b]
             S == w.supply[p]
             T == v.supply[p]
  <2>3. S > 0 => T > 0 /\ (ra * rb) * (T * T) <= (xa * xb) * (S * S)
    OBVIOUS
  <2>4. Product(w, p, c, d) = ra * rb /\ Product(v, p, c, d) = xa * xb
    <3>1. ra * rb = rb * ra /\ xa * xb = xb * xa
      BY <2>2, SMT
    <3> QED BY <2>1, <3>1 DEF Product
  <2> HIDE DEF ra, rb, xa, xb, S, T
  <2>5. (ra * rb) * (T * T) = ra * rb * T * T /\ (xa * xb) * (S * S) = xa * xb * S * S
    BY <2>2, SMT DEF ra, rb, xa, xb, S, T
  <2>6. S > 0 => T > 0 /\ Product(w, p, c, d) * T * T <= Product(v, p, c, d) * S * S
    BY <2>3, <2>4, <2>5
  <2> QED BY <1>3, <2>6 DEF KeptFor, S, T
<1> QED BY <1>2, <1>3

(* _update makes the reserves the balances.                                *)
LEMMA UpdateSets ==
  ASSUME NEW w, Ledgers(w), NEW p \in Pool, NEW v, v = Update(w, p)
  PROVE  /\ Ledgers(v) /\ SameMoney(w, v)
         /\ v.pairs = w.pairs /\ v.lp = w.lp /\ v.supply = w.supply
         /\ v.allowance = w.allowance /\ v.nonces = w.nonces
         /\ \A t \in p : v.reserve[p][t] = w.tok[t][p]
         /\ OthersKept(w, v, p)
<1>1. w \in World /\ p \in Account
  BY Accounts DEF Ledgers
<1> DEFINE r == [t \in Token |-> IF t \in p THEN w.tok[t][p] ELSE 0]
<1>2. r \in [Token -> Nat]
  <2> SUFFICES ASSUME NEW t \in Token PROVE (IF t \in p THEN w.tok[t][p] ELSE 0) \in Nat
    OBVIOUS
  <2>1. w.tok[t][p] \in Nat
    BY <1>1, WorldParts
  <2> QED BY <2>1
<1>3. \A t \in p : r[t] = w.tok[t][p]
  BY TwoTokens
<1>4. v = [w EXCEPT !.reserve[p] = r]
  BY DEF Update, Balance
<1> HIDE DEF r
<1>5. /\ v \in World /\ SameMoney(w, v)
      /\ v.pairs = w.pairs /\ v.lp = w.lp /\ v.supply = w.supply
      /\ v.allowance = w.allowance /\ v.nonces = w.nonces
      /\ v.reserve[p] = r /\ \A q \in Pool \ {p} : v.reserve[q] = w.reserve[q]
  <2> DEFINE x == [w.reserve EXCEPT ![p] = r]
  <2>1. x \in [Pool -> [Token -> Nat]] /\ x[p] = r /\ \A q \in Pool \ {p} : x[q] = w.reserve[q]
    BY <1>1, <1>2, WorldParts
  <2>2. w = [tok |-> w.tok, kash |-> w.kash, pairs |-> w.pairs, reserve |-> w.reserve, lp |-> w.lp,
             supply |-> w.supply, allowance |-> w.allowance, nonces |-> w.nonces]
    BY <1>1 DEF World
  <2>3. v = [tok |-> w.tok, kash |-> w.kash, pairs |-> w.pairs, reserve |-> x, lp |-> w.lp,
             supply |-> w.supply, allowance |-> w.allowance, nonces |-> w.nonces]
    BY <1>4, <2>2
  <2> HIDE DEF x
  <2> QED BY <1>1, <2>1, <2>3, WorldParts DEF World, SameMoney
<1> QED BY <1>3, <1>5 DEF Ledgers, Backed, Held, Locked, SameMoney, OthersKept

(* The shares sent to the pair are burnt, never all there are: those at    *)
(* address zero stay.                                                      *)
Burnt(w, p) == [w EXCEPT !.supply[p] = w.supply[p] - w.lp[p][p], !.lp[p][p] = 0]

(* Shares burnt are the pool's own.                                        *)
LEMMA BurntSound ==
  ASSUME NEW w, Sound(w), NEW p \in Pool, p \in w.pairs, w.supply[p] > 0, NEW v, v = Burnt(w, p)
  PROVE  /\ w.lp[p][p] \in Nat /\ w.supply[p] \in Nat /\ w.lp[p][p] <= w.supply[p]
         /\ w.supply[p] - w.lp[p][p] \in Nat /\ w.supply[p] - w.lp[p][p] > 0
         /\ Ledgers(v) /\ SameMoney(w, v) /\ v.pairs = w.pairs /\ v.reserve = w.reserve
         /\ v.allowance = w.allowance /\ v.nonces = w.nonces
         /\ v.supply = [w.supply EXCEPT ![p] = w.supply[p] - w.lp[p][p]]
<1>1. Ledgers(w) /\ w \in World /\ p \in Account /\ Zero \in Account /\ p # Zero /\ p # Router
      /\ Router \in Account
  BY Accounts DEF Sound, Ledgers
<1> DEFINE S == w.supply[p]
           sh == w.lp[p][p]
           e == [w.lp[p] EXCEPT ![p] = 0]
           lp == [w.lp EXCEPT ![p] = e]
           supply == [w.supply EXCEPT ![p] = S - sh]
<1>2. S \in Nat /\ S > 0 /\ sh \in Nat /\ w.lp[p][Zero] \in Nat
  BY <1>1, WorldParts
<1>3. sh + w.lp[p][Zero] <= S /\ w.lp[p][Zero] > 0
  <2>1. w.lp[p] \in [Account -> Nat] /\ IsFiniteSet(Account)
    BY <1>1, WorldParts, Accounts
  <2>2. sh + w.lp[p][Zero] <= Total(w.lp[p])
    BY <1>1, <2>1, TotalCovers
  <2> QED BY <2>2 DEF Sound, Ledgers, Held, Locked
<1>4. sh <= S /\ S - sh \in Nat /\ S - sh > 0
  BY <1>2, <1>3, SMT
<1>5. e \in [Account -> Nat] /\ e[Zero] = w.lp[p][Zero] /\ e[Router] = w.lp[p][Router]
  BY <1>1, WorldParts
<1>6. Total(e) = S - sh
  <2>1. w.lp[p] \in [Account -> Nat] /\ IsFiniteSet(Account)
    BY <1>1, WorldParts, Accounts
  <2>2. sh \in 0 .. sh /\ sh - sh = 0
    BY <1>2, SMT
  <2>3. Total(Less(w.lp[p], p, sh)) = Total(w.lp[p]) - sh
    BY <1>1, <2>1, <2>2, TotalLess
  <2>4. e = Less(w.lp[p], p, sh)
    BY <1>1, <2>2 DEF Less
  <2> QED BY <1>1, <2>3, <2>4 DEF Ledgers, Held
<1>7. /\ lp \in [Pool -> [Account -> Nat]] /\ lp[p] = e /\ \A q \in Pool \ {p} : lp[q] = w.lp[q]
      /\ supply \in [Pool -> Nat] /\ supply[p] = S - sh
      /\ \A q \in Pool \ {p} : supply[q] = w.supply[q]
  <2> HIDE DEF e, sh, S
  <2> QED BY <1>1, <1>4, <1>5, WorldParts
<1>8. v = [tok |-> w.tok, kash |-> w.kash, pairs |-> w.pairs, reserve |-> w.reserve, lp |-> lp,
           supply |-> supply, allowance |-> w.allowance, nonces |-> w.nonces]
  <2>1. w = [tok |-> w.tok, kash |-> w.kash, pairs |-> w.pairs, reserve |-> w.reserve, lp |-> w.lp,
             supply |-> w.supply, allowance |-> w.allowance, nonces |-> w.nonces]
    BY <1>1 DEF World
  <2>2. lp = [w.lp EXCEPT ![p][p] = 0]
    BY <1>1, WorldParts
  <2>3. supply = [w.supply EXCEPT ![p] = w.supply[p] - w.lp[p][p]]
    OBVIOUS
  <2>4. v = [w EXCEPT !.supply[p] = w.supply[p] - w.lp[p][p], !.lp[p][p] = 0]
    BY DEF Burnt
  <2> HIDE DEF lp, supply
  <2> QED BY <2>1, <2>2, <2>3, <2>4
<1>9. v.supply = supply /\ supply = [w.supply EXCEPT ![p] = w.supply[p] - w.lp[p][p]]
  BY <1>8
<1> HIDE DEF lp, supply, e
<1>10. /\ v \in World /\ SameMoney(w, v) /\ v.lp = lp /\ v.supply = supply
       /\ v.pairs = w.pairs /\ v.reserve = w.reserve /\ v.allowance = w.allowance
       /\ v.nonces = w.nonces
  BY <1>1, <1>7, <1>8, WorldParts DEF World, SameMoney
<1>11. Held(v)
  BY <1>1, <1>5, <1>6, <1>7, <1>10 DEF Ledgers, Held
<1>12. Locked(v)
  BY <1>1, <1>3, <1>5, <1>7, <1>10 DEF Ledgers, Locked
<1>13. Ledgers(v)
  BY <1>1, <1>10, <1>11, <1>12 DEF Ledgers, Backed, SameMoney
<1> QED BY <1>2, <1>4, <1>9, <1>10, <1>13

(* Each token is paid out in proportion, and no more than there is.        *)
LEMMA BurnShare ==
  ASSUME NEW w, Sound(w), NEW p \in Pool, p \in w.pairs, w.supply[p] > 0, NEW t \in p
  PROVE  /\ BurnAmount(w, p, t) \in Nat /\ w.tok[t][p] \in Nat
         /\ w.tok[t][p] * (w.supply[p] - w.lp[p][p]) <= (w.tok[t][p] - BurnAmount(w, p, t)) * w.supply[p]
         /\ BurnAmount(w, p, t) <= w.tok[t][p]
<1> DEFINE S == w.supply[p]
           sh == w.lp[p][p]
           x == w.tok[t][p]
           A == BurnAmount(w, p, t)
<1>1. S \in Nat /\ S > 0 /\ sh \in Nat /\ sh <= S
  BY BurntSound
<1>2. x \in Nat
  BY TwoTokens, Accounts, WorldParts DEF Sound, Ledgers
<1>3. A = (sh * x) \div S
  BY DEF BurnAmount, Balance
<1> HIDE DEF A, S, sh, x
<1>4. A \in Nat /\ x * (S - sh) <= (x - A) * S
  BY <1>1, <1>2, <1>3, LeftInProportion
<1>5. A <= x
  <2>1. sh * x <= S * x /\ sh * x \in Nat
    <3>1. x <= x
      BY <1>2, SMT
    <3>2. sh * x \in Nat
      BY <1>1, <1>2, SMT
    <3> QED BY <1>1, <1>2, <3>1, <3>2, MulMonotone
  <2>2. (sh * x) \div S \in Nat /\ ((sh * x) \div S) * S <= sh * x
    BY <1>1, <2>1, DivBounds
  <2>3. A * S <= x * S
    BY <1>1, <1>2, <1>3, <2>1, <2>2, SMT
  <2> QED BY <1>1, <1>2, <1>4, <2>3, MulCancel
<1> QED BY <1>2, <1>4, <1>5 DEF A, S, sh, x


(* sync() only adds to the reserves.                                       *)
LEMMA UpdateSound ==
  ASSUME NEW w, Sound(w), NEW p \in Pool, NEW v, v = Update(w, p)
  PROVE  Sound(v) /\ Kept(w, v)
<1>1. Ledgers(w) /\ w \in World /\ p \in Account
  BY Accounts DEF Sound, Ledgers
<1>2. /\ Ledgers(v) /\ v \in World /\ SameMoney(w, v) /\ v.supply = w.supply
      /\ \A t \in p : v.reserve[p][t] = w.tok[t][p]
      /\ OthersKept(w, v, p)
  BY <1>1, UpdateSets DEF Ledgers
<1>3. Covered(v)
  <2> SUFFICES ASSUME NEW q \in Pool, NEW s \in q PROVE v.reserve[q][s] <= v.tok[s][q]
    BY DEF Covered
  <2>1. w.tok[s][q] \in Nat
    BY <1>1, TwoTokens, Accounts, WorldParts
  <2>2. CASE q = p
    <3>1. \A x \in Nat : x <= x
      BY SMT
    <3> QED BY <1>2, <2>1, <2>2, <3>1 DEF SameMoney
  <2>3. CASE q # p
    BY <1>2, <2>3 DEF Sound, Covered, SameMoney, OthersKept
  <2> QED BY <2>2, <2>3
<1>4. PICK a \in Token, b \in Token : a # b /\ p = {a, b}
  BY TwoTokens
<1> DEFINE ra == w.reserve[p][a]
           rb == w.reserve[p][b]
           xa == w.tok[a][p]
           xb == w.tok[b][p]
           S == w.supply[p]
<1>5. ra \in Nat /\ rb \in Nat /\ xa \in Nat /\ xb \in Nat /\ S \in Nat
  BY <1>1, <1>4, WorldParts
<1>6. ra <= xa /\ rb <= xb
  BY <1>4 DEF Sound, Covered
<1>7. v.reserve[p][a] = xa /\ v.reserve[p][b] = xb /\ v.supply[p] = S
  BY <1>2, <1>4
<1>8. (ra * rb) * (S * S) <= (xa * xb) * (S * S)
  <2> HIDE DEF ra, rb, xa, xb, S
  <2>1. ra * rb <= xa * xb
    BY <1>5, <1>6, MulMonotone
  <2>2. ra * rb \in Nat /\ xa * xb \in Nat /\ S * S \in Nat /\ S * S <= S * S
    BY <1>5, SMT
  <2> QED BY <2>1, <2>2, MulMonotone
<1>9. Kept(w, v)
  BY <1>1, <1>2, <1>4, <1>7, <1>8, KeptByPair
<1> QED BY <1>2, <1>3, <1>9 DEF Sound
(* mint: each side of the pool grows at least in the proportion in which   *)
(* the shares do.                                                          *)
LEMMA MintSound ==
  ASSUME NEW w, Sound(w), NEW p \in Pool, NEW to \in User,
         NEW v, v = PairMint(w, p, to), v # Failed
  PROVE  /\ Sound(v) /\ Kept(w, v) /\ SameMoney(w, v)
         /\ v.pairs = w.pairs /\ v.nonces = w.nonces /\ v.allowance = w.allowance
<1>1. Ledgers(w) /\ w \in World /\ p \in Account /\ Zero \in Account /\ to \in Account
      /\ Router \in Account /\ to # Zero /\ to # Router /\ Zero # Router
  BY Accounts DEF Sound, Ledgers
<1> DEFINE a == CHOOSE t \in p : TRUE
           b == CHOOSE t \in p : t # a
           amount(t) == w.tok[t][p] - w.reserve[p][t]
           share(t) == (amount(t) * w.supply[p]) \div w.reserve[p][t]
           first == w.supply[p] = 0
           locked == IF first THEN MINIMUM_LIQUIDITY ELSE 0
           shares == IF first THEN Sqrt(amount(a) * amount(b)) - MINIMUM_LIQUIDITY
                              ELSE Min(share(a), share(b))
           x == [w EXCEPT !.supply[p] = w.supply[p] + locked + shares,
                          !.lp[p][Zero] = w.lp[p][Zero] + locked,
                          !.lp[p][to] = w.lp[p][to] + shares]
<1>2. a \in p /\ b \in p /\ a # b /\ p = {a, b} /\ a \in Token /\ b \in Token
  <2>1. a \in p
    BY TheFirst
  <2> HIDE DEF a
  <2>2. b \in p /\ b # a /\ p = {a, b}
    BY <2>1, TheOther
  <2> QED BY <2>1, <2>2, TwoTokens
<1>3. /\ p \in w.pairs
      /\ \A t \in p : amount(t) >= 0 /\ (~first => w.reserve[p][t] > 0)
      /\ shares > 0
      /\ v = Update(x, p)
  BY <1>1, Zenon DEF PairMint, Require, Balance
<1> HIDE DEF a, b
<1>4. \A t \in p : w.tok[t][p] \in Nat /\ w.reserve[p][t] \in Nat
  BY <1>1, <1>2, WorldParts
<1>5. w.supply[p] \in Nat /\ w.lp[p] \in [Account -> Nat] /\ MINIMUM_LIQUIDITY \in Nat \ {0}
  BY <1>1, WorldParts, MinimumAssumption
<1>6. amount(a) \in Nat /\ amount(b) \in Nat
  <2>1. \A i, j \in Nat : i - j >= 0 => i - j \in Nat
    BY SMT
  <2>2. amount(a) >= 0 /\ amount(b) >= 0
    BY <1>2, <1>3
  <2> QED BY <1>2, <1>4, <2>1, <2>2
<1>7. ~first => share(a) \in Nat /\ share(b) \in Nat
  <2> SUFFICES ASSUME NEW t \in p, ~first PROVE share(t) \in Nat
    BY <1>2
  <2>1. amount(t) \in Nat
    BY <1>2, <1>6
  <2>2. amount(t) * w.supply[p] \in Nat /\ w.reserve[p][t] \in Nat /\ w.reserve[p][t] > 0
    <3> HIDE DEF amount
    <3>1. \A i, j \in Nat : i * j \in Nat
      BY SMT
    <3> QED BY <1>3, <1>4, <1>5, <2>1, <3>1
  <2> HIDE DEF amount
  <2> QED BY <2>2, DivBounds
<1>8. shares \in Nat /\ locked \in Nat
  <2>1. CASE first
    <3>1. amount(a) * amount(b) \in Nat
      <4> HIDE DEF amount
      <4> QED BY <1>6, SMT
    <3>2. Sqrt(amount(a) * amount(b)) \in Nat
      <4> HIDE DEF amount
      <4> QED BY <3>1, SqrtType
    <3> QED BY <1>3, <1>5, <2>1, <3>2, SMT
  <2>2. CASE ~first
    <3> HIDE DEF share
    <3> QED BY <1>3, <1>5, <1>7, <2>2, SMT DEF Min
  <2> QED BY <2>1, <2>2
<1>9. ~first => /\ shares <= share(a) /\ shares <= share(b) /\ locked = 0
  <2> HIDE DEF share
  <2> QED BY <1>7, SMT DEF Min
<1>10. first => locked > 0
  BY <1>5, SMT
<1> HIDE DEF amount, share, shares, locked
<1> DEFINE e == [w.lp[p] EXCEPT ![Zero] = w.lp[p][Zero] + locked]
           f == [e EXCEPT ![to] = e[to] + shares]
           lp == [w.lp EXCEPT ![p] = f]
           supply == [w.supply EXCEPT ![p] = w.supply[p] + locked + shares]
<1>11. w.lp[p][Zero] \in Nat /\ w.lp[p][Zero] + locked \in Nat
       /\ w.supply[p] + locked + shares \in Nat
  BY <1>1, <1>5, <1>8, SMT
<1>12. e \in [Account -> Nat] /\ e[Zero] = w.lp[p][Zero] + locked /\ e[Router] = w.lp[p][Router]
  BY <1>1, <1>5, <1>11
<1>13. Total(e) = Total(w.lp[p]) + locked
  <2>1. IsFiniteSet(Account)
    BY Accounts
  <2>2. w.lp[p] \in [Account -> Nat] /\ Zero \in Account /\ locked \in Nat
    BY <1>1, <1>5, <1>8
  <2>3. e = More(w.lp[p], Zero, locked)
    BY DEF More
  <2> QED BY <2>1, <2>2, <2>3, TotalMore
<1>14. e[to] = w.lp[p][to]
  BY <1>1, <1>5
<1> HIDE DEF e
<1>15. e[to] \in Nat /\ e[to] + shares \in Nat
  BY <1>1, <1>8, <1>12, SMT
<1>16. f \in [Account -> Nat] /\ f[Zero] = w.lp[p][Zero] + locked /\ f[Router] = w.lp[p][Router]
  BY <1>1, <1>12, <1>15
<1>17. Total(f) = Total(w.lp[p]) + locked + shares
  <2>1. IsFiniteSet(Account)
    BY Accounts
  <2>2. e \in [Account -> Nat] /\ to \in Account /\ shares \in Nat
    BY <1>1, <1>8, <1>12
  <2>3. f = More(e, to, shares)
    BY DEF More
  <2> HIDE DEF f
  <2>4. Total(f) = Total(e) + shares
    BY <2>1, <2>2, <2>3, TotalMore
  <2> QED BY <1>13, <2>4
<1>18. x = [tok |-> w.tok, kash |-> w.kash, pairs |-> w.pairs, reserve |-> w.reserve, lp |-> lp,
            supply |-> supply, allowance |-> w.allowance, nonces |-> w.nonces]
  <2>1. w = [tok |-> w.tok, kash |-> w.kash, pairs |-> w.pairs, reserve |-> w.reserve, lp |-> w.lp,
             supply |-> w.supply, allowance |-> w.allowance, nonces |-> w.nonces]
    BY <1>1 DEF World
  <2>2. lp = [w.lp EXCEPT ![p][Zero] = w.lp[p][Zero] + locked, ![p][to] = w.lp[p][to] + shares]
    BY <1>1, <1>5, WorldParts DEF e
  <2>3. supply = [w.supply EXCEPT ![p] = w.supply[p] + locked + shares]
    OBVIOUS
  <2>4. x = [w EXCEPT !.supply[p] = w.supply[p] + locked + shares,
                      !.lp[p][Zero] = w.lp[p][Zero] + locked,
                      !.lp[p][to] = w.lp[p][to] + shares]
    OBVIOUS
  <2> HIDE DEF f, lp, supply, x
  <2> QED BY <2>1, <2>2, <2>3, <2>4
<1> HIDE DEF f, x
<1>19. lp \in [Pool -> [Account -> Nat]] /\ lp[p] = f /\ \A q \in Pool \ {p} : lp[q] = w.lp[q]
  BY <1>1, <1>16, WorldParts
<1>20. supply \in [Pool -> Nat] /\ supply[p] = w.supply[p] + locked + shares
       /\ \A q \in Pool \ {p} : supply[q] = w.supply[q]
  BY <1>1, <1>11, WorldParts
<1> HIDE DEF lp, supply
<1>21. /\ x \in World /\ SameMoney(w, x) /\ x.lp = lp /\ x.supply = supply
       /\ x.pairs = w.pairs /\ x.reserve = w.reserve /\ x.allowance = w.allowance
       /\ x.nonces = w.nonces
  BY <1>1, <1>18, <1>19, <1>20, WorldParts DEF World, SameMoney
<1>22. Ledgers(x)
  <2>1. Held(x)
    BY <1>16, <1>17, <1>19, <1>20, <1>21 DEF Sound, Ledgers, Held
  <2>2. Locked(x)
    <3>1. w.lp[p][Zero] + locked > 0
      <4>1. ~first => w.lp[p][Zero] > 0
        <5>1. w.supply[p] # 0 => w.supply[p] > 0
          BY <1>5, SMT
        <5> QED BY <5>1 DEF Sound, Ledgers, Locked
      <4> QED BY <1>8, <1>10, <1>11, <4>1, SMT
    <3> QED BY <1>3, <1>16, <1>19, <1>20, <1>21, <3>1 DEF Sound, Ledgers, Locked
  <2> QED BY <1>21, <2>1, <2>2 DEF Sound, Ledgers, Backed, SameMoney
<1>23. /\ Ledgers(v) /\ v \in World /\ SameMoney(x, v)
       /\ v.pairs = x.pairs /\ v.supply = x.supply
       /\ v.allowance = x.allowance /\ v.nonces = x.nonces
       /\ \A t \in p : v.reserve[p][t] = x.tok[t][p]
       /\ OthersKept(x, v, p)
  BY <1>3, <1>22, UpdateSets DEF Ledgers
<1>24. SameMoney(w, v)
  BY <1>21, <1>23 DEF SameMoney
<1>25. Covered(v)
  <2> SUFFICES ASSUME NEW q \in Pool, NEW s \in q PROVE v.reserve[q][s] <= v.tok[s][q]
    BY DEF Covered
  <2>1. w.tok[s][q] \in Nat
    BY <1>1, TwoTokens, Accounts, WorldParts
  <2>2. CASE q = p
    <3>1. \A i \in Nat : i <= i
      BY SMT
    <3> QED BY <1>21, <1>23, <2>1, <2>2, <3>1 DEF SameMoney
  <2>3. CASE q # p
    BY <1>21, <1>23, <2>3 DEF Sound, Covered, SameMoney, OthersKept
  <2> QED BY <2>2, <2>3
<1>26. Kept(w, v)
  <2>1. OthersKept(w, v, p)
    BY <1>20, <1>21, <1>23 DEF OthersKept
  <2> DEFINE ra == w.reserve[p][a]
             rb == w.reserve[p][b]
             xa == w.tok[a][p]
             xb == w.tok[b][p]
             S == w.supply[p]
             T == S + shares
  <2>2. v.reserve[p][a] = xa /\ v.reserve[p][b] = xb
    BY <1>2, <1>21, <1>23 DEF SameMoney
  <2>3. ASSUME ~first
        PROVE  v.supply[p] > 0 /\ (ra * rb) * (v.supply[p] * v.supply[p]) <= (xa * xb) * (S * S)
    <3>1. v.supply[p] = T
      BY <1>5, <1>8, <1>9, <1>20, <1>21, <1>23, <2>3, SMT
    <3>2. ra \in Nat /\ ra > 0 /\ rb \in Nat /\ rb > 0 /\ xa \in Nat /\ xb \in Nat
      BY <1>2, <1>3, <1>4, <2>3
    <3>3. S \in Nat /\ T \in Nat /\ S > 0 /\ T > 0
      BY <1>5, <1>8, <2>3, SMT
    <3>4. amount(a) = xa - ra /\ amount(b) = xb - rb
      BY DEF amount
    <3>5. shares <= (amount(a) * S) \div ra /\ shares <= (amount(b) * S) \div rb
      BY <1>9, <2>3 DEF share
    <3> HIDE DEF ra, rb, xa, xb, S
    <3>6. ra * (S + shares) <= (ra + amount(a)) * S
      BY <1>6, <1>8, <3>2, <3>3, <3>5, SharesInProportion
    <3>7. rb * (S + shares) <= (rb + amount(b)) * S
      BY <1>6, <1>8, <3>2, <3>3, <3>5, SharesInProportion
    <3>8. ra + amount(a) = xa /\ rb + amount(b) = xb
      BY <3>2, <3>4, SMT
    <3>9. ra * T <= xa * S /\ rb * T <= xb * S
      BY <3>6, <3>7, <3>8
    <3> HIDE DEF T
    <3>10. (ra * rb) * (T * T) <= (xa * xb) * (S * S)
      BY <3>2, <3>3, <3>9, BothSides
    <3> QED BY <3>1, <3>3, <3>10
  <2>4. w.supply[p] > 0 => ~first
    BY <1>5, SMT
  <2> QED BY <1>1, <1>2, <1>23, <2>1, <2>2, <2>3, <2>4, KeptByPair
<1> QED BY <1>21, <1>23, <1>24, <1>25, <1>26 DEF Sound
(* burn: neither side of the pool shrinks by more than the shares do.      *)
LEMMA BurnSound ==
  ASSUME NEW w, Sound(w), NEW p \in Pool, NEW to \in Account, to # p,
         NEW v, v = PairBurn(w, p, to), v # Failed
  PROVE  /\ Sound(v) /\ Kept(w, v) /\ v.kash = w.kash
         /\ v.pairs = w.pairs /\ v.nonces = w.nonces /\ v.allowance = w.allowance
         /\ \A t \in p : BurnAmount(w, p, t) \in Nat
         /\ \A t \in p : v.tok[t][to] = w.tok[t][to] + Delivered(t, BurnAmount(w, p, t))
         /\ \A t \in Token \ p : v.tok[t][to] = w.tok[t][to]
         /\ \A t \in Token, x \in Account \ {p, to} : v.tok[t][x] = w.tok[t][x]
<1>1. Ledgers(w) /\ w \in World /\ p \in Account /\ Zero \in Account /\ p # Zero /\ p # Router
      /\ Router \in Account
  BY Accounts DEF Sound, Ledgers
<1> DEFINE a == CHOOSE t \in p : TRUE
           b == CHOOSE t \in p : t # a
           burnt == [w EXCEPT !.supply[p] = w.supply[p] - w.lp[p][p], !.lp[p][p] = 0]
           x == Transfer(burnt, a, p, to, BurnAmount(w, p, a))
           y == Transfer(x, b, p, to, BurnAmount(w, p, b))
<1>2. a \in p /\ b \in p /\ a # b /\ p = {a, b} /\ a \in Token /\ b \in Token
  <2>1. a \in p
    BY TheFirst
  <2> HIDE DEF a
  <2>2. b \in p /\ b # a /\ p = {a, b}
    BY <2>1, TheOther
  <2> QED BY <2>1, <2>2, TwoTokens
<1>3. /\ p \in w.pairs /\ w.supply[p] > 0
      /\ x # Failed /\ y # Failed /\ v = Update(y, p)
  BY <1>1, Zenon DEF PairBurn, Then
<1> HIDE DEF a, b
<1> DEFINE S == w.supply[p]
           sh == w.lp[p][p]
           A == BurnAmount(w, p, a)
           B == BurnAmount(w, p, b)
           xa == w.tok[a][p]
           xb == w.tok[b][p]
<1>4. S \in Nat /\ S > 0 /\ sh \in Nat /\ xa \in Nat /\ xb \in Nat
  BY <1>1, <1>2, <1>3, WorldParts
<1>5. burnt = Burnt(w, p)
  BY DEF Burnt
<1> HIDE DEF burnt
<1>6. sh <= S /\ S - sh \in Nat /\ S - sh > 0
  BY <1>3, BurntSound
<1>7. /\ A \in Nat /\ xa * (S - sh) <= (xa - A) * S
      /\ B \in Nat /\ xb * (S - sh) <= (xb - B) * S
  BY <1>2, <1>3, BurnShare
<1> DEFINE supply == [w.supply EXCEPT ![p] = S - sh]
<1>8. supply[p] = S - sh /\ \A q \in Pool \ {p} : supply[q] = w.supply[q]
  <2> HIDE DEF S, sh
  <2> QED BY <1>1, WorldParts
<1>9. x = Transfer(burnt, a, p, to, A) /\ y = Transfer(x, b, p, to, B)
  OBVIOUS
<1>10. /\ Ledgers(burnt) /\ SameMoney(w, burnt) /\ burnt.supply = supply
       /\ burnt.pairs = w.pairs /\ burnt.reserve = w.reserve /\ burnt.allowance = w.allowance
       /\ burnt.nonces = w.nonces
  <2> HIDE DEF x, y, A, B
  <2> QED BY <1>3, <1>5, BurntSound
<1> HIDE DEF x, y, A, B, supply
<1>11. /\ burnt \in World /\ SameMoney(w, burnt) /\ burnt.supply = supply
       /\ burnt.pairs = w.pairs /\ burnt.reserve = w.reserve /\ burnt.allowance = w.allowance
       /\ burnt.nonces = w.nonces
  BY <1>10 DEF Ledgers
<1>12. Ledgers(burnt)
  BY <1>10
<1>13. Ledgers(x) /\ SamePools(burnt, x) /\ x.kash = burnt.kash
  BY <1>1, <1>2, <1>3, <1>7, <1>12, <1>9, TransferLedgers
<1>14. Ledgers(y) /\ SamePools(x, y) /\ y.kash = x.kash
  BY <1>1, <1>2, <1>3, <1>7, <1>13, <1>9, TransferLedgers
<1>15. /\ Ledgers(v) /\ v \in World /\ SameMoney(y, v)
       /\ v.pairs = y.pairs /\ v.supply = y.supply
       /\ v.allowance = y.allowance /\ v.nonces = y.nonces
       /\ \A t \in p : v.reserve[p][t] = y.tok[t][p]
       /\ OthersKept(y, v, p)
  BY <1>3, <1>14, UpdateSets DEF Ledgers
<1>16. p # to
  OBVIOUS
<1>17. /\ \A s \in Token, c \in Account : (s # a \/ c \notin {p, to}) => x.tok[s][c] = burnt.tok[s][c]
       /\ x.tok[a][p] = burnt.tok[a][p] - A
       /\ x.tok[a][to] = burnt.tok[a][to] + Delivered(a, A)
  BY <1>1, <1>2, <1>3, <1>7, <1>11, <1>9, <1>16, TransferMoves
<1>18. /\ \A s \in Token, c \in Account : (s # b \/ c \notin {p, to}) => y.tok[s][c] = x.tok[s][c]
       /\ y.tok[b][p] = x.tok[b][p] - B
       /\ y.tok[b][to] = x.tok[b][to] + Delivered(b, B)
  <2>1. x \in World
    BY <1>13 DEF Ledgers
  <2> QED BY <1>1, <1>2, <1>3, <1>7, <2>1, <1>9, <1>16, TransferMoves
<1>19. v.tok = y.tok /\ burnt.tok = w.tok
  BY <1>11, <1>15 DEF SameMoney
<1>20. v.kash = w.kash
  BY <1>11, <1>13, <1>14, <1>15 DEF SameMoney
<1>21. v.pairs = w.pairs /\ v.nonces = w.nonces /\ v.allowance = w.allowance /\ v.supply = supply
  BY <1>11, <1>13, <1>14, <1>15 DEF SamePools
<1>22. /\ v.tok[a][p] = xa - A /\ v.tok[b][p] = xb - B
       /\ v.tok[a][to] = w.tok[a][to] + Delivered(a, A)
       /\ v.tok[b][to] = w.tok[b][to] + Delivered(b, B)
  BY <1>1, <1>2, <1>17, <1>18, <1>19
<1>23. \A t \in Token : \A c \in Account : (t \notin p \/ c \notin {p, to}) => v.tok[t][c] = w.tok[t][c]
  BY <1>2, <1>17, <1>18, <1>19
<1>24. xa - A \in Nat /\ xb - B \in Nat
  <2>1. v.tok[a][p] \in Nat /\ v.tok[b][p] \in Nat
    BY <1>1, <1>2, <1>15, WorldParts
  <2> QED BY <1>22, <2>1
<1>25. Covered(v)
  <2> SUFFICES ASSUME NEW q \in Pool, NEW s \in q PROVE v.reserve[q][s] <= v.tok[s][q]
    BY DEF Covered
  <2>1. v.tok[s][q] \in Nat /\ w.tok[s][q] \in Nat /\ s \in Token /\ q \in Account
    BY <1>1, <1>15, TwoTokens, Accounts, WorldParts
  <2>2. CASE q = p
    <3>1. \A i \in Nat : i <= i
      BY SMT
    <3> QED BY <1>15, <1>19, <2>1, <2>2, <3>1
  <2>3. CASE q # p
    <3>1. v.reserve[q] = w.reserve[q]
      BY <1>11, <1>13, <1>14, <1>15, <2>3 DEF SamePools, OthersKept
    <3>2. w.reserve[q][s] <= w.tok[s][q] /\ w.reserve[q][s] \in Nat
      BY <1>1, <2>1, WorldParts DEF Sound, Covered
    <3>3. w.tok[s][q] <= v.tok[s][q]
      <4>1. CASE s \in p /\ q = to
        <5>1. v.tok[s][q] = w.tok[s][q] + Delivered(s, IF s = a THEN A ELSE B)
          BY <1>2, <1>22, <4>1
        <5>2. Delivered(s, IF s = a THEN A ELSE B) \in Nat
          BY <1>7, <2>1, DeliveredType
        <5> QED BY <2>1, <5>1, <5>2, SMT
      <4>2. CASE ~(s \in p /\ q = to)
        <5>1. v.tok[s][q] = w.tok[s][q]
          BY <1>23, <2>1, <2>3, <4>2
        <5> QED BY <2>1, <5>1, SMT
      <4> QED BY <4>1, <4>2
    <3> QED BY <2>1, <3>1, <3>2, <3>3, SMT
  <2> QED BY <2>2, <2>3
<1>26. Kept(w, v)
  <2>1. OthersKept(w, v, p)
    BY <1>8, <1>11, <1>13, <1>14, <1>15, <1>21 DEF OthersKept, SamePools
  <2> DEFINE ra == w.reserve[p][a]
             rb == w.reserve[p][b]
             T == S - sh
             ya == xa - A
             yb == xb - B
  <2>2. v.reserve[p][a] = ya /\ v.reserve[p][b] = yb /\ v.supply[p] = T
    BY <1>2, <1>8, <1>15, <1>19, <1>21, <1>22
  <2>3. ra \in Nat /\ rb \in Nat /\ ra <= xa /\ rb <= xb
    BY <1>1, <1>2, WorldParts DEF Sound, Covered
  <2>4. T \in Nat /\ T > 0 /\ ya \in Nat /\ yb \in Nat
    BY <1>6, <1>24
  <2>5. xa * T <= ya * S /\ xb * T <= yb * S
    BY <1>7
  <2> HIDE DEF ra, rb, xa, xb, T, ya, yb, S, sh
  <2>6. (xa * xb) * (T * T) <= (ya * yb) * (S * S)
    BY <1>4, <2>4, <2>5, BothSides
  <2>7. (ra * rb) * (T * T) <= (xa * xb) * (T * T)
    <3>1. ra * rb <= xa * xb
      BY <1>4, <2>3, MulMonotone
    <3>2. ra * rb \in Nat /\ xa * xb \in Nat /\ T * T \in Nat /\ T * T <= T * T
      BY <1>4, <2>3, <2>4, SMT
    <3> QED BY <3>1, <3>2, MulMonotone
  <2>8. (ra * rb) * (T * T) <= (ya * yb) * (S * S)
    <3>1. \A i, j \in Nat : i * j \in Nat
      BY SMT
    <3>2. (ra * rb) * (T * T) \in Nat /\ (xa * xb) * (T * T) \in Nat /\ (ya * yb) * (S * S) \in Nat
      BY <1>4, <2>3, <2>4, <3>1
    <3>3. \A i, j, k \in Nat : i <= j /\ j <= k => i <= k
      BY SMT
    <3> QED BY <2>6, <2>7, <3>2, <3>3
  <2>9. w.supply[p] > 0 =>
           /\ v.supply[p] > 0
           /\ (w.reserve[p][a] * w.reserve[p][b]) * (v.supply[p] * v.supply[p])
                <= (v.reserve[p][a] * v.reserve[p][b]) * (w.supply[p] * w.supply[p])
    BY <2>2, <2>4, <2>8 DEF ra, rb, S
  <2> QED BY <1>1, <1>2, <1>15, <2>1, <2>9, KeptByPair
<1>27. \A t \in p : BurnAmount(w, p, t) \in Nat
  BY <1>2, <1>7 DEF A, B
<1>28. \A t \in p : v.tok[t][to] = w.tok[t][to] + Delivered(t, BurnAmount(w, p, t))
  BY <1>2, <1>22 DEF A, B
<1>29. /\ \A t \in Token \ p : v.tok[t][to] = w.tok[t][to]
       /\ \A t \in Token, c \in Account \ {p, to} : v.tok[t][c] = w.tok[t][c]
  BY <1>23
<1> QED BY <1>15, <1>20, <1>21, <1>25, <1>26, <1>27, <1>28, <1>29 DEF Sound
(* swap: the product check on the balances keeps the product of the        *)
(* reserves; nobody but the pair and the receiver is touched, in nothing   *)
(* but the output.                                                         *)
LEMMA SwapSound ==
  ASSUME NEW w, Sound(w), NEW p \in Pool, NEW output \in p, NEW amountOut \in Nat,
         NEW to \in Account, NEW v, v = PairSwap(w, p, output, amountOut, to), v # Failed
  PROVE  /\ Sound(v) /\ Kept(w, v) /\ v.kash = w.kash
         /\ v.pairs = w.pairs /\ v.lp = w.lp /\ v.supply = w.supply
         /\ v.allowance = w.allowance /\ v.nonces = w.nonces
         /\ OthersKept(w, v, p)
         /\ 0 < amountOut
         /\ to # p => v.tok[output][to] = w.tok[output][to] + Delivered(output, amountOut)
         /\ \A t \in Token, c \in Account :
              (t # output \/ c \notin {p, to}) => v.tok[t][c] = w.tok[t][c]
<1> DEFINE input == CHOOSE t \in p : t # output
           x == Transfer(w, output, p, to, amountOut)
           in1 == Inferred(x, w, p, input, 0)
           in2 == Inferred(x, w, p, output, amountOut)
<1>1. Ledgers(w) /\ w \in World /\ p \in Account
  BY Accounts DEF Sound, Ledgers
<1>2. input \in p /\ input # output /\ p = {input, output} /\ input \in Token /\ output \in Token
  <2>1. input \in p /\ input # output /\ p = {input, output}
    BY TheOther
  <2> HIDE DEF input
  <2> QED BY <2>1, TwoTokens
<1>3. /\ p \in w.pairs /\ 0 < amountOut /\ amountOut < w.reserve[p][output]
      /\ x # Failed
      /\ KHolds(x.tok[input][p], x.tok[output][p], in1, in2,
                w.reserve[p][input], w.reserve[p][output])
      /\ v = Update(x, p)
  BY Zenon DEF PairSwap, Then, Require, ProductKept, Balance
<1> HIDE DEF input, x
<1>4. Ledgers(x) /\ SamePools(w, x) /\ x.kash = w.kash
  BY <1>1, <1>2, <1>3, TransferLedgers DEF x
<1>5. /\ \A t \in Token, c \in Account : (t # output \/ c \notin {p, to}) => x.tok[t][c] = w.tok[t][c]
      /\ p # to => x.tok[output][to] = w.tok[output][to] + Delivered(output, amountOut)
  BY <1>1, <1>2, <1>3, TransferMoves DEF x
<1>6. /\ Ledgers(v) /\ v \in World /\ SameMoney(x, v)
      /\ v.pairs = x.pairs /\ v.lp = x.lp /\ v.supply = x.supply
      /\ v.allowance = x.allowance /\ v.nonces = x.nonces
      /\ \A t \in p : v.reserve[p][t] = x.tok[t][p]
      /\ OthersKept(x, v, p)
  BY <1>3, <1>4, UpdateSets DEF Ledgers
<1>7. OthersKept(w, v, p)
  BY <1>4, <1>6 DEF OthersKept, SamePools
<1>8. Covered(v)
  <2> SUFFICES ASSUME NEW q \in Pool, NEW s \in q PROVE v.reserve[q][s] <= v.tok[s][q]
    BY DEF Covered
  <2>1. v.tok[s][q] \in Nat /\ w.tok[s][q] \in Nat /\ s \in Token /\ q \in Account
    BY <1>1, <1>6, TwoTokens, Accounts, WorldParts
  <2>2. CASE q = p
    <3>1. \A i \in Nat : i <= i
      BY SMT
    <3> QED BY <1>6, <2>1, <2>2, <3>1 DEF SameMoney
  <2>3. CASE q # p
    <3>1. v.reserve[q] = w.reserve[q]
      BY <1>7, <2>3 DEF OthersKept
    <3>2. w.reserve[q][s] <= w.tok[s][q] /\ w.reserve[q][s] \in Nat
      BY <1>1, <2>1, WorldParts DEF Sound, Covered
    <3>3. w.tok[s][q] <= v.tok[s][q]
      <4>1. CASE s = output /\ q = to
        <5>1. v.tok[s][q] = w.tok[s][q] + Delivered(output, amountOut)
          BY <1>5, <1>6, <2>3, <4>1 DEF SameMoney
        <5>2. Delivered(output, amountOut) \in Nat
          BY <1>2, DeliveredType
        <5> QED BY <2>1, <5>1, <5>2, SMT
      <4>2. CASE ~(s = output /\ q = to)
        <5>1. v.tok[s][q] = w.tok[s][q]
          BY <1>5, <1>6, <2>1, <2>3, <4>2 DEF SameMoney
        <5> QED BY <2>1, <5>1, SMT
      <4> QED BY <4>1, <4>2
    <3> QED BY <2>1, <3>1, <3>2, <3>3, SMT
  <2> QED BY <2>2, <2>3
<1>9. Kept(w, v)
  <2> DEFINE ri == w.reserve[p][input]
             ro == w.reserve[p][output]
             xi == x.tok[input][p]
             xo == x.tok[output][p]
             S == w.supply[p]
  <2>1. ri \in Nat /\ ro \in Nat /\ xi \in Nat /\ xo \in Nat /\ S \in Nat
    BY <1>1, <1>2, <1>4, WorldParts DEF Ledgers
  <2>2. v.reserve[p][input] = xi /\ v.reserve[p][output] = xo /\ v.supply[p] = S
    BY <1>2, <1>4, <1>6 DEF SamePools
  <2>3. in1 = IF xi > ri - 0 THEN xi - (ri - 0) ELSE 0
    BY DEF Inferred, Balance
  <2>4. in2 = IF xo > ro - amountOut THEN xo - (ro - amountOut) ELSE 0
    BY DEF Inferred, Balance
  <2>5. amountOut < ro
    BY <1>3
  <2>6. KHolds(xi, xo, in1, in2, ri, ro)
    BY <1>3
  <2> HIDE DEF ri, ro, xi, xo, S, in1, in2
  <2>7. in1 \in Nat /\ in1 <= xi
    BY <2>1, <2>3, SMT
  <2>8. in2 \in Nat /\ in2 <= xo
    BY <2>1, <2>4, <2>5, SMT
  <2>9. ri * ro <= xi * xo
    <3>1. CASE ri > 0
      <4>1. ro > 0
        BY <2>1, <2>5, SMT
      <4>2. xi * xo >= ri * ro
        BY <2>1, <2>6, <2>7, <2>8, <3>1, <4>1, KKeepsBalances
      <4>3. xi * xo \in Nat /\ ri * ro \in Nat
        BY <2>1, SMT
      <4> QED BY <4>2, <4>3, SMT
    <3>2. CASE ri = 0
      <4>1. ri * ro = 0 /\ xi * xo \in Nat
        BY <2>1, <3>2, SMT
      <4> QED BY <4>1, SMT
    <3> QED BY <2>1, <3>1, <3>2, SMT
  <2>10. (ri * ro) * (S * S) <= (xi * xo) * (S * S)
    <3>1. ri * ro \in Nat /\ xi * xo \in Nat /\ S * S \in Nat /\ S * S <= S * S
      BY <2>1, SMT
    <3> QED BY <2>9, <3>1, MulMonotone
  <2>11. w.supply[p] > 0 =>
           /\ v.supply[p] > 0
           /\ (w.reserve[p][input] * w.reserve[p][output]) * (v.supply[p] * v.supply[p])
                <= (v.reserve[p][input] * v.reserve[p][output]) * (w.supply[p] * w.supply[p])
    BY <2>2, <2>10 DEF ri, ro, S
  <2> QED BY <1>1, <1>2, <1>6, <1>7, <2>11, KeptByPair
<1>10. v.tok = x.tok /\ v.kash = w.kash
  BY <1>4, <1>6 DEF SameMoney
<1> QED BY <1>3, <1>4, <1>5, <1>6, <1>7, <1>8, <1>9, <1>10 DEF Sound, SamePools

-----------------------------------------------------------------------------
(* Paths.  The definitions along a path are recursive functions of the     *)
(* hop; that they exist is an induction, on a set of numbers.              *)

(* The worlds after each hop of a swap with fixed amounts.                 *)
AlongNext(v, amounts, path, i, to) == Then(v, LAMBDA u : FixedHop(u, amounts, path, i, to))
IsAlong(f, n, w, amounts, path, to) ==
  f = [i \in 0 .. n |-> IF i = 0 THEN w ELSE AlongNext(f[i - 1], amounts, path, i, to)]

(* _swap along a path, as a function of the hop.                           *)
LEMMA AlongExists ==
  ASSUME NEW n \in Nat, NEW w, NEW amounts, NEW path, NEW to
  PROVE  \E f : IsAlong(f, n, w, amounts, path, to)
<1> DEFINE S == {k \in Nat : \E f : IsAlong(f, k, w, amounts, path, to)}
<1>1. 0 \in S
  <2>1. IsAlong([i \in 0 .. 0 |-> w], 0, w, amounts, path, to)
    <3>1. \A i \in 0 .. 0 : i = 0
      BY SMT
    <3> QED BY <3>1 DEF IsAlong
  <2> QED BY <2>1
<1>2. ASSUME NEW k \in 0 .. n - 1, k \in S PROVE k + 1 \in S
  <2>1. PICK f : IsAlong(f, k, w, amounts, path, to)
    BY <1>2
  <2>2. k \in Nat /\ k + 1 \in Nat /\ k + 1 # 0 /\ (k + 1) - 1 = k
    BY <1>2, SMT
  <2>3. /\ \A i \in 0 .. k + 1 : i \in 0 .. k \/ i = k + 1
        /\ \A i \in 0 .. k + 1 : i # 0 => i - 1 \in 0 .. k /\ i - 1 \in 0 .. k + 1 /\ i - 1 # k + 1
        /\ \A i \in 0 .. k : i # k + 1
    BY <2>2, SMT
  <2> DEFINE g == [i \in 0 .. k + 1 |-> IF i = k + 1 THEN AlongNext(f[k], amounts, path, k + 1, to)
                                                      ELSE f[i]]
             h == [i \in 0 .. k + 1 |-> IF i = 0 THEN w ELSE AlongNext(g[i - 1], amounts, path, i, to)]
  <2>4. \A i \in 0 .. k : f[i] = IF i = 0 THEN w ELSE AlongNext(f[i - 1], amounts, path, i, to)
    BY <2>1 DEF IsAlong
  <2>5. ASSUME NEW i \in 0 .. k + 1 PROVE g[i] = h[i]
    <3>1. CASE i = k + 1
      BY <2>2, <2>3, <3>1
    <3>2. CASE i # k + 1
      <4>1. i \in 0 .. k /\ g[i] = f[i]
        BY <2>3, <3>2
      <4>2. i # 0 => g[i - 1] = f[i - 1]
        BY <2>3
      <4> QED BY <2>4, <4>1, <4>2
    <3> QED BY <3>1, <3>2
  <2>6. g = h
    BY <2>5
  <2>7. IsAlong(g, k + 1, w, amounts, path, to)
    BY <2>6 DEF IsAlong
  <2> QED BY <2>2, <2>7
<1>3. n \in 0 .. n
  BY SMT
<1>4. n \in S
  <2> HIDE DEF S
  <2> QED BY <1>1, <1>2, <1>3, UpTo
<1> QED BY <1>4

LEMMA Along ==
  ASSUME NEW path \in Seq(Token), Len(path) >= 2, NEW w, NEW amounts, NEW to
  PROVE  \E f : /\ f[0] = w
                /\ \A i \in 1 .. Len(path) - 1 :
                     f[i] = AlongNext(f[i - 1], amounts, path, i, to)
                /\ SwapAlong(w, amounts, path, to) = f[Len(path) - 1]
<1> DEFINE n == Len(path) - 1
           f == CHOOSE x : IsAlong(x, n, w, amounts, path, to)
<1>1. n \in Nat
  BY SMT
<1>2. IsAlong(f, n, w, amounts, path, to)
  <2> HIDE DEF n
  <2> QED BY <1>1, AlongExists
<1>3. SwapAlong(w, amounts, path, to) = f[n]
  BY DEF SwapAlong, IsAlong, AlongNext
<1>4. 0 \in 0 .. n /\ \A i \in 1 .. n : i \in 0 .. n /\ i # 0
  BY <1>1, SMT
<1> HIDE DEF n, f
<1>5. f[0] = w /\ \A i \in 1 .. n : f[i] = AlongNext(f[i - 1], amounts, path, i, to)
  BY <1>2, <1>4 DEF IsAlong
<1> QED BY <1>3, <1>5 DEF n
(* The same for the hops that swap what has arrived.                       *)
ArrivedNext(v, path, i, to) == Then(v, LAMBDA u : ArrivedHop(u, path, i, to))
IsArrived(f, n, w, path, to) ==
  f = [i \in 0 .. n |-> IF i = 0 THEN w ELSE ArrivedNext(f[i - 1], path, i, to)]

(* The same for the swaps that measure what arrives.                       *)
LEMMA ArrivedExists ==
  ASSUME NEW n \in Nat, NEW w, NEW path, NEW to
  PROVE  \E f : IsArrived(f, n, w, path, to)
<1> DEFINE S == {k \in Nat : \E f : IsArrived(f, k, w, path, to)}
<1>1. 0 \in S
  <2>1. IsArrived([i \in 0 .. 0 |-> w], 0, w, path, to)
    <3>1. \A i \in 0 .. 0 : i = 0
      BY SMT
    <3> QED BY <3>1 DEF IsArrived
  <2> QED BY <2>1
<1>2. ASSUME NEW k \in 0 .. n - 1, k \in S PROVE k + 1 \in S
  <2>1. PICK f : IsArrived(f, k, w, path, to)
    BY <1>2
  <2>2. k \in Nat /\ k + 1 \in Nat /\ k + 1 # 0 /\ (k + 1) - 1 = k
    BY <1>2, SMT
  <2>3. /\ \A i \in 0 .. k + 1 : i \in 0 .. k \/ i = k + 1
        /\ \A i \in 0 .. k + 1 : i # 0 => i - 1 \in 0 .. k /\ i - 1 \in 0 .. k + 1 /\ i - 1 # k + 1
        /\ \A i \in 0 .. k : i # k + 1
    BY <2>2, SMT
  <2> DEFINE g == [i \in 0 .. k + 1 |-> IF i = k + 1 THEN ArrivedNext(f[k], path, k + 1, to) ELSE f[i]]
             h == [i \in 0 .. k + 1 |-> IF i = 0 THEN w ELSE ArrivedNext(g[i - 1], path, i, to)]
  <2>4. \A i \in 0 .. k : f[i] = IF i = 0 THEN w ELSE ArrivedNext(f[i - 1], path, i, to)
    BY <2>1 DEF IsArrived
  <2>5. ASSUME NEW i \in 0 .. k + 1 PROVE g[i] = h[i]
    <3>1. CASE i = k + 1
      BY <2>2, <2>3, <3>1
    <3>2. CASE i # k + 1
      <4>1. i \in 0 .. k /\ g[i] = f[i]
        BY <2>3, <3>2
      <4>2. i # 0 => g[i - 1] = f[i - 1]
        BY <2>3
      <4> QED BY <2>4, <4>1, <4>2
    <3> QED BY <3>1, <3>2
  <2>6. g = h
    BY <2>5
  <2>7. IsArrived(g, k + 1, w, path, to)
    BY <2>6 DEF IsArrived
  <2> QED BY <2>2, <2>7
<1>3. n \in 0 .. n
  BY SMT
<1>4. n \in S
  <2> HIDE DEF S
  <2> QED BY <1>1, <1>2, <1>3, UpTo
<1> QED BY <1>4

LEMMA ArrivedAlong ==
  ASSUME NEW path \in Seq(Token), Len(path) >= 2, NEW w, NEW to
  PROVE  \E f : /\ f[0] = w
                /\ \A i \in 1 .. Len(path) - 1 :
                     f[i] = ArrivedNext(f[i - 1], path, i, to)
                /\ SwapArrived(w, path, to) = f[Len(path) - 1]
<1> DEFINE n == Len(path) - 1
           f == CHOOSE x : IsArrived(x, n, w, path, to)
<1>1. n \in Nat
  BY SMT
<1>2. IsArrived(f, n, w, path, to)
  <2> HIDE DEF n
  <2> QED BY <1>1, ArrivedExists
<1>3. SwapArrived(w, path, to) = f[n]
  BY DEF SwapArrived, IsArrived, ArrivedNext
<1>4. 0 \in 0 .. n /\ \A i \in 1 .. n : i \in 0 .. n /\ i # 0
  BY <1>1, SMT
<1> HIDE DEF n, f
<1>5. f[0] = w /\ \A i \in 1 .. n : f[i] = ArrivedNext(f[i - 1], path, i, to)
  BY <1>2, <1>4 DEF IsArrived
<1> QED BY <1>3, <1>5 DEF n

(* Quotes are natural numbers, less than the reserve they come from.       *)
LEMMA QuoteOutType ==
  ASSUME NEW w \in World, NEW x \in Nat, NEW a \in Token, NEW b \in Token, a # b
  PROVE  /\ QuoteOut(w, x, a, b) \in Nat
         /\ QuoteOut(w, x, a, b) > 0 =>
              /\ x > 0 /\ PairFor(a, b) \in w.pairs
              /\ w.reserve[PairFor(a, b)][a] > 0 /\ w.reserve[PairFor(a, b)][b] > 0
              /\ QuoteOut(w, x, a, b) = GetAmountOut(x, w.reserve[PairFor(a, b)][a],
                                                        w.reserve[PairFor(a, b)][b])
              /\ QuoteOut(w, x, a, b) < w.reserve[PairFor(a, b)][b]
<1> DEFINE p == PairFor(a, b)
           ra == w.reserve[p][a]
           rb == w.reserve[p][b]
<1>1. p \in Pool /\ ra \in Nat /\ rb \in Nat
  <2>1. p \in Pool
    BY Sides
  <2> QED BY <2>1, WorldParts
<1>2. CASE x > 0 /\ Reserve(w, p, a) > 0 /\ Reserve(w, p, b) > 0
  <2>1. ~(0 > 0)
    BY SMT
  <2>2. p \in w.pairs /\ ra > 0 /\ rb > 0
    BY <1>2, <2>1 DEF Reserve
  <2>3. QuoteOut(w, x, a, b) = GetAmountOut(x, ra, rb)
    BY <1>2 DEF QuoteOut
  <2> HIDE DEF p, ra, rb
  <2>4. x \in Nat \ {0} /\ ra \in Nat \ {0} /\ rb \in Nat \ {0}
    BY <1>1, <1>2, <2>2, SMT
  <2>5. GetAmountOut(x, ra, rb) \in 0 .. rb - 1
    BY <2>4, AmountOutBelowReserve
  <2>6. GetAmountOut(x, ra, rb) \in Nat /\ GetAmountOut(x, ra, rb) < rb
    BY <1>1, <2>5, SMT
  <2> QED BY <1>2, <2>2, <2>3, <2>6 DEF p, ra, rb
<1>3. CASE ~(x > 0 /\ Reserve(w, p, a) > 0 /\ Reserve(w, p, b) > 0)
  <2>1. QuoteOut(w, x, a, b) = 0
    BY <1>3 DEF QuoteOut
  <2> QED BY <2>1, SMT
<1> QED BY <1>2, <1>3

LEMMA QuoteInType ==
  ASSUME NEW w \in World, NEW x \in Nat, NEW a \in Token, NEW b \in Token, a # b
  PROVE  /\ QuoteIn(w, x, a, b) \in Nat
         /\ QuoteIn(w, x, a, b) > 0 =>
              /\ x > 0 /\ PairFor(a, b) \in w.pairs
              /\ w.reserve[PairFor(a, b)][a] > 0 /\ x < w.reserve[PairFor(a, b)][b]
              /\ QuoteIn(w, x, a, b) = GetAmountIn(x, w.reserve[PairFor(a, b)][a],
                                                      w.reserve[PairFor(a, b)][b])
<1> DEFINE p == PairFor(a, b)
           ra == w.reserve[p][a]
           rb == w.reserve[p][b]
<1>1. p \in Pool /\ ra \in Nat /\ rb \in Nat
  <2>1. p \in Pool
    BY Sides
  <2> QED BY <2>1, WorldParts
<1>2. CASE x > 0 /\ Reserve(w, p, a) > 0 /\ x < Reserve(w, p, b)
  <2>1. ~(0 > 0)
    BY SMT
  <2>2. p \in w.pairs /\ ra > 0 /\ x < rb
    BY <1>2, <2>1 DEF Reserve
  <2>3. QuoteIn(w, x, a, b) = GetAmountIn(x, ra, rb)
    BY <1>2 DEF QuoteIn
  <2> HIDE DEF p, ra, rb
  <2>4. GetAmountIn(x, ra, rb) \in Nat \ {0}
    BY <1>1, <2>2, AmountInType
  <2> QED BY <1>2, <2>2, <2>3, <2>4 DEF p, ra, rb
<1>3. CASE ~(x > 0 /\ Reserve(w, p, a) > 0 /\ x < Reserve(w, p, b))
  <2>1. QuoteIn(w, x, a, b) = 0
    BY <1>3 DEF QuoteIn
  <2> QED BY <2>1, SMT
<1> QED BY <1>2, <1>3
(* A path is at least two tokens long, and no hop trades a token for       *)
(* itself (RouterAssumption).                                              *)
IsPath(path) ==
  /\ path \in Seq(Token) /\ Len(path) >= 2
  /\ \A i \in 1 .. Len(path) - 1 : path[i] # path[i + 1]

(* The tokens along a path and their number.                               *)
LEMMA PathParts ==
  ASSUME NEW path, IsPath(path)
  PROVE  /\ Len(path) \in Nat /\ Len(path) >= 2 /\ Len(path) - 1 \in Nat
         /\ Seqs!Last(path) = path[Len(path)]
         /\ path[1] \in Token /\ path[Len(path)] \in Token
         /\ \A i \in 1 .. Len(path) : path[i] \in Token
         /\ \A i \in 1 .. Len(path) - 1 :
              /\ path[i] \in Token /\ path[i + 1] \in Token /\ path[i] # path[i + 1]
              /\ i \in 1 .. Len(path) /\ i + 1 \in 1 .. Len(path)
              /\ PairFor(path[i], path[i + 1]) \in Pool
              /\ path[i] \in PairFor(path[i], path[i + 1])
              /\ path[i + 1] \in PairFor(path[i], path[i + 1])
<1>1. path \in Seq(Token) /\ Len(path) \in Nat /\ Len(path) >= 2
  BY SMT DEF IsPath
<1>2. \A i \in 1 .. Len(path) : path[i] \in Token
  BY <1>1, SMT
<1>3. 1 \in 1 .. Len(path) /\ Len(path) \in 1 .. Len(path) /\ Len(path) - 1 \in Nat
  BY <1>1, SMT
<1>4. ASSUME NEW i \in 1 .. Len(path) - 1
      PROVE  i \in 1 .. Len(path) /\ i + 1 \in 1 .. Len(path)
  BY <1>1, SMT
<1>5. ASSUME NEW i \in 1 .. Len(path) - 1
      PROVE  /\ PairFor(path[i], path[i + 1]) \in Pool
             /\ path[i] \in PairFor(path[i], path[i + 1])
             /\ path[i + 1] \in PairFor(path[i], path[i + 1])
  <2>1. path[i] # path[i + 1]
    BY DEF IsPath
  <2>2. path[i] \in Token /\ path[i + 1] \in Token
    BY <1>2, <1>4
  <2> QED BY <2>1, <2>2, Sides DEF PairFor
<1>6. Seqs!Last(path) = path[Len(path)]
  BY DEF Seqs!Last
<1> QED BY <1>1, <1>2, <1>3, <1>4, <1>5, <1>6 DEF IsPath

(* getAmountsOut and getAmountsIn, hop by hop.                             *)
OutStep(f, i, w, x, path) == IF i = 1 THEN x ELSE QuoteOut(w, f[i - 1], path[i - 1], path[i])
IsOut(f, n, w, x, path) == f = [i \in 1 .. n |-> OutStep(f, i, w, x, path)]

(* getAmountsOut, as a function of the place on the path.                  *)
LEMMA OutExists ==
  ASSUME NEW n \in Nat, NEW w, NEW x, NEW path
  PROVE  \E f : IsOut(f, n, w, x, path)
<1> DEFINE S == {k \in Nat : \E f : IsOut(f, k, w, x, path)}
<1>1. 0 \in S
  <2>1. IsOut([i \in 1 .. 0 |-> x], 0, w, x, path)
    <3>1. \A i \in 1 .. 0 : FALSE
      BY SMT
    <3> QED BY <3>1 DEF IsOut
  <2> QED BY <2>1
<1>2. ASSUME NEW k \in 0 .. n - 1, k \in S PROVE k + 1 \in S
  <2>1. PICK f : IsOut(f, k, w, x, path)
    BY <1>2
  <2>2. k \in Nat /\ k + 1 \in Nat /\ (k + 1) - 1 = k
    BY <1>2, SMT
  <2>3. /\ \A i \in 1 .. k + 1 : i \in 1 .. k \/ i = k + 1
        /\ \A i \in 1 .. k + 1 : i # 1 => i - 1 \in 1 .. k /\ i - 1 \in 1 .. k + 1 /\ i - 1 # k + 1
        /\ \A i \in 1 .. k : i # k + 1
    BY <2>2, SMT
  <2> DEFINE g == [i \in 1 .. k + 1 |-> IF i = k + 1 THEN OutStep(f, i, w, x, path) ELSE f[i]]
             h == [i \in 1 .. k + 1 |-> OutStep(g, i, w, x, path)]
  <2>4. \A i \in 1 .. k : f[i] = OutStep(f, i, w, x, path)
    BY <2>1 DEF IsOut
  <2>5. ASSUME NEW i \in 1 .. k + 1 PROVE g[i] = h[i]
    <3>1. i # 1 => g[i - 1] = f[i - 1]
      BY <2>3
    <3>2. h[i] = OutStep(f, i, w, x, path)
      BY <3>1 DEF OutStep
    <3>3. CASE i = k + 1
      BY <3>2, <3>3
    <3>4. CASE i # k + 1
      <4>1. i \in 1 .. k
        BY <2>3, <3>4
      <4> QED BY <2>4, <3>2, <3>4, <4>1
    <3> QED BY <3>3, <3>4
  <2>6. g = h
    BY <2>5
  <2>7. IsOut(g, k + 1, w, x, path)
    BY <2>6 DEF IsOut
  <2> QED BY <2>2, <2>7
<1>3. n \in 0 .. n
  BY SMT
<1>4. n \in S
  <2> HIDE DEF S
  <2> QED BY <1>1, <1>2, <1>3, UpTo
<1> QED BY <1>4

LEMMA AmountsOut ==
  ASSUME NEW w \in World, NEW x \in Nat, NEW path, IsPath(path),
         NEW amounts, amounts = GetAmountsOut(w, x, path)
  PROVE  /\ amounts[1] = x
         /\ \A i \in 1 .. Len(path) : amounts[i] \in Nat
         /\ \A i \in 1 .. Len(path) - 1 :
              amounts[i + 1] = QuoteOut(w, amounts[i], path[i], path[i + 1])
         /\ Seqs!Last(amounts) = amounts[Len(path)]
<1> DEFINE n == Len(path)
           f == CHOOSE g : IsOut(g, n, w, x, path)
<1>1. n \in Nat /\ n >= 2
  BY PathParts
<1>2. IsOut(f, n, w, x, path)
  <2> HIDE DEF n
  <2> QED BY <1>1, OutExists
<1>3. amounts = f
  BY DEF GetAmountsOut, IsOut, OutStep
<1> HIDE DEF f
<1>4. amounts = [i \in 1 .. n |-> OutStep(amounts, i, w, x, path)]
  BY <1>2, <1>3 DEF IsOut
<1>5. /\ 1 \in 1 .. n /\ n \in 1 .. n
      /\ \A i \in 1 .. n - 1 : i \in 1 .. n /\ i + 1 \in 1 .. n /\ i + 1 # 1 /\ (i + 1) - 1 = i
  BY <1>1, SMT
<1> HIDE DEF n
<1>6. amounts[1] = x
  BY <1>4, <1>5 DEF OutStep
<1>7. ASSUME NEW i \in 1 .. n - 1
      PROVE  amounts[i + 1] = QuoteOut(w, amounts[i], path[i], path[i + 1])
  <2>1. i + 1 \in 1 .. n /\ i + 1 # 1 /\ (i + 1) - 1 = i
    BY <1>5
  <2>2. amounts[i + 1] = OutStep(amounts, i + 1, w, x, path)
    BY <1>4, <2>1
  <2> QED BY <2>1, <2>2 DEF OutStep
<1>8. ASSUME NEW i \in 1 .. n PROVE amounts[i] \in Nat
  <2> DEFINE S == {k \in Nat : k + 1 \in 1 .. n => amounts[k + 1] \in Nat}
  <2>1. 0 \in S
    BY <1>6, SMT
  <2>2. ASSUME NEW k \in 0 .. n - 1, k \in S PROVE k + 1 \in S
    <3>1. k \in Nat /\ k + 1 \in Nat
      BY SMT
    <3>2. CASE (k + 1) + 1 \in 1 .. n
      <4>1. k + 1 \in 1 .. n - 1 /\ k + 1 \in 1 .. n
        BY <1>1, <3>1, <3>2, SMT
      <4>2. amounts[k + 1] \in Nat
        BY <2>2, <4>1
      <4>3. path[k + 1] \in Token /\ path[(k + 1) + 1] \in Token /\ path[k + 1] # path[(k + 1) + 1]
        BY <4>1, PathParts DEF n
      <4>4. QuoteOut(w, amounts[k + 1], path[k + 1], path[(k + 1) + 1]) \in Nat
        BY <4>2, <4>3, QuoteOutType
      <4>5. amounts[(k + 1) + 1] = QuoteOut(w, amounts[k + 1], path[k + 1], path[(k + 1) + 1])
        BY <1>7, <4>1
      <4> QED BY <3>1, <4>4, <4>5
    <3> QED BY <3>1, <3>2
  <2>3. \A k \in 0 .. n : k \in S
    <3> HIDE DEF S
    <3> QED BY <1>1, <2>1, <2>2, UpTo
  <2>4. i - 1 \in 0 .. n /\ (i - 1) + 1 = i
    BY <1>1, SMT
  <2> QED BY <2>3, <2>4
<1>9. Seqs!Last(amounts) = amounts[n]
  <2>1. DOMAIN amounts = 1 .. n
    BY <1>4
  <2>2. Len(amounts) = n
    <3> DEFINE g == [i \in 1 .. n |-> OutStep(amounts, i, w, x, path)]
    <3>1. amounts = g
      BY <1>4
    <3>2. Len(g) = n
      BY <1>1, SMT
    <3> QED BY <3>1, <3>2
  <2> QED BY <2>2 DEF Seqs!Last
<1> QED BY <1>6, <1>7, <1>8, <1>9 DEF n
(* getAmountsIn goes from the last token back: n is how far it has come.   *)
InStep(f, i, w, x, path) ==
  IF i = Len(path) THEN x ELSE QuoteIn(w, f[i + 1], path[i], path[i + 1])
IsIn(f, n, w, x, path) == f = [i \in Len(path) - n .. Len(path) |-> InStep(f, i, w, x, path)]

(* getAmountsIn, from the end of the path.                                 *)
LEMMA InExists ==
  ASSUME NEW path, Len(path) \in Nat, NEW n \in Nat, NEW w, NEW x
  PROVE  \E f : IsIn(f, n, w, x, path)
<1> DEFINE m == Len(path)
           S == {k \in Nat : \E f : IsIn(f, k, w, x, path)}
<1> HIDE DEF m
<1>1. m \in Nat
  BY DEF m
<1>2. 0 \in S
  <2>1. IsIn([i \in m - 0 .. m |-> x], 0, w, x, path)
    <3>1. \A i \in m - 0 .. m : i = m
      BY <1>1, SMT
    <3> QED BY <3>1 DEF IsIn, InStep, m
  <2> QED BY <2>1
<1>3. ASSUME NEW k \in 0 .. n - 1, k \in S PROVE k + 1 \in S
  <2>1. PICK f : IsIn(f, k, w, x, path)
    BY <1>3
  <2>2. k \in Nat /\ k + 1 \in Nat
    BY <1>3, SMT
  <2> DEFINE j == m - (k + 1)
  <2>3. /\ \A i \in j .. m : i \in m - k .. m \/ i = j
        /\ \A i \in j .. m : i # m => i + 1 \in m - k .. m /\ i + 1 \in j .. m /\ i + 1 # j
        /\ \A i \in m - k .. m : i # j
    BY <1>1, <2>2, SMT
  <2> HIDE DEF j
  <2> DEFINE g == [i \in j .. m |-> IF i = j THEN InStep(f, i, w, x, path) ELSE f[i]]
             h == [i \in j .. m |-> InStep(g, i, w, x, path)]
  <2>4. \A i \in m - k .. m : f[i] = InStep(f, i, w, x, path)
    BY <2>1 DEF IsIn, m
  <2>5. ASSUME NEW i \in j .. m PROVE g[i] = h[i]
    <3>1. i # m => g[i + 1] = f[i + 1]
      BY <2>3
    <3>2. h[i] = InStep(f, i, w, x, path)
      BY <3>1 DEF InStep, m
    <3>3. CASE i = j
      BY <3>2, <3>3
    <3>4. CASE i # j
      <4>1. i \in m - k .. m
        BY <2>3, <3>4
      <4> QED BY <2>4, <3>2, <3>4, <4>1
    <3> QED BY <3>3, <3>4
  <2>6. g = h
    BY <2>5
  <2>7. IsIn(g, k + 1, w, x, path)
    BY <2>6 DEF IsIn, m, j
  <2> QED BY <2>2, <2>7
<1>4. n \in 0 .. n
  BY SMT
<1>5. n \in S
  <2> HIDE DEF S
  <2> QED BY <1>2, <1>3, <1>4, UpTo
<1> QED BY <1>5

LEMMA AmountsIn ==
  ASSUME NEW w \in World, NEW x \in Nat, NEW path, IsPath(path),
         NEW amounts, amounts = GetAmountsIn(w, x, path)
  PROVE  /\ amounts[Len(path)] = x
         /\ \A i \in 1 .. Len(path) : amounts[i] \in Nat
         /\ \A i \in 1 .. Len(path) - 1 :
              amounts[i] = QuoteIn(w, amounts[i + 1], path[i], path[i + 1])
<1> DEFINE n == Len(path)
           f == CHOOSE g : IsIn(g, n - 1, w, x, path)
<1>1. n \in Nat /\ n >= 2 /\ n - 1 \in Nat
  BY PathParts
<1>2. IsIn(f, n - 1, w, x, path)
  BY <1>1, InExists
<1>3. n - (n - 1) = 1
  BY <1>1, SMT
<1>4. amounts = f
  BY <1>3 DEF GetAmountsIn, IsIn, InStep
<1> HIDE DEF f
<1>5. amounts = [i \in 1 .. n |-> InStep(amounts, i, w, x, path)]
  BY <1>2, <1>3, <1>4 DEF IsIn
<1>6. n \in 1 .. n /\ \A i \in 1 .. n - 1 : i \in 1 .. n /\ i # n
  BY <1>1, SMT
<1>7. amounts[n] = x
  BY <1>5, <1>6 DEF InStep
<1>8. ASSUME NEW i \in 1 .. n - 1
      PROVE  amounts[i] = QuoteIn(w, amounts[i + 1], path[i], path[i + 1])
  BY <1>5, <1>6 DEF InStep
<1> HIDE DEF n
<1>9. ASSUME NEW i \in 1 .. n PROVE amounts[i] \in Nat
  <2> DEFINE S == {k \in Nat : n - k \in 1 .. n => amounts[n - k] \in Nat}
  <2>1. 0 \in S
    <3>1. n - 0 = n
      BY <1>1, SMT
    <3> QED BY <1>7, <3>1
  <2>2. ASSUME NEW k \in 0 .. n - 1, k \in S PROVE k + 1 \in S
    <3>1. k \in Nat /\ k + 1 \in Nat
      BY SMT
    <3> DEFINE j == n - (k + 1)
    <3>2. CASE j \in 1 .. n
      <4>1. j \in 1 .. n - 1 /\ j + 1 = n - k /\ n - k \in 1 .. n
        BY <1>1, <3>1, <3>2, SMT
      <4> HIDE DEF j
      <4>2. amounts[j + 1] \in Nat
        BY <2>2, <4>1
      <4>3. path[j] \in Token /\ path[j + 1] \in Token /\ path[j] # path[j + 1]
        BY <4>1, PathParts DEF n
      <4>4. QuoteIn(w, amounts[j + 1], path[j], path[j + 1]) \in Nat
        BY <4>2, <4>3, QuoteInType
      <4>5. amounts[j] = QuoteIn(w, amounts[j + 1], path[j], path[j + 1])
        BY <1>8, <4>1
      <4> QED BY <3>1, <4>4, <4>5 DEF j
    <3> QED BY <3>1, <3>2
  <2>3. \A k \in 0 .. n : k \in S
    <3> HIDE DEF S
    <3> QED BY <1>1, <2>1, <2>2, UpTo
  <2>4. n - i \in 0 .. n /\ n - (n - i) = i /\ n - i \in Nat
    BY <1>1, SMT
  <2> QED BY <2>3, <2>4
<1> QED BY <1>7, <1>8, <1>9 DEF n
(* What a swap does to a world: only pools pay, and only pools and the     *)
(* recipient are paid.                                                     *)
Carried(w, v) ==
  /\ Sound(v) /\ Kept(w, v) /\ v.kash = w.kash
  /\ v.pairs = w.pairs /\ v.lp = w.lp /\ v.supply = w.supply
  /\ v.allowance = w.allowance /\ v.nonces = w.nonces

OnTheWay(w, v) ==
  Carried(w, v) /\ \A t \in Token, c \in Account \ Pool : v.tok[t][c] = w.tok[t][c]

PaidOut(w, v, t, to, n) ==
  /\ Carried(w, v)
  /\ \A s \in Token, c \in Account \ Pool : (s # t \/ c # to) => v.tok[s][c] = w.tok[s][c]
  /\ v.tok[t][to] = w.tok[t][to] + n

(* What a swap carries from hop to hop, chained.                           *)
LEMMA CarriedOn ==
  ASSUME NEW w, Sound(w), NEW v, Carried(w, v), NEW x, Carried(v, x)
  PROVE  Carried(w, x)
<1>1. w \in World /\ v \in World /\ x \in World
  BY DEF Sound, Ledgers, Carried
<1>2. Kept(w, x)
  BY <1>1, KeptChained DEF Carried
<1> QED BY <1>2 DEF Carried

LEMMA HopOn ==
  ASSUME NEW w, Sound(w), NEW p \in Pool, NEW output \in p, NEW amountOut \in Nat,
         NEW to \in Pool, NEW v, v = PairSwap(w, p, output, amountOut, to), v # Failed
  PROVE  OnTheWay(w, v)
<1>1. to \in Account
  BY Accounts
<1>2. /\ Carried(w, v)
      /\ \A t \in Token, c \in Account : (t # output \/ c \notin {p, to}) => v.tok[t][c] = w.tok[t][c]
  BY <1>1, SwapSound DEF Carried
<1> QED BY <1>2 DEF OnTheWay

LEMMA HopOut ==
  ASSUME NEW w, Sound(w), NEW p \in Pool, NEW output \in p, NEW amountOut \in Nat,
         NEW to \in Account \ Pool, NEW v, v = PairSwap(w, p, output, amountOut, to), v # Failed
  PROVE  PaidOut(w, v, output, to, Delivered(output, amountOut)) /\ amountOut > 0
<1>1. to \in Account /\ to # p
  OBVIOUS
<1>2. /\ Carried(w, v) /\ 0 < amountOut
      /\ v.tok[output][to] = w.tok[output][to] + Delivered(output, amountOut)
      /\ \A t \in Token, c \in Account : (t # output \/ c \notin {p, to}) => v.tok[t][c] = w.tok[t][c]
  BY <1>1, SwapSound DEF Carried
<1>3. amountOut > 0
  BY <1>2, SMT
<1> QED BY <1>1, <1>2, <1>3 DEF PaidOut

(* What the hops of _swap leave alone, chained.                            *)
LEMMA OnTheWayOn ==
  ASSUME NEW w, Sound(w), NEW v, OnTheWay(w, v), NEW x, OnTheWay(v, x)
  PROVE  OnTheWay(w, x)
BY CarriedOn DEF OnTheWay

LEMMA OnTheWayOut ==
  ASSUME NEW w, Sound(w), NEW v, OnTheWay(w, v), NEW t \in Token, NEW to \in Account \ Pool,
         NEW n, NEW x, PaidOut(v, x, t, to, n)
  PROVE  PaidOut(w, x, t, to, n)
<1>1. Carried(w, x)
  BY CarriedOn DEF OnTheWay, PaidOut
<1> QED BY <1>1 DEF OnTheWay, PaidOut

LEMMA NoWay ==
  ASSUME NEW w, Sound(w)
  PROVE  OnTheWay(w, w)
<1>1. Kept(w, w)
  BY KeptWhenSame DEF Sound, Ledgers
<1> QED BY <1>1 DEF OnTheWay, Carried

(* A swap along a path, in the order _swap makes the hops.                 *)
LEMMA AlongSound ==
  ASSUME NEW w, Sound(w), NEW path, IsPath(path), NEW to \in Account \ Pool,
         NEW amounts, \A i \in 1 .. Len(path) : amounts[i] \in Nat,
         NEW v, v = SwapAlong(w, amounts, path, to), v # Failed
  PROVE  /\ PaidOut(w, v, path[Len(path)], to, Delivered(path[Len(path)], amounts[Len(path)]))
         /\ amounts[Len(path)] > 0
<1> DEFINE n == Len(path) - 1
<1>1. path \in Seq(Token) /\ Len(path) >= 2
  BY DEF IsPath
<1>2. PICK f : /\ f[0] = w
               /\ \A i \in 1 .. Len(path) - 1 :
                    f[i] = AlongNext(f[i - 1], amounts, path, i, to)
               /\ SwapAlong(w, amounts, path, to) = f[Len(path) - 1]
  BY <1>1, Along
<1>3. n \in Nat /\ n >= 1 /\ n - 1 \in Nat /\ n \in 1 .. n /\ n + 1 = Len(path)
  BY PathParts, SMT
<1>4. \A i \in 1 .. n :
        /\ PairFor(path[i], path[i + 1]) \in Pool /\ path[i + 1] \in PairFor(path[i], path[i + 1])
        /\ path[i + 1] \in Token /\ amounts[i + 1] \in Nat
  BY PathParts
<1>5. \A i \in 1 .. n : f[i] # Failed => f[i - 1] # Failed /\ f[i] = FixedHop(f[i - 1], amounts, path, i, to)
  BY <1>2 DEF AlongNext, Then
<1>6. \A i \in 1 .. n - 1 : HopTo(path, i, to) \in Pool
  <2> SUFFICES ASSUME NEW i \in 1 .. n - 1 PROVE HopTo(path, i, to) \in Pool
    OBVIOUS
  <2>1. i + 1 \in 1 .. n /\ i < Len(path) - 1 /\ (i + 1) + 1 = i + 2
    BY <1>3, SMT
  <2>2. PairFor(path[i + 1], path[i + 2]) \in Pool
    BY <1>4, <2>1
  <2> QED BY <2>1, <2>2 DEF HopTo
<1>7. HopTo(path, n, to) = to
  <2>1. ~(n < Len(path) - 1)
    BY <1>3, SMT
  <2> QED BY <2>1 DEF HopTo
<1> DEFINE S == {k \in Nat : f[k] # Failed => OnTheWay(w, f[k])}
<1>8. 0 \in S
  BY <1>2, NoWay
<1>9. ASSUME NEW k \in 0 .. (n - 1) - 1, k \in S PROVE k + 1 \in S
  <2>1. k \in Nat /\ k + 1 \in Nat /\ k + 1 \in 1 .. n - 1 /\ k + 1 \in 1 .. n /\ (k + 1) - 1 = k
    BY <1>3, SMT
  <2>2. CASE f[k + 1] # Failed
    <3>1. f[k] # Failed /\ f[k + 1] = FixedHop(f[k], amounts, path, k + 1, to)
      BY <1>5, <2>1, <2>2
    <3>2. OnTheWay(w, f[k]) /\ Sound(f[k])
      BY <1>9, <3>1 DEF OnTheWay, Carried
    <3> DEFINE u == f[k]
               x == f[k + 1]
               i == k + 1
    <3>3. x = PairSwap(u, PairFor(path[i], path[i + 1]), path[i + 1], amounts[i + 1], HopTo(path, i, to))
      BY <3>1 DEF FixedHop
    <3>4. /\ PairFor(path[i], path[i + 1]) \in Pool /\ path[i + 1] \in PairFor(path[i], path[i + 1])
          /\ amounts[i + 1] \in Nat /\ HopTo(path, i, to) \in Pool /\ Sound(u) /\ x # Failed
      BY <1>4, <1>6, <2>1, <2>2, <3>2
    <3> HIDE DEF u, x, i
    <3>5. OnTheWay(u, x)
      BY <3>3, <3>4, HopOn
    <3>6. OnTheWay(w, u)
      BY <3>2 DEF u
    <3>7. OnTheWay(w, x)
      BY <3>5, <3>6, OnTheWayOn
    <3> QED BY <2>1, <3>7 DEF x, i
  <2> QED BY <2>1, <2>2
<1>10. n - 1 \in S
  <2>1. \A k \in 0 .. n - 1 : k \in S
    <3> HIDE DEF S, n
    <3> QED BY <1>3, <1>8, <1>9, UpTo
  <2>2. n - 1 \in 0 .. n - 1
    BY <1>3, SMT
  <2> QED BY <2>1, <2>2
<1> DEFINE u == f[n - 1]
           out == path[n + 1]
<1>11. u # Failed /\ v = FixedHop(u, amounts, path, n, to)
  BY <1>2, <1>3, <1>5
<1>12. OnTheWay(w, u) /\ Sound(u)
  BY <1>10, <1>11 DEF OnTheWay, Carried
<1>13. v = PairSwap(u, PairFor(path[n], out), out, amounts[n + 1], to)
  BY <1>7, <1>11 DEF FixedHop
<1>14. /\ PairFor(path[n], out) \in Pool /\ out \in PairFor(path[n], out)
       /\ out \in Token /\ amounts[n + 1] \in Nat
  BY <1>3, <1>4
<1> HIDE DEF u, out
<1>15. PaidOut(u, v, out, to, Delivered(out, amounts[n + 1])) /\ amounts[n + 1] > 0
  BY <1>12, <1>13, <1>14, HopOut
<1>16. PaidOut(w, v, out, to, Delivered(out, amounts[n + 1]))
  BY <1>12, <1>14, <1>15, OnTheWayOut
<1> QED BY <1>3, <1>15, <1>16 DEF out
(* What has arrived at a pool whose reserves are backed is no debt.        *)
LEMMA ArrivedType ==
  ASSUME NEW w, Sound(w), NEW p \in Pool, NEW t \in p
  PROVE  Arrived(w, p, t) \in Nat
<1>1. t \in Token /\ p \in Account /\ w \in World
  BY TwoTokens, Accounts DEF Sound, Ledgers
<1>2. w.reserve[p][t] \in Nat /\ w.tok[t][p] \in Nat /\ w.reserve[p][t] <= w.tok[t][p]
  BY <1>1, WorldParts DEF Sound, Covered
<1> QED BY <1>2, SMT DEF Arrived, Balance

(* A swap of what arrives, in the order the function for taxed tokens      *)
(* makes the hops.                                                         *)
LEMMA ArrivedSound ==
  ASSUME NEW w, Sound(w), NEW path, IsPath(path), NEW to \in Account \ Pool,
         NEW v, v = SwapArrived(w, path, to), v # Failed
  PROVE  \E n \in Nat : PaidOut(w, v, path[Len(path)], to, n)
<1> DEFINE n == Len(path) - 1
<1>1. path \in Seq(Token) /\ Len(path) >= 2
  BY DEF IsPath
<1>2. PICK f : /\ f[0] = w
               /\ \A i \in 1 .. Len(path) - 1 :
                    f[i] = ArrivedNext(f[i - 1], path, i, to)
               /\ SwapArrived(w, path, to) = f[Len(path) - 1]
  BY <1>1, ArrivedAlong, SMTT(20)
<1>3. n \in Nat /\ n >= 1 /\ n - 1 \in Nat /\ n \in 1 .. n /\ n + 1 = Len(path)
  BY PathParts, SMT
<1>4. \A i \in 1 .. n :
        /\ PairFor(path[i], path[i + 1]) \in Pool /\ path[i + 1] \in PairFor(path[i], path[i + 1])
        /\ path[i] \in PairFor(path[i], path[i + 1]) /\ path[i] # path[i + 1]
        /\ path[i] \in Token /\ path[i + 1] \in Token
  BY PathParts
<1>5. \A i \in 1 .. n : f[i] # Failed => f[i - 1] # Failed /\ f[i] = ArrivedHop(f[i - 1], path, i, to)
  BY <1>2 DEF ArrivedNext, Then
<1>6. \A i \in 1 .. n - 1 : HopTo(path, i, to) \in Pool
  <2> SUFFICES ASSUME NEW i \in 1 .. n - 1 PROVE HopTo(path, i, to) \in Pool
    OBVIOUS
  <2>1. i + 1 \in 1 .. n /\ i < Len(path) - 1 /\ (i + 1) + 1 = i + 2
    BY <1>3, SMT
  <2>2. PairFor(path[i + 1], path[i + 2]) \in Pool
    BY <1>4, <2>1
  <2> QED BY <2>1, <2>2 DEF HopTo
<1>7. HopTo(path, n, to) = to
  <2>1. ~(n < Len(path) - 1)
    BY <1>3, SMT
  <2> QED BY <2>1 DEF HopTo
<1> DEFINE Amount(u, i) == QuoteOut(u, Arrived(u, PairFor(path[i], path[i + 1]), path[i]),
                                    path[i], path[i + 1])
<1>8. ASSUME NEW u, Sound(u), NEW i \in 1 .. n PROVE Amount(u, i) \in Nat
  <2>1. Arrived(u, PairFor(path[i], path[i + 1]), path[i]) \in Nat
    BY <1>4, <1>8, ArrivedType
  <2>2. u \in World
    BY <1>8 DEF Sound, Ledgers
  <2> QED BY <1>4, <2>1, <2>2, QuoteOutType
<1>9. ASSUME NEW u, NEW i \in 1 .. n, ArrivedHop(u, path, i, to) # Failed
      PROVE  ArrivedHop(u, path, i, to)
               = PairSwap(u, PairFor(path[i], path[i + 1]), path[i + 1], Amount(u, i), HopTo(path, i, to))
  BY <1>9 DEF ArrivedHop
<1> HIDE DEF Amount
<1> DEFINE S == {k \in Nat : f[k] # Failed => OnTheWay(w, f[k])}
<1>10. 0 \in S
  BY <1>2, NoWay
<1>11. ASSUME NEW k \in 0 .. (n - 1) - 1, k \in S PROVE k + 1 \in S
  <2>1. k \in Nat /\ k + 1 \in Nat /\ k + 1 \in 1 .. n - 1 /\ k + 1 \in 1 .. n /\ (k + 1) - 1 = k
    BY <1>3, SMT
  <2>2. CASE f[k + 1] # Failed
    <3>1. f[k] # Failed /\ f[k + 1] = ArrivedHop(f[k], path, k + 1, to)
      BY <1>5, <2>1, <2>2
    <3>2. OnTheWay(w, f[k]) /\ Sound(f[k])
      BY <1>11, <3>1 DEF OnTheWay, Carried
    <3> DEFINE u == f[k]
               x == f[k + 1]
               i == k + 1
    <3>3. x = PairSwap(u, PairFor(path[i], path[i + 1]), path[i + 1], Amount(u, i), HopTo(path, i, to))
      BY <1>9, <2>1, <2>2, <3>1
    <3>4. /\ PairFor(path[i], path[i + 1]) \in Pool /\ path[i + 1] \in PairFor(path[i], path[i + 1])
          /\ Amount(u, i) \in Nat /\ HopTo(path, i, to) \in Pool /\ Sound(u) /\ x # Failed
      BY <1>4, <1>6, <1>8, <2>1, <2>2, <3>2
    <3> HIDE DEF u, x, i
    <3>5. OnTheWay(u, x)
      BY <3>3, <3>4, HopOn
    <3>6. OnTheWay(w, u)
      BY <3>2 DEF u
    <3>7. OnTheWay(w, x)
      BY <3>5, <3>6, OnTheWayOn
    <3> QED BY <2>1, <3>7 DEF x, i
  <2> QED BY <2>1, <2>2
<1>12. n - 1 \in S
  <2>1. \A k \in 0 .. n - 1 : k \in S
    <3> HIDE DEF S, n
    <3> QED BY <1>3, <1>10, <1>11, UpTo
  <2>2. n - 1 \in 0 .. n - 1
    BY <1>3, SMT
  <2> QED BY <2>1, <2>2
<1> DEFINE u == f[n - 1]
           out == path[n + 1]
<1>13. u # Failed /\ v = ArrivedHop(u, path, n, to)
  BY <1>2, <1>3, <1>5
<1>14. OnTheWay(w, u) /\ Sound(u)
  BY <1>12, <1>13 DEF OnTheWay, Carried
<1>15. v = PairSwap(u, PairFor(path[n], out), out, Amount(u, n), to)
  BY <1>3, <1>7, <1>9, <1>13
<1>16. /\ PairFor(path[n], out) \in Pool /\ out \in PairFor(path[n], out) /\ out \in Token
       /\ Amount(u, n) \in Nat
  BY <1>3, <1>4, <1>8, <1>14
<1> HIDE DEF u, out
<1>17. PaidOut(u, v, out, to, Delivered(out, Amount(u, n)))
  BY <1>14, <1>15, <1>16, HopOut
<1>18. PaidOut(w, v, out, to, Delivered(out, Amount(u, n)))
  BY <1>14, <1>16, <1>17, OnTheWayOut
<1>19. Delivered(out, Amount(u, n)) \in Nat
  BY <1>16, DeliveredType
<1> QED BY <1>3, <1>18, <1>19 DEF out

-----------------------------------------------------------------------------
(* The router's functions.                                                 *)

(* What every call of a transaction keeps; and a call of the router, which *)
(* leaves it with no more than it had.                                     *)
Leads(w, v) == Sound(v) /\ Kept(w, v) /\ v.nonces = w.nonces

Passed(w, v) ==
  /\ Leads(w, v) /\ v.kash[Router] = w.kash[Router]
  /\ \A t \in Token : v.tok[t][Router] <= w.tok[t][Router]

(* Calls that lead from one sound world to the next, chained.              *)
LEMMA LeadsOn ==
  ASSUME NEW w, Sound(w), NEW v, Leads(w, v), NEW x, Leads(v, x)
  PROVE  Leads(w, x)
<1>1. w \in World /\ v \in World /\ x \in World
  BY DEF Sound, Ledgers, Leads
<1>2. Kept(w, x)
  BY <1>1, KeptChained DEF Leads
<1> QED BY <1>2 DEF Leads

LEMMA CarriedLeads ==
  ASSUME NEW w, NEW v, Carried(w, v)
  PROVE  Leads(w, v)
BY DEF Carried, Leads

LEMMA Holdings ==
  ASSUME NEW w, Sound(w), NEW c \in Account
  PROVE  w.kash[c] \in Nat /\ \A t \in Token : w.tok[t][c] \in Nat
<1>1. w \in World
  BY DEF Sound, Ledgers
<1> QED BY <1>1, WorldParts

(* A user is nobody else.                                                  *)
LEMMA Users ==
  ASSUME NEW u \in User
  PROVE  u \in Account /\ u \in Account \ Pool /\ u # Router /\ u # WKASH /\ u # Zero
BY Accounts

(* The router is no pool, and no user's wrapper.                           *)
LEMMA Routers ==
  /\ Router \in Account /\ Router \in Account \ Pool /\ Router # WKASH /\ WKASH \in Account \ Pool
  /\ WKASH \in Token /\ WKASH \notin Taxed
<1>1. WKASH \notin Taxed
  BY LedgerAssumption
<1> QED BY <1>1, Accounts

(* The first pair is paid with the caller's tokens ...                     *)
Spends(w, v, t, u, n) ==
  /\ Leads(w, v) /\ v.kash = w.kash /\ n <= w.tok[t][u]
  /\ \A s \in Token, c \in Account \ Pool : (s # t \/ c # u) => v.tok[s][c] = w.tok[s][c]
  /\ v.tok[t][u] = w.tok[t][u] - n

(* The caller's tokens go to the first pool.                               *)
LEMMA SpendSound ==
  ASSUME NEW w, Sound(w), NEW t \in Token, NEW u \in Account \ Pool, NEW p \in Pool,
         NEW n \in Nat, NEW v, v = Transfer(w, t, u, p, n), v # Failed
  PROVE  Spends(w, v, t, u, n) /\ SamePools(w, v)
<1>1. p \in Account /\ u \in Account /\ u # p /\ w \in World
  BY Accounts DEF Sound, Ledgers
<1>2. Sound(v) /\ Kept(w, v) /\ SamePools(w, v) /\ v.kash = w.kash
  BY <1>1, TransferSound
<1>3. /\ w.tok[t][u] >= n
      /\ \A s \in Token, a \in Account : (s # t \/ a \notin {u, p}) => v.tok[s][a] = w.tok[s][a]
      /\ v.tok[t][u] = w.tok[t][u] - n
  BY <1>1, TransferMoves
<1>4. n <= w.tok[t][u]
  <2>1. w.tok[t][u] \in Nat
    BY <1>1, Holdings
  <2> QED BY <1>3, <2>1, SMT
<1>5. v.nonces = w.nonces
  BY <1>2 DEF SamePools
<1> QED BY <1>1, <1>2, <1>3, <1>4, <1>5 DEF Spends, Leads

(* ... or with msg.value, of which n is wrapped.                           *)
Wraps(w, v, u, value, n) ==
  /\ Leads(w, v) /\ value <= w.kash[u]
  /\ \A t \in Token, c \in Account \ Pool : v.tok[t][c] = w.tok[t][c]
  /\ v.kash[u] = w.kash[u] - value
  /\ v.kash[Router] = w.kash[Router] + value - n
  /\ \A c \in Account \ {u, Router, WKASH} : v.kash[c] = w.kash[c]

(* The router wraps KASH it holds and pays a pool with it.                 *)
LEMMA WrapSound ==
  ASSUME NEW w, Sound(w), NEW p \in Pool, NEW n \in Nat,
         NEW x, x = Deposit(w, Router, n), x # Failed,
         NEW v, v = Transfer(x, WKASH, Router, p, n), v # Failed
  PROVE  /\ Leads(w, v) /\ SamePools(w, v)
         /\ \A t \in Token, c \in Account \ Pool : v.tok[t][c] = w.tok[t][c]
         /\ v.kash[Router] = w.kash[Router] - n
         /\ \A c \in Account \ {Router, WKASH} : v.kash[c] = w.kash[c]
<1>1. /\ Sound(x) /\ Kept(w, x) /\ SamePools(w, x)
      /\ x.kash[Router] = w.kash[Router] - n
      /\ \A a \in Account \ {Router, WKASH} : x.kash[a] = w.kash[a]
      /\ x.tok[WKASH][Router] = w.tok[WKASH][Router] + n
      /\ \A t \in Token, a \in Account : (t # WKASH \/ a # Router) => x.tok[t][a] = w.tok[t][a]
  BY DepositSound
<1>2. Spends(x, v, WKASH, Router, n) /\ SamePools(x, v)
  BY <1>1, Routers, SpendSound
<1>3. Leads(w, x) /\ SamePools(w, v)
  BY <1>1, <1>2 DEF Leads, SamePools
<1>4. Leads(w, v)
  BY <1>2, <1>3, LeadsOn DEF Spends
<1>5. w.tok[WKASH][Router] \in Nat
  BY Routers, Holdings
<1>6. v.tok[WKASH][Router] = w.tok[WKASH][Router]
  BY <1>1, <1>2, <1>5, SMT DEF Spends
<1>7. ASSUME NEW t \in Token, NEW c \in Account \ Pool PROVE v.tok[t][c] = w.tok[t][c]
  BY <1>1, <1>2, <1>6 DEF Spends
<1> QED BY <1>1, <1>2, <1>3, <1>4, <1>7 DEF Spends

(* msg.value arrives, and n of it is wrapped for the first pool.           *)
LEMMA PayWrappedSound ==
  ASSUME NEW w, Sound(w), NEW u \in User, NEW path, IsPath(path), path[1] = WKASH,
         NEW value \in Nat, NEW n \in Nat,
         NEW x, x = PayIn(w, u, value), x # Failed,
         NEW v, v = PayWrapped(x, path, n), v # Failed
  PROVE  Wraps(w, v, u, value, n)
<1>1. /\ Sound(x) /\ Kept(w, x) /\ SamePools(w, x) /\ SameTokens(w, x)
      /\ value <= w.kash[u]
      /\ x.kash[u] = w.kash[u] - value /\ x.kash[Router] = w.kash[Router] + value
      /\ \A a \in Account \ {u, Router} : x.kash[a] = w.kash[a]
  BY PayInSound
<1> DEFINE d == Deposit(x, Router, n)
           p == First(path)
<1>2. d # Failed /\ v = Transfer(d, WKASH, Router, p, n)
  BY DEF PayWrapped, Then
<1>3. p \in Pool
  <2>1. 1 \in 1 .. Len(path) - 1
    BY PathParts, SMT
  <2>2. PairFor(path[1], path[1 + 1]) \in Pool
    BY <2>1, PathParts
  <2>3. 1 + 1 = 2
    BY SMT
  <2> QED BY <2>2, <2>3 DEF First
<1> HIDE DEF d, p
<1>4. /\ Leads(x, v)
      /\ \A t \in Token, c \in Account \ Pool : v.tok[t][c] = x.tok[t][c]
      /\ v.kash[Router] = x.kash[Router] - n
      /\ \A c \in Account \ {Router, WKASH} : v.kash[c] = x.kash[c]
  BY <1>1, <1>2, <1>3, WrapSound DEF d
<1>5. Leads(w, x)
  BY <1>1 DEF Leads, SamePools
<1>6. Leads(w, v)
  BY <1>4, <1>5, LeadsOn
<1>7. u \in Account \ {Router, WKASH}
  BY Users
<1>8. \A t \in Token, c \in Account \ Pool : v.tok[t][c] = w.tok[t][c]
  BY <1>1, <1>4 DEF SameTokens
<1>9. v.kash[u] = w.kash[u] - value /\ v.kash[Router] = w.kash[Router] + value - n
  <2>1. v.kash[u] = x.kash[u]
    BY <1>4, <1>7
  <2>2. v.kash[Router] = x.kash[Router] - n
    BY <1>4
  <2>3. w.kash[Router] \in Nat
    BY Routers, Holdings
  <2>4. (w.kash[Router] + value) - n = w.kash[Router] + value - n
    BY <2>3, SMT
  <2> QED BY <1>1, <2>1, <2>2, <2>4
<1>10. \A c \in Account \ {u, Router, WKASH} : v.kash[c] = w.kash[c]
  BY <1>1, <1>4
<1> QED BY <1>1, <1>6, <1>8, <1>9, <1>10 DEF Wraps

(* Wrapped KASH of the router is unwrapped and sent on.                    *)
Unwraps(w, v, to, n) ==
  /\ Leads(w, v) /\ n <= w.tok[WKASH][Router]
  /\ v.tok[WKASH][Router] = w.tok[WKASH][Router] - n
  /\ \A t \in Token, c \in Account : (t # WKASH \/ c # Router) => v.tok[t][c] = w.tok[t][c]
  /\ v.kash[Router] = w.kash[Router]
  /\ v.kash[to] = w.kash[to] + n
  /\ \A c \in Account \ {Router, WKASH, to} : v.kash[c] = w.kash[c]

(* The router unwraps what it was sent, for the recipient.                 *)
LEMMA PayOutSound ==
  ASSUME NEW w, Sound(w), NEW to \in User, NEW n \in Nat,
         NEW v, v = PayOutKash(w, to, n), v # Failed
  PROVE  Unwraps(w, v, to, n)
<1> DEFINE x == Withdraw(w, Router, n)
<1>1. x # Failed /\ v = SendKash(x, Router, to, n)
  BY DEF PayOutKash, Then
<1> HIDE DEF x
<1>2. /\ Sound(x) /\ Kept(w, x) /\ SamePools(w, x)
      /\ n <= w.tok[WKASH][Router]
      /\ x.kash[Router] = w.kash[Router] + n
      /\ \A a \in Account \ {Router, WKASH} : x.kash[a] = w.kash[a]
      /\ x.tok[WKASH][Router] = w.tok[WKASH][Router] - n
      /\ \A t \in Token, a \in Account : (t # WKASH \/ a # Router) => x.tok[t][a] = w.tok[t][a]
  BY <1>1, WithdrawSound DEF x
<1>3. /\ Sound(v) /\ Kept(x, v) /\ SamePools(x, v) /\ SameTokens(x, v)
      /\ v.kash[to] = x.kash[to] + n /\ v.kash[Router] = x.kash[Router] - n
      /\ \A a \in Account \ {Router, to} : v.kash[a] = x.kash[a]
  BY <1>1, <1>2, SendSound
<1>4. Leads(w, x) /\ Leads(x, v)
  BY <1>2, <1>3 DEF Leads, SamePools
<1>5. Leads(w, v)
  BY <1>4, LeadsOn
<1>6. to \in Account \ {Router, WKASH} /\ w.kash[Router] \in Nat
  BY Users, Routers, Holdings
<1>7. v.kash[Router] = w.kash[Router]
  BY <1>2, <1>3, <1>6, SMT
<1> QED BY <1>2, <1>3, <1>5, <1>6, <1>7 DEF Unwraps, SameTokens
(* What a deposit takes is never more than desired, nor, of a pool with a  *)
(* price, less than the minimum.                                           *)
LEMMA OptimalWithin ==
  ASSUME NEW ra \in Nat, NEW rb \in Nat, NEW x \in Nat, NEW y \in Nat,
         NEW minA \in Nat, NEW minB \in Nat,
         AddAccepted(ra, rb, x, y, minA, minB),
         NEW amount, amount = OptimalAmounts(ra, rb, x, y)
  PROVE  /\ amount[1] \in Nat /\ amount[1] <= x
         /\ amount[2] \in Nat /\ amount[2] <= y
         /\ ra > 0 => amount[1] >= Min(minA, x) /\ amount[2] >= Min(minB, y)
<1> DEFINE qb == Quote(x, ra, rb)
           qa == Quote(y, rb, ra)
<1>1. \A i, j \in Nat : Min(i, j) <= i /\ Min(i, j) <= j /\ Min(i, j) \in Nat
  BY SMT DEF Min
<1>2. CASE ra = 0 /\ rb = 0
  <2>1. amount = <<x, y>>
    BY <1>2 DEF OptimalAmounts
  <2>2. amount[1] = x /\ amount[2] = y
    BY <2>1
  <2> QED BY <1>2, <2>2, SMT
<1>3. CASE ~(ra = 0 /\ rb = 0)
  <2>1. ra > 0 /\ rb > 0 /\ x > 0
    BY <1>3 DEF AddAccepted
  <2>2. qb \in Nat
    <3>1. x * rb \in Nat
      BY SMT
    <3>2. (x * rb) \div ra \in Nat
      BY <2>1, <3>1, DivBounds
    <3> QED BY <3>2 DEF Quote
  <2>3. qa \in Nat
    <3>1. y * ra \in Nat
      BY SMT
    <3>2. (y * ra) \div rb \in Nat
      BY <2>1, <3>1, DivBounds
    <3> QED BY <3>2 DEF Quote
  <2>4. CASE qb <= y
    <3>1. amount = <<x, qb>> /\ qb >= minB
      BY <1>3, <2>4 DEF AddAccepted, OptimalAmounts
    <3> HIDE DEF qb
    <3>2. amount[1] = x /\ amount[2] = qb
      BY <3>1
    <3>3. qb >= Min(minB, y) /\ x >= Min(minA, x)
      BY <1>1, <2>2, <3>1, SMT
    <3> QED BY <2>2, <2>4, <3>2, <3>3, SMT
  <2>5. CASE ~(qb <= y)
    <3>1. amount = <<qa, y>> /\ qa <= x /\ qa >= minA
      BY <1>3, <2>5 DEF AddAccepted, OptimalAmounts
    <3> HIDE DEF qa
    <3>2. amount[1] = qa /\ amount[2] = y
      BY <3>1
    <3>3. qa >= Min(minA, x) /\ y >= Min(minB, y)
      BY <1>1, <2>3, <3>1, SMT
    <3> QED BY <2>3, <3>1, <3>2, <3>3, SMT
  <2> QED BY <2>4, <2>5
<1> QED BY <1>2, <1>3

(* ... so much of a token spent, in a pool with or without a price.        *)
SpentWithin(spent, min, max, priced) == spent <= max /\ (priced => spent >= Min(min, max))

(* A pool with shares mints only while it has reserves.                    *)
LEMMA MintPriced ==
  ASSUME NEW w, Sound(w), NEW p \in Pool, NEW to \in User, PairMint(w, p, to) # Failed,
         w.supply[p] > 0, NEW t \in p
  PROVE  w.reserve[p][t] > 0
<1>1. w.supply[p] # 0
  <2>1. w.supply[p] \in Nat
    BY WorldParts DEF Sound, Ledgers
  <2> QED BY <2>1, SMT
<1> QED BY <1>1 DEF PairMint, Require

(* addLiquidity takes no more than was desired and no less than the        *)
(* minima.                                                                 *)
LEMMA AddSound ==
  ASSUME NEW w, Sound(w), NEW u \in User, NEW a \in Token, NEW b \in Token, a # b,
         NEW x \in Nat, NEW y \in Nat, NEW minX \in Nat, NEW minY \in Nat, NEW to \in User,
         NEW v, v = AddLiquidity(w, u, a, b, x, y, minX, minY, to), v # Failed
  PROVE  /\ Passed(w, v)
         /\ SpentWithin(w.tok[a][u] - v.tok[a][u], minX, x, w.supply[PairFor(a, b)] > 0)
         /\ SpentWithin(w.tok[b][u] - v.tok[b][u], minY, y, w.supply[PairFor(a, b)] > 0)
<1> DEFINE p == PairFor(a, b)
           e == EnsurePair(w, p)
           amount == OptimalAmounts(e.reserve[p][a], e.reserve[p][b], x, y)
           i == Transfer(e, a, u, p, amount[1])
           j == Transfer(i, b, u, p, amount[2])
<1>1. AddAccepted(e.reserve[p][a], e.reserve[p][b], x, y, minX, minY)
  BY DEF AddLiquidity
<1>2. i # Failed /\ j # Failed /\ v = PairMint(j, p, to)
  BY DEF AddLiquidity, Then
<1>3. p \in Pool /\ a \in p /\ b \in p
  BY Sides DEF PairFor
<1> HIDE DEF p
<1>4. /\ Sound(e) /\ Kept(w, e) /\ SameMoney(w, e)
      /\ e.reserve = w.reserve /\ e.lp = w.lp /\ e.supply = w.supply /\ e.nonces = w.nonces
  BY <1>3, EnsureSound
<1>5. e.reserve[p][a] \in Nat /\ e.reserve[p][b] \in Nat
  <2>1. e \in World
    BY <1>4 DEF Sound, Ledgers
  <2> HIDE DEF e
  <2> QED BY <1>3, <2>1, WorldParts
<1> HIDE DEF e
<1>6. /\ amount[1] \in Nat /\ amount[1] <= x /\ amount[2] \in Nat /\ amount[2] <= y
      /\ e.reserve[p][a] > 0 => amount[1] >= Min(minX, x) /\ amount[2] >= Min(minY, y)
  BY <1>1, <1>5, OptimalWithin
<1> HIDE DEF amount
<1>7. Spends(e, i, a, u, amount[1]) /\ SamePools(e, i)
  BY <1>2, <1>3, <1>4, <1>6, SpendSound, Users
<1>8. Sound(i)
  BY <1>7 DEF Spends, Leads
<1> HIDE DEF i
<1>9. Spends(i, j, b, u, amount[2]) /\ SamePools(i, j)
  BY <1>2, <1>3, <1>6, <1>8, SpendSound, Users
<1>10. Sound(j)
  BY <1>9 DEF Spends, Leads
<1> HIDE DEF j
<1>11. Sound(v) /\ Kept(j, v) /\ SameMoney(j, v) /\ v.nonces = j.nonces
  BY <1>2, <1>3, <1>10, MintSound
<1>12. Leads(w, v)
  <2>1. Leads(w, e) /\ Leads(e, i) /\ Leads(i, j) /\ Leads(j, v)
    BY <1>4, <1>7, <1>9, <1>11 DEF Leads, Spends
  <2>2. Leads(w, i)
    BY <1>4, <2>1, LeadsOn
  <2>3. Leads(w, j)
    BY <1>8, <2>1, <2>2, LeadsOn
  <2> QED BY <1>10, <2>1, <2>3, LeadsOn
<1>13. v.kash = w.kash
  BY <1>4, <1>7, <1>9, <1>11 DEF Spends, SameMoney
<1>14. \A t \in Token : v.tok[t][Router] = w.tok[t][Router]
  BY <1>4, <1>7, <1>9, <1>11, Routers, Users DEF Spends, SameMoney
<1>15. Passed(w, v)
  <2>1. \A t \in Token : w.tok[t][Router] \in Nat
    BY Routers, Holdings
  <2>2. \A t \in Token : v.tok[t][Router] <= w.tok[t][Router]
    BY <1>14, <2>1, SMT
  <2> QED BY <1>12, <1>13, <2>2 DEF Passed
<1>16. v.tok[a][u] = w.tok[a][u] - amount[1] /\ v.tok[b][u] = w.tok[b][u] - amount[2]
  BY <1>4, <1>7, <1>9, <1>11, Users DEF Spends, SameMoney
<1>17. w.tok[a][u] - v.tok[a][u] = amount[1] /\ w.tok[b][u] - v.tok[b][u] = amount[2]
  <2>1. w.tok[a][u] \in Nat /\ w.tok[b][u] \in Nat
    BY Users, Holdings
  <2> QED BY <1>6, <1>16, <2>1, SMT
<1>18. w.supply[p] > 0 => e.reserve[p][a] > 0
  <2>1. j.supply = w.supply /\ j.reserve = e.reserve
    BY <1>4, <1>7, <1>9 DEF SamePools
  <2> QED BY <1>2, <1>3, <1>10, <2>1, MintPriced
<1> QED BY <1>6, <1>15, <1>17, <1>18 DEF SpentWithin, p
(* What was not needed of msg.value goes back to the caller.               *)
LEMMA RefundSound ==
  ASSUME NEW w, Sound(w), NEW to \in User, NEW rest \in Nat,
         NEW v, v = Refund(w, to, rest), v # Failed
  PROVE  /\ Leads(w, v) /\ SameTokens(w, v)
         /\ v.kash[to] = w.kash[to] + rest /\ v.kash[Router] = w.kash[Router] - rest
         /\ \A c \in Account \ {Router, to} : v.kash[c] = w.kash[c]
<1>1. CASE rest > 0
  <2>1. v = SendKash(w, Router, to, rest)
    BY <1>1 DEF Refund
  <2>2. /\ Sound(v) /\ Kept(w, v) /\ SamePools(w, v) /\ SameTokens(w, v)
        /\ v.kash[to] = w.kash[to] + rest /\ v.kash[Router] = w.kash[Router] - rest
        /\ \A a \in Account \ {Router, to} : v.kash[a] = w.kash[a]
    BY <2>1, SendSound
  <2> QED BY <2>2 DEF Leads, SamePools
<1>2. CASE ~(rest > 0)
  <2>1. v = w
    BY <1>2 DEF Refund
  <2>2. rest = 0
    BY <1>2, SMT
  <2>3. w.kash[to] \in Nat /\ w.kash[Router] \in Nat
    BY Users, Routers, Holdings
  <2>4. w.kash[to] = w.kash[to] + rest /\ w.kash[Router] = w.kash[Router] - rest
    BY <2>2, <2>3, SMT
  <2>5. Kept(w, w)
    BY KeptWhenSame DEF Sound, Ledgers
  <2> QED BY <2>1, <2>4, <2>5 DEF Leads, SameTokens
<1> QED BY <1>1, <1>2

(* addLiquidityETH does, and hands back what is left of msg.value.         *)
LEMMA AddETHSound ==
  ASSUME NEW w, Sound(w), NEW u \in User, NEW t \in Token, t # WKASH,
         NEW x \in Nat, NEW value \in Nat, NEW minX \in Nat, NEW minY \in Nat, NEW to \in User,
         NEW v, v = AddLiquidityETH(w, u, t, x, value, minX, minY, to), v # Failed
  PROVE  /\ Passed(w, v)
         /\ SpentWithin(w.tok[t][u] - v.tok[t][u], minX, x, w.supply[PairFor(t, WKASH)] > 0)
         /\ SpentWithin(w.kash[u] - v.kash[u], minY, value, w.supply[PairFor(t, WKASH)] > 0)
<1> DEFINE p == PairFor(t, WKASH)
           e == EnsurePair(w, p)
           amount == OptimalAmounts(e.reserve[p][t], e.reserve[p][WKASH], x, value)
           h == PayIn(e, u, value)
           i == Transfer(h, t, u, p, amount[1])
           d == Deposit(i, Router, amount[2])
           j == Transfer(d, WKASH, Router, p, amount[2])
           m == PairMint(j, p, to)
<1>1. AddAccepted(e.reserve[p][t], e.reserve[p][WKASH], x, value, minX, minY)
  BY DEF AddLiquidityETH
<1>2. /\ h # Failed /\ i # Failed /\ d # Failed /\ j # Failed /\ m # Failed
      /\ v = Refund(m, u, value - amount[2])
  BY DEF AddLiquidityETH, Then
<1>3. p \in Pool /\ t \in p /\ WKASH \in p /\ WKASH \in Token
  BY Sides, Routers DEF PairFor
<1> HIDE DEF p
<1>4. /\ Sound(e) /\ Kept(w, e) /\ SameMoney(w, e)
      /\ e.reserve = w.reserve /\ e.lp = w.lp /\ e.supply = w.supply /\ e.nonces = w.nonces
  BY <1>3, EnsureSound
<1>5. e.reserve[p][t] \in Nat /\ e.reserve[p][WKASH] \in Nat
  <2>1. e \in World
    BY <1>4 DEF Sound, Ledgers
  <2> HIDE DEF e
  <2> QED BY <1>3, <2>1, WorldParts
<1> HIDE DEF e
<1>6. /\ amount[1] \in Nat /\ amount[1] <= x /\ amount[2] \in Nat /\ amount[2] <= value
      /\ e.reserve[p][t] > 0 => amount[1] >= Min(minX, x) /\ amount[2] >= Min(minY, value)
  BY <1>1, <1>5, OptimalWithin
<1> HIDE DEF amount
<1>7. /\ Sound(h) /\ Kept(e, h) /\ SamePools(e, h) /\ SameTokens(e, h)
      /\ h.kash[u] = e.kash[u] - value /\ h.kash[Router] = e.kash[Router] + value
  BY <1>2, <1>4, PayInSound
<1> HIDE DEF h
<1>8. Spends(h, i, t, u, amount[1]) /\ SamePools(h, i)
  BY <1>2, <1>3, <1>6, <1>7, SpendSound, Users
<1>9. Sound(i)
  BY <1>8 DEF Spends, Leads
<1> HIDE DEF i
<1>10. /\ Leads(i, j) /\ SamePools(i, j)
       /\ \A s \in Token, c \in Account \ Pool : j.tok[s][c] = i.tok[s][c]
       /\ j.kash[Router] = i.kash[Router] - amount[2]
       /\ \A c \in Account \ {Router, WKASH} : j.kash[c] = i.kash[c]
  BY <1>2, <1>3, <1>6, <1>9, WrapSound
<1> HIDE DEF d, j
<1>11. Sound(j)
  BY <1>10 DEF Leads
<1>12. Sound(m) /\ Kept(j, m) /\ SameMoney(j, m) /\ m.nonces = j.nonces
  BY <1>2, <1>3, <1>11, MintSound
<1>13. w.supply[p] > 0 => e.reserve[p][t] > 0
  <2>1. j.supply = w.supply /\ j.reserve = e.reserve
    BY <1>4, <1>7, <1>8, <1>10 DEF SamePools
  <2> QED BY <1>2, <1>3, <1>11, <2>1, MintPriced
<1> HIDE DEF m
<1>14. value - amount[2] \in Nat
  BY <1>6, SMT
<1>15. /\ Leads(m, v) /\ SameTokens(m, v)
       /\ v.kash[u] = m.kash[u] + (value - amount[2])
       /\ v.kash[Router] = m.kash[Router] - (value - amount[2])
  BY <1>2, <1>12, <1>14, RefundSound
<1>16. Leads(w, v)
  <2>1. Leads(w, e) /\ Leads(e, h) /\ Leads(h, i) /\ Leads(i, j) /\ Leads(j, m)
    BY <1>4, <1>7, <1>8, <1>10, <1>12 DEF Leads, Spends, SamePools
  <2>2. Leads(w, h)
    BY <1>4, <2>1, LeadsOn
  <2>3. Leads(w, i)
    BY <1>7, <2>1, <2>2, LeadsOn
  <2>4. Leads(w, j)
    BY <1>9, <2>1, <2>3, LeadsOn
  <2>5. Leads(w, m)
    BY <1>11, <2>1, <2>4, LeadsOn
  <2> QED BY <1>12, <1>15, <2>5, LeadsOn
<1>17. w.kash[u] \in Nat /\ w.kash[Router] \in Nat /\ w.tok[t][u] \in Nat
       /\ \A s \in Token : w.tok[s][Router] \in Nat
  BY Users, Routers, Holdings
<1>18. v.kash[Router] = w.kash[Router]
  <2>1. /\ h.kash[Router] = w.kash[Router] + value /\ i.kash[Router] = h.kash[Router]
        /\ m.kash[Router] = i.kash[Router] - amount[2]
    BY <1>4, <1>7, <1>8, <1>10, <1>12 DEF SameMoney, Spends
  <2> QED BY <1>6, <1>15, <1>17, <2>1, SMT
<1>19. w.kash[u] - v.kash[u] = amount[2]
  <2>1. /\ h.kash[u] = w.kash[u] - value /\ i.kash[u] = h.kash[u]
        /\ m.kash[u] = i.kash[u]
    BY <1>4, <1>7, <1>8, <1>10, <1>12, Users DEF SameMoney, Spends
  <2> QED BY <1>6, <1>15, <1>17, <2>1, SMT
<1>20. /\ \A s \in Token : v.tok[s][Router] = w.tok[s][Router]
       /\ v.tok[t][u] = w.tok[t][u] - amount[1]
  BY <1>4, <1>7, <1>8, <1>10, <1>12, <1>15, Users, Routers DEF SameMoney, SameTokens, Spends
<1>21. w.tok[t][u] - v.tok[t][u] = amount[1]
  BY <1>6, <1>17, <1>20, SMT
<1>22. Passed(w, v)
  <2>1. \A s \in Token : v.tok[s][Router] <= w.tok[s][Router]
    BY <1>17, <1>20, SMT
  <2> QED BY <1>16, <1>18, <2>1 DEF Passed
<1> QED BY <1>6, <1>13, <1>19, <1>21, <1>22 DEF SpentWithin, p
(* What burning pays out is what removeLiquidity returns.                  *)
LEMMA RemoveSound ==
  ASSUME NEW w, Sound(w), NEW u \in User, NEW a \in Token, NEW b \in Token, a # b,
         NEW shares \in Nat, NEW minA, NEW minB, NEW to \in Account \ Pool,
         NEW p, p = PairFor(a, b),
         NEW v, v = RemoveLiquidity(w, u, a, b, shares, minA, minB, to), v # Failed
  PROVE  /\ Leads(w, v) /\ v.kash = w.kash
         /\ \A s \in p : /\ Returned(w, p, shares, s) \in Nat
                         /\ v.tok[s][to] = w.tok[s][to] + Delivered(s, Returned(w, p, shares, s))
         /\ \A s \in Token \ p : v.tok[s][to] = w.tok[s][to]
         /\ \A s \in Token, c \in Account \ {p, to} : v.tok[s][c] = w.tok[s][c]
<1> DEFINE i == PullShares(w, p, u, shares)
           j == PairBurn(i, p, to)
<1>1. i # Failed /\ j # Failed /\ v = j
  BY DEF RemoveLiquidity, Then, Require
<1>2. p \in Pool
  BY Sides
<1> HIDE DEF i
<1>3. /\ Sound(i) /\ Kept(w, i) /\ SameMoney(w, i)
      /\ i.pairs = w.pairs /\ i.reserve = w.reserve /\ i.supply = w.supply /\ i.nonces = w.nonces
      /\ i.lp[p][p] = w.lp[p][p] + shares
  BY <1>1, <1>2, PullSound DEF i
<1>4. to \in Account /\ to # p
  BY <1>2
<1>5. /\ Sound(j) /\ Kept(i, j) /\ j.kash = i.kash /\ j.nonces = i.nonces
      /\ \A t \in p : BurnAmount(i, p, t) \in Nat
      /\ \A t \in p : j.tok[t][to] = i.tok[t][to] + Delivered(t, BurnAmount(i, p, t))
      /\ \A t \in Token \ p : j.tok[t][to] = i.tok[t][to]
      /\ \A t \in Token, x \in Account \ {p, to} : j.tok[t][x] = i.tok[t][x]
  <2> HIDE DEF j
  <2> QED BY <1>1, <1>2, <1>3, <1>4, BurnSound DEF j
<1> HIDE DEF j
<1>6. \A t \in p : BurnAmount(i, p, t) = Returned(w, p, shares, t)
  BY <1>3 DEF BurnAmount, Returned, Balance, SameMoney
<1>7. Leads(w, v)
  <2>1. Leads(w, i) /\ Leads(i, v)
    BY <1>1, <1>3, <1>5 DEF Leads
  <2> QED BY <2>1, LeadsOn
<1>8. i.tok = w.tok /\ i.kash = w.kash
  BY <1>3 DEF SameMoney
<1> QED BY <1>1, <1>5, <1>6, <1>7, <1>8

(* removeLiquidity leaves the router with what it had.                     *)
LEMMA RemovePasses ==
  ASSUME NEW w, Sound(w), NEW u \in User, NEW a \in Token, NEW b \in Token, a # b,
         NEW shares \in Nat, NEW minA, NEW minB, NEW to \in User,
         NEW v, v = RemoveLiquidity(w, u, a, b, shares, minA, minB, to), v # Failed
  PROVE  Passed(w, v)
<1> DEFINE p == PairFor(a, b)
<1>1. p \in Pool
  BY Sides
<1> HIDE DEF p
<1>2. to \in Account \ Pool /\ Router \in Account \ {p, to}
  BY <1>1, Users, Routers
<1>3. /\ Leads(w, v) /\ v.kash = w.kash
      /\ \A s \in Token, c \in Account \ {p, to} : v.tok[s][c] = w.tok[s][c]
  BY <1>2, RemoveSound DEF p
<1>4. \A s \in Token : v.tok[s][Router] = w.tok[s][Router] /\ w.tok[s][Router] \in Nat
  BY <1>2, <1>3, Routers, Holdings
<1>5. \A s \in Token : v.tok[s][Router] <= w.tok[s][Router]
  BY <1>4, SMT
<1> QED BY <1>3, <1>5 DEF Passed

(* The router receives the share of the pool, sends the token on and       *)
(* unwraps the rest: n is what it sends of the token, r the share.         *)
LEMMA RemoveETHOn ==
  ASSUME NEW w, Sound(w), NEW u \in User, NEW t \in Token, t # WKASH,
         NEW shares \in Nat, NEW minT, NEW minKash, NEW to \in User,
         NEW p, p = PairFor(t, WKASH),
         NEW x, x = RemoveLiquidity(w, u, t, WKASH, shares, minT, minKash, Router), x # Failed,
         NEW n \in Nat, n = Returned(w, p, shares, t) \/ n = x.tok[t][Router],
         NEW y, y = Transfer(x, t, Router, to, n), y # Failed,
         NEW v, v = PayOutKash(y, to, Returned(w, p, shares, WKASH)), v # Failed
  PROVE  /\ Passed(w, v)
         /\ v.tok[t][to] = w.tok[t][to] + Delivered(t, n)
         /\ v.kash[to] = w.kash[to] + Returned(w, p, shares, WKASH)
<1> DEFINE R(s) == Returned(w, p, shares, s)
<1>1. p \in Pool /\ t \in p /\ WKASH \in p /\ p = {t, WKASH} /\ WKASH \in Token
  BY Routers, Sides
<1>2. /\ Router \in Account /\ Router \in Account \ Pool /\ to \in Account /\ to # Router
      /\ to \in Account \ Pool /\ to \in Account \ {p, Router} /\ to \in Account \ {Router, WKASH}
  BY <1>1, Users, Routers
<1>3. /\ Leads(w, x) /\ x.kash = w.kash
      /\ \A s \in p : R(s) \in Nat /\ x.tok[s][Router] = w.tok[s][Router] + Delivered(s, R(s))
      /\ \A s \in Token \ p : x.tok[s][Router] = w.tok[s][Router]
      /\ \A s \in Token, c \in Account \ {p, Router} : x.tok[s][c] = w.tok[s][c]
  <2>1. /\ Leads(w, x) /\ x.kash = w.kash
        /\ \A s \in p : /\ Returned(w, p, shares, s) \in Nat
                        /\ x.tok[s][Router] = w.tok[s][Router] + Delivered(s, Returned(w, p, shares, s))
        /\ \A s \in Token \ p : x.tok[s][Router] = w.tok[s][Router]
        /\ \A s \in Token, c \in Account \ {p, Router} : x.tok[s][c] = w.tok[s][c]
    <3>1. WKASH \in Token /\ Router \in Account \ Pool
      BY <1>1, <1>2
    <3> QED BY <3>1, RemoveSound
  <2> QED BY <2>1
<1>4. Sound(x) /\ x \in World
  BY <1>3 DEF Leads, Sound, Ledgers
<1>5. Sound(y) /\ Kept(x, y) /\ SamePools(x, y) /\ y.kash = x.kash
  BY <1>2, <1>4, TransferSound
<1>6. /\ x.tok[t][Router] >= n
      /\ \A s \in Token, c \in Account : (s # t \/ c \notin {Router, to}) => y.tok[s][c] = x.tok[s][c]
      /\ y.tok[t][Router] = x.tok[t][Router] - n
      /\ y.tok[t][to] = x.tok[t][to] + Delivered(t, n)
  BY <1>2, <1>4, TransferMoves
<1>7. Unwraps(y, v, to, R(WKASH))
  BY <1>1, <1>3, <1>5, PayOutSound
<1>8. Leads(w, v)
  <2>1. Leads(x, y)
    BY <1>5 DEF Leads, SamePools
  <2>2. Leads(w, y)
    BY <1>3, <2>1, LeadsOn
  <2> QED BY <1>7, <2>2, LeadsOn DEF Unwraps
<1> HIDE DEF R
<1>9. v.kash[Router] = w.kash[Router] /\ v.kash[to] = w.kash[to] + R(WKASH)
  BY <1>3, <1>5, <1>7 DEF Unwraps
<1>10. v.tok[t][to] = w.tok[t][to] + Delivered(t, n)
  <2>1. v.tok[t][to] = y.tok[t][to] /\ x.tok[t][to] = w.tok[t][to]
    BY <1>2, <1>3, <1>7 DEF Unwraps
  <2> QED BY <1>6, <2>1
<1>11. ASSUME NEW s \in Token PROVE v.tok[s][Router] <= w.tok[s][Router]
  <2>1. w.tok[s][Router] \in Nat /\ x.tok[s][Router] \in Nat
    BY <1>4, Routers, Holdings
  <2>2. CASE s = t
    <3>1. v.tok[t][Router] = x.tok[t][Router] - n
      BY <1>2, <1>6, <1>7 DEF Unwraps
    <3>2. x.tok[t][Router] = w.tok[t][Router] + Delivered(t, R(t)) /\ R(t) \in Nat
      BY <1>1, <1>3
    <3>3. Delivered(t, R(t)) \in Nat /\ Delivered(t, R(t)) <= R(t)
      BY <3>2, DeliveredType
    <3>4. n = R(t) \/ n = x.tok[t][Router]
      BY DEF R
    <3> HIDE DEF R
    <3>5. CASE n = R(t)
      BY <2>1, <2>2, <3>1, <3>2, <3>3, <3>5, SMT
    <3>6. CASE n = x.tok[t][Router]
      BY <2>1, <2>2, <3>1, <3>6, SMT
    <3> QED BY <3>4, <3>5, <3>6
  <2>3. CASE s = WKASH
    <3>1. /\ v.tok[WKASH][Router] = y.tok[WKASH][Router] - R(WKASH)
          /\ y.tok[WKASH][Router] = x.tok[WKASH][Router]
      BY <1>1, <1>2, <1>6, <1>7 DEF Unwraps
    <3>2. x.tok[WKASH][Router] = w.tok[WKASH][Router] + Delivered(WKASH, R(WKASH)) /\ R(WKASH) \in Nat
      BY <1>1, <1>3
    <3>3. Delivered(WKASH, R(WKASH)) = R(WKASH)
      BY <3>2, Routers, DeliveredType
    <3>4. w.tok[WKASH][Router] \in Nat
      BY <2>1, <2>3
    <3>5. v.tok[WKASH][Router] <= w.tok[WKASH][Router]
      BY <3>1, <3>2, <3>3, <3>4, SMT
    <3> QED BY <2>3, <3>5
  <2>4. CASE s # t /\ s # WKASH
    <3>1. v.tok[s][Router] = y.tok[s][Router]
      BY <1>2, <1>7, <2>4 DEF Unwraps
    <3>2. y.tok[s][Router] = x.tok[s][Router]
      BY <1>2, <1>6, <2>4
    <3>3. x.tok[s][Router] = w.tok[s][Router]
      BY <1>1, <1>3, <2>4
    <3> QED BY <2>1, <3>1, <3>2, <3>3, SMT
  <2> QED BY <2>2, <2>3, <2>4
<1> QED BY <1>8, <1>9, <1>10, <1>11 DEF Passed, R

(* removeLiquidityETH passes on what the pair returned.                    *)
LEMMA RemoveETHSound ==
  ASSUME NEW w, Sound(w), NEW u \in User, NEW t \in Token, t # WKASH,
         NEW shares \in Nat, NEW minT, NEW minKash, NEW to \in User, NEW p, p = PairFor(t, WKASH),
         NEW v, v = RemoveLiquidityETH(w, u, t, shares, minT, minKash, to), v # Failed
  PROVE  /\ Passed(w, v)
         /\ v.tok[t][to] = w.tok[t][to] + Delivered(t, Returned(w, p, shares, t))
         /\ v.kash[to] = w.kash[to] + Returned(w, p, shares, WKASH)
<1> DEFINE x == RemoveLiquidity(w, u, t, WKASH, shares, minT, minKash, Router)
           n == Returned(w, p, shares, t)
           y == Transfer(x, t, Router, to, n)
<1>1. x # Failed /\ y # Failed /\ v = PayOutKash(y, to, Returned(w, p, shares, WKASH))
  BY DEF RemoveLiquidityETH, Then
<1>2. Router \in Account \ Pool /\ WKASH \in Token /\ t \in p
  BY Routers, Sides
<1> HIDE DEF x
<1>3. n \in Nat
  BY <1>1, <1>2, RemoveSound DEF x
<1> HIDE DEF n, y
<1> QED BY <1>1, <1>3, RemoveETHOn DEF x, n, y

(* The fee-on-transfer form sends on whatever arrived.                     *)
LEMMA RemoveETHFeeSound ==
  ASSUME NEW w, Sound(w), NEW u \in User, NEW t \in Token, t # WKASH,
         NEW shares \in Nat, NEW minT, NEW minKash, NEW to \in User,
         NEW v, v = RemoveLiquidityETHSupportingFee(w, u, t, shares, minT, minKash, to), v # Failed
  PROVE  Passed(w, v)
<1> DEFINE p == PairFor(t, WKASH)
           x == RemoveLiquidity(w, u, t, WKASH, shares, minT, minKash, Router)
           n == x.tok[t][Router]
           y == Transfer(x, t, Router, to, n)
<1>1. x # Failed /\ y # Failed /\ v = PayOutKash(y, to, Returned(w, p, shares, WKASH))
  BY DEF RemoveLiquidityETHSupportingFee, Then
<1>2. Router \in Account \ Pool /\ WKASH \in Token /\ Router \in Account
  BY Routers
<1> HIDE DEF x
<1>3. Leads(w, x)
  BY <1>1, <1>2, RemoveSound DEF x
<1>4. n \in Nat
  BY <1>2, <1>3, Holdings DEF Leads
<1> HIDE DEF n, y, p
<1> QED BY <1>1, <1>4, RemoveETHOn DEF x, n, y, p
(* A swap of one account's tokens into tokens of the recipient.            *)
Traded(w, v, in, u, out, to, n, got) ==
  /\ Leads(w, v) /\ v.kash = w.kash
  /\ \A s \in Token, c \in Account \ Pool :
       ~(s = in /\ c = u) /\ ~(s = out /\ c = to) => v.tok[s][c] = w.tok[s][c]
  /\ IF in = out /\ u = to
     THEN v.tok[out][to] = (w.tok[out][to] - n) + got
     ELSE v.tok[in][u] = w.tok[in][u] - n /\ v.tok[out][to] = w.tok[out][to] + got

(* A swap of tokens: paid, then carried along the path.                    *)
LEMMA TradeOn ==
  ASSUME NEW w, Sound(w), NEW in \in Token, NEW u \in Account \ Pool, NEW n,
         NEW m, Spends(w, m, in, u, n),
         NEW out \in Token, NEW to \in Account \ Pool, NEW got, NEW v, PaidOut(m, v, out, to, got)
  PROVE  Traded(w, v, in, u, out, to, n, got)
<1>1. Leads(w, v)
  BY CarriedLeads, LeadsOn DEF Spends, PaidOut
<1>2. v.kash = w.kash
  BY DEF Spends, PaidOut, Carried
<1>3. ASSUME NEW s \in Token, NEW c \in Account \ Pool, ~(s = in /\ c = u), ~(s = out /\ c = to)
      PROVE  v.tok[s][c] = w.tok[s][c]
  BY <1>3 DEF Spends, PaidOut
<1>4. CASE in = out /\ u = to
  BY <1>1, <1>2, <1>3, <1>4 DEF Spends, PaidOut, Traded
<1>5. CASE ~(in = out /\ u = to)
  <2>1. v.tok[in][u] = w.tok[in][u] - n /\ v.tok[out][to] = w.tok[out][to] + got
    BY <1>5 DEF Spends, PaidOut
  <2> QED BY <1>1, <1>2, <1>3, <1>5, <2>1 DEF Traded
<1> QED BY <1>4, <1>5

LEMMA FirstPool ==
  ASSUME NEW path, IsPath(path)
  PROVE  First(path) \in Pool
<1>1. 1 \in 1 .. Len(path) - 1 /\ 1 + 1 = 2
  BY PathParts, SMT
<1>2. PairFor(path[1], path[1 + 1]) \in Pool
  BY <1>1, PathParts
<1> QED BY <1>1, <1>2 DEF First

(* The quoted amount goes to the first pool.                               *)
LEMMA PayTokensSound ==
  ASSUME NEW w, Sound(w), NEW u \in User, NEW path, IsPath(path), NEW n \in Nat,
         NEW v, v = PayTokens(w, u, path, n), v # Failed
  PROVE  Spends(w, v, path[1], u, n) /\ Sound(v)
<1>1. First(path) \in Pool /\ path[1] \in Token /\ u \in Account \ Pool
  BY FirstPool, PathParts, Users
<1>2. v = Transfer(w, path[1], u, First(path), n)
  BY DEF PayTokens
<1>3. Spends(w, v, path[1], u, n)
  BY <1>1, <1>2, SpendSound
<1> QED BY <1>3 DEF Spends, Leads

(* swapExactTokensForTokens                                                *)
LEMMA ExactTokensSound ==
  ASSUME NEW w, Sound(w), NEW u \in User, NEW x \in Nat, NEW minOut, NEW path, IsPath(path),
         NEW to \in Account \ Pool,
         NEW v, v = SwapExactTokensForTokens(w, u, x, minOut, path, to), v # Failed
  PROVE  \E n \in Nat :
           /\ n >= minOut /\ n = Seqs!Last(GetAmountsOut(w, x, path))
           /\ Traded(w, v, path[1], u, path[Len(path)], to, x, Delivered(path[Len(path)], n))
<1> DEFINE amounts == GetAmountsOut(w, x, path)
           m == PayTokens(w, u, path, x)
           n == amounts[Len(path)]
<1>1. EnoughOut(amounts, minOut) /\ m # Failed /\ v = SwapAlong(m, amounts, path, to)
  BY DEF SwapExactTokensForTokens, Then
<1>2. w \in World
  BY DEF Sound, Ledgers
<1> HIDE DEF amounts, m
<1>3. /\ \A i \in 1 .. Len(path) : amounts[i] \in Nat
      /\ Seqs!Last(amounts) = amounts[Len(path)]
  BY <1>2, AmountsOut DEF amounts
<1>4. Spends(w, m, path[1], u, x) /\ Sound(m)
  BY <1>1, PayTokensSound DEF m
<1>5. PaidOut(m, v, path[Len(path)], to, Delivered(path[Len(path)], n))
  BY <1>1, <1>3, <1>4, AlongSound
<1>6. Len(path) \in 1 .. Len(path)
  BY PathParts, SMT
<1>7. n \in Nat /\ n >= minOut
  BY <1>1, <1>3, <1>6 DEF EnoughOut
<1>8. path[1] \in Token /\ path[Len(path)] \in Token /\ u \in Account \ Pool
  BY PathParts, Users
<1> HIDE DEF n
<1>9. Traded(w, v, path[1], u, path[Len(path)], to, x, Delivered(path[Len(path)], n))
  BY <1>4, <1>5, <1>8, TradeOn
<1> QED BY <1>3, <1>7, <1>9 DEF n, amounts

(* swapTokensForExactTokens                                                *)
LEMMA TokensForExactSound ==
  ASSUME NEW w, Sound(w), NEW u \in User, NEW x \in Nat, NEW maxIn, NEW path, IsPath(path),
         NEW to \in Account \ Pool,
         NEW v, v = SwapTokensForExactTokens(w, u, x, maxIn, path, to), v # Failed
  PROVE  \E n \in Nat :
           /\ n <= maxIn
           /\ Traded(w, v, path[1], u, path[Len(path)], to, n, Delivered(path[Len(path)], x))
<1> DEFINE amounts == GetAmountsIn(w, x, path)
           n == amounts[1]
           m == PayTokens(w, u, path, n)
<1>1. n <= maxIn /\ m # Failed /\ v = SwapAlong(m, amounts, path, to)
  BY DEF SwapTokensForExactTokens, Then
<1>2. w \in World
  BY DEF Sound, Ledgers
<1> HIDE DEF amounts
<1>3. /\ \A i \in 1 .. Len(path) : amounts[i] \in Nat
      /\ amounts[Len(path)] = x
  BY <1>2, AmountsIn DEF amounts
<1>4. 1 \in 1 .. Len(path)
  BY PathParts, SMT
<1>5. n \in Nat
  BY <1>3, <1>4
<1> HIDE DEF n, m
<1>6. Spends(w, m, path[1], u, n) /\ Sound(m)
  BY <1>1, <1>5, PayTokensSound DEF m
<1>7. PaidOut(m, v, path[Len(path)], to, Delivered(path[Len(path)], x))
  BY <1>1, <1>3, <1>6, AlongSound
<1>8. path[1] \in Token /\ path[Len(path)] \in Token /\ u \in Account \ Pool
  BY PathParts, Users
<1>9. Traded(w, v, path[1], u, path[Len(path)], to, n, Delivered(path[Len(path)], x))
  BY <1>6, <1>7, <1>8, TradeOn
<1> QED BY <1>1, <1>5, <1>9
(* A swap of msg.value, n of which is spent.                               *)
Bought(w, v, u, out, to, n, got) ==
  /\ Leads(w, v)
  /\ \A s \in Token, c \in Account \ Pool : (s # out \/ c # to) => v.tok[s][c] = w.tok[s][c]
  /\ v.tok[out][to] = w.tok[out][to] + got
  /\ v.kash[u] = w.kash[u] - n /\ v.kash[Router] = w.kash[Router]

(* A swap of native KASH: paid, then carried along the path.               *)
LEMMA BuyOn ==
  ASSUME NEW w, Sound(w), NEW u \in User, NEW value \in Nat, NEW n \in Nat, NEW m, Wraps(w, m, u, value, n),
         NEW out \in Token, NEW to \in Account \ Pool, NEW got, NEW v, PaidOut(m, v, out, to, got)
  PROVE  /\ Leads(w, v)
         /\ \A s \in Token, c \in Account \ Pool : (s # out \/ c # to) => v.tok[s][c] = w.tok[s][c]
         /\ v.tok[out][to] = w.tok[out][to] + got
         /\ v.kash[u] = w.kash[u] - value
         /\ v.kash[Router] = w.kash[Router] + value - n
<1>1. Leads(w, v)
  BY CarriedLeads, LeadsOn DEF Wraps, PaidOut
<1>2. v.kash = m.kash
  BY DEF PaidOut, Carried
<1> QED BY <1>1, <1>2 DEF Wraps, PaidOut

(* swapExactETHForTokens                                                   *)
LEMMA ExactETHSound ==
  ASSUME NEW w, Sound(w), NEW u \in User, NEW value \in Nat, NEW minOut, NEW path, IsPath(path),
         NEW to \in Account \ Pool,
         NEW v, v = SwapExactETHForTokens(w, u, value, minOut, path, to), v # Failed
  PROVE  \E n \in Nat :
           /\ n >= minOut
           /\ Bought(w, v, u, path[Len(path)], to, value, Delivered(path[Len(path)], n))
<1> DEFINE amounts == GetAmountsOut(w, value, path)
           h == PayIn(w, u, value)
           m == PayWrapped(h, path, value)
           n == amounts[Len(path)]
<1>1. /\ EnoughOut(amounts, minOut) /\ path[1] = WKASH
      /\ h # Failed /\ m # Failed /\ v = SwapAlong(m, amounts, path, to)
  BY DEF SwapExactETHForTokens, Then
<1>2. w \in World
  BY DEF Sound, Ledgers
<1> HIDE DEF amounts, m, h
<1>3. /\ \A i \in 1 .. Len(path) : amounts[i] \in Nat
      /\ Seqs!Last(amounts) = amounts[Len(path)]
  BY <1>2, AmountsOut DEF amounts
<1>4. Wraps(w, m, u, value, value)
  BY <1>1, PayWrappedSound DEF m, h
<1>5. Sound(m)
  BY <1>4 DEF Wraps, Leads
<1>6. PaidOut(m, v, path[Len(path)], to, Delivered(path[Len(path)], n))
  BY <1>1, <1>3, <1>5, AlongSound
<1>7. Len(path) \in 1 .. Len(path) /\ path[Len(path)] \in Token
  BY PathParts, SMT
<1>8. n \in Nat /\ n >= minOut
  BY <1>1, <1>3, <1>7 DEF EnoughOut
<1> HIDE DEF n
<1>9. /\ Leads(w, v)
      /\ \A s \in Token, c \in Account \ Pool :
           (s # path[Len(path)] \/ c # to) => v.tok[s][c] = w.tok[s][c]
      /\ v.tok[path[Len(path)]][to] = w.tok[path[Len(path)]][to] + Delivered(path[Len(path)], n)
      /\ v.kash[u] = w.kash[u] - value
      /\ v.kash[Router] = w.kash[Router] + value - value
  BY <1>4, <1>6, <1>7, BuyOn
<1>10. v.kash[Router] = w.kash[Router]
  <2>1. w.kash[Router] \in Nat
    BY Routers, Holdings
  <2> QED BY <1>9, <2>1, SMT
<1>11. Bought(w, v, u, path[Len(path)], to, value, Delivered(path[Len(path)], n))
  BY <1>9, <1>10 DEF Bought
<1> QED BY <1>8, <1>11

(* swapETHForExactTokens                                                   *)
LEMMA ETHForExactSound ==
  ASSUME NEW w, Sound(w), NEW u \in User, NEW x \in Nat, NEW value \in Nat, NEW path, IsPath(path),
         NEW to \in Account \ Pool,
         NEW v, v = SwapETHForExactTokens(w, u, x, value, path, to), v # Failed
  PROVE  \E n \in Nat :
           /\ n <= value
           /\ Bought(w, v, u, path[Len(path)], to, n, Delivered(path[Len(path)], x))
<1> DEFINE amounts == GetAmountsIn(w, x, path)
           n == amounts[1]
           h == PayIn(w, u, value)
           m == PayWrapped(h, path, n)
           i == SwapAlong(m, amounts, path, to)
           out == path[Len(path)]
<1>1. /\ n <= value /\ path[1] = WKASH
      /\ h # Failed /\ m # Failed /\ i # Failed /\ v = Refund(i, u, value - n)
  BY DEF SwapETHForExactTokens, Then
<1>2. w \in World
  BY DEF Sound, Ledgers
<1> HIDE DEF amounts, h
<1>3. /\ \A k \in 1 .. Len(path) : amounts[k] \in Nat
      /\ amounts[Len(path)] = x
  BY <1>2, AmountsIn DEF amounts
<1>4. 1 \in 1 .. Len(path) /\ out \in Token
  BY PathParts, SMT
<1>5. n \in Nat
  BY <1>3, <1>4
<1> HIDE DEF n, m
<1>6. Wraps(w, m, u, value, n)
  BY <1>1, <1>5, PayWrappedSound DEF m, h
<1>7. Sound(m)
  BY <1>6 DEF Wraps, Leads
<1> HIDE DEF i
<1>8. PaidOut(m, i, out, to, Delivered(out, x))
  BY <1>1, <1>3, <1>7, AlongSound DEF i
<1> HIDE DEF out
<1>9. /\ Leads(w, i)
      /\ \A s \in Token, c \in Account \ Pool : (s # out \/ c # to) => i.tok[s][c] = w.tok[s][c]
      /\ i.tok[out][to] = w.tok[out][to] + Delivered(out, x)
      /\ i.kash[u] = w.kash[u] - value
      /\ i.kash[Router] = w.kash[Router] + value - n
  BY <1>4, <1>5, <1>6, <1>8, BuyOn
<1>10. Sound(i) /\ value - n \in Nat
  BY <1>1, <1>5, <1>9, SMT DEF Leads
<1>11. /\ Leads(i, v) /\ SameTokens(i, v)
       /\ v.kash[u] = i.kash[u] + (value - n) /\ v.kash[Router] = i.kash[Router] - (value - n)
  BY <1>1, <1>10, RefundSound
<1>12. v.kash[u] = w.kash[u] - n /\ v.kash[Router] = w.kash[Router]
  <2>1. w.kash[u] \in Nat /\ w.kash[Router] \in Nat
    BY Users, Routers, Holdings
  <2> QED BY <1>5, <1>9, <1>11, <2>1, SMT
<1>13. Leads(w, v)
  BY <1>9, <1>11, LeadsOn
<1>14. Bought(w, v, u, out, to, n, Delivered(out, x))
  BY <1>9, <1>11, <1>12, <1>13 DEF Bought, SameTokens
<1> QED BY <1>1, <1>5, <1>14 DEF out

(* The swaps of what arrives, out of a world in which the first pair has   *)
(* been paid.                                                              *)
LEMMA SwapPaidSound ==
  ASSUME NEW w, Sound(w), NEW minOut, NEW path, IsPath(path), NEW to \in Account \ Pool,
         NEW v, v = SwapPaid(w, minOut, path, to), v # Failed
  PROVE  \E n \in Nat : PaidOut(w, v, path[Len(path)], to, n) /\ n >= minOut
<1> DEFINE x == SwapArrived(w, path, to)
           out == path[Len(path)]
<1>1. Seqs!Last(path) = out /\ out \in Token
  BY PathParts
<1>2. x # Failed /\ v = x /\ v.tok[out][to] - w.tok[out][to] >= minOut
  BY <1>1 DEF SwapPaid, Then, Require, Received
<1>3. PICK n \in Nat : PaidOut(w, v, out, to, n)
  BY <1>2, ArrivedSound
<1>4. w.tok[out][to] \in Nat /\ v.tok[out][to] = w.tok[out][to] + n
  BY <1>1, <1>3, Holdings DEF PaidOut
<1>5. v.tok[out][to] - w.tok[out][to] = n
  BY <1>4, SMT
<1> QED BY <1>2, <1>3, <1>5

(* The swaps that measure what arrives.                                    *)
LEMMA TokensFeeSound ==
  ASSUME NEW w, Sound(w), NEW u \in User, NEW x \in Nat, NEW minOut, NEW path, IsPath(path),
         NEW to \in Account \ Pool,
         NEW v, v = SwapExactTokensForTokensSupportingFee(w, u, x, minOut, path, to), v # Failed
  PROVE  \E n \in Nat : n >= minOut /\ Traded(w, v, path[1], u, path[Len(path)], to, x, n)
<1> DEFINE m == PayTokens(w, u, path, x)
<1>1. m # Failed /\ v = SwapPaid(m, minOut, path, to)
  BY DEF SwapExactTokensForTokensSupportingFee, Then
<1> HIDE DEF m
<1>2. Spends(w, m, path[1], u, x) /\ Sound(m)
  BY <1>1, PayTokensSound DEF m
<1>3. PICK n \in Nat : PaidOut(m, v, path[Len(path)], to, n) /\ n >= minOut
  BY <1>1, <1>2, SwapPaidSound
<1>4. path[1] \in Token /\ path[Len(path)] \in Token /\ u \in Account \ Pool
  BY PathParts, Users
<1>5. Traded(w, v, path[1], u, path[Len(path)], to, x, n)
  BY <1>2, <1>3, <1>4, TradeOn
<1> QED BY <1>3, <1>5

LEMMA ETHFeeSound ==
  ASSUME NEW w, Sound(w), NEW u \in User, NEW value \in Nat, NEW minOut, NEW path, IsPath(path),
         NEW to \in Account \ Pool,
         NEW v, v = SwapExactETHForTokensSupportingFee(w, u, value, minOut, path, to), v # Failed
  PROVE  \E n \in Nat : n >= minOut /\ Bought(w, v, u, path[Len(path)], to, value, n)
<1> DEFINE h == PayIn(w, u, value)
           m == PayWrapped(h, path, value)
<1>1. h # Failed /\ m # Failed /\ path[1] = WKASH /\ v = SwapPaid(m, minOut, path, to)
  BY DEF SwapExactETHForTokensSupportingFee, Then
<1> HIDE DEF m, h
<1>2. Wraps(w, m, u, value, value)
  BY <1>1, PayWrappedSound DEF m, h
<1>3. Sound(m)
  BY <1>2 DEF Wraps, Leads
<1>4. PICK n \in Nat : PaidOut(m, v, path[Len(path)], to, n) /\ n >= minOut
  BY <1>1, <1>3, SwapPaidSound
<1>5. path[Len(path)] \in Token
  BY PathParts
<1>6. /\ Leads(w, v)
      /\ \A s \in Token, c \in Account \ Pool :
           (s # path[Len(path)] \/ c # to) => v.tok[s][c] = w.tok[s][c]
      /\ v.tok[path[Len(path)]][to] = w.tok[path[Len(path)]][to] + n
      /\ v.kash[u] = w.kash[u] - value
      /\ v.kash[Router] = w.kash[Router] + value - value
  BY <1>2, <1>4, <1>5, BuyOn
<1>7. v.kash[Router] = w.kash[Router]
  <2>1. w.kash[Router] \in Nat
    BY Routers, Holdings
  <2> QED BY <1>6, <2>1, SMT
<1>8. Bought(w, v, u, path[Len(path)], to, value, n)
  BY <1>6, <1>7 DEF Bought
<1> QED BY <1>4, <1>8
(* A swap whose output the router unwraps and sends on.                    *)
Sold(w, v, in, u, to, n, got) ==
  /\ Leads(w, v)
  /\ v.tok[in][u] = w.tok[in][u] - n
  /\ \A t \in Token : v.tok[t][Router] <= w.tok[t][Router]
  /\ v.kash[to] = w.kash[to] + got /\ v.kash[Router] = w.kash[Router]

(* A swap for native KASH: carried along the path to the router, then      *)
(* unwrapped.                                                              *)
LEMMA SellOn ==
  ASSUME NEW w, Sound(w), NEW in \in Token, NEW u \in User, NEW to \in User, NEW n, NEW got \in Nat,
         NEW m, Traded(w, m, in, u, WKASH, Router, n, got),
         NEW sent, sent = got \/ sent = m.tok[WKASH][Router],
         NEW v, Unwraps(m, v, to, sent)
  PROVE  Sold(w, v, in, u, to, n, sent)
<1>1. /\ u \in Account \ Pool /\ u # Router /\ u \in Account
      /\ Router \in Account \ Pool /\ Router \in Account /\ WKASH \in Token
  BY Users, Routers
<1>2. Leads(w, v)
  BY LeadsOn DEF Traded, Unwraps
<1>3. v.kash[to] = w.kash[to] + sent /\ v.kash[Router] = w.kash[Router]
  BY DEF Traded, Unwraps
<1>4. m.tok[in][u] = w.tok[in][u] - n /\ m.tok[WKASH][Router] = w.tok[WKASH][Router] + got
  BY <1>1 DEF Traded
<1>5. v.tok[in][u] = w.tok[in][u] - n
  BY <1>1, <1>4 DEF Unwraps
<1>6. ASSUME NEW t \in Token PROVE v.tok[t][Router] <= w.tok[t][Router]
  <2>1. w.tok[t][Router] \in Nat /\ w.tok[WKASH][Router] \in Nat /\ m.tok[WKASH][Router] \in Nat
    BY <1>1, Holdings DEF Traded, Leads
  <2>2. CASE t = WKASH
    <3>1. v.tok[WKASH][Router] = m.tok[WKASH][Router] - sent
      BY DEF Unwraps
    <3> QED BY <1>4, <2>1, <2>2, <3>1, SMT
  <2>3. CASE t # WKASH
    <3>1. v.tok[t][Router] = w.tok[t][Router]
      BY <1>1, <2>3 DEF Unwraps, Traded
    <3> QED BY <2>1, <3>1, SMT
  <2> QED BY <2>2, <2>3
<1> QED BY <1>2, <1>3, <1>5, <1>6 DEF Sold

(* swapTokensForExactETH                                                   *)
LEMMA TokensForExactETHSound ==
  ASSUME NEW w, Sound(w), NEW u \in User, NEW x \in Nat, NEW maxIn, NEW path, IsPath(path),
         NEW to \in User,
         NEW v, v = SwapTokensForExactETH(w, u, x, maxIn, path, to), v # Failed
  PROVE  \E n \in Nat : n <= maxIn /\ Sold(w, v, path[1], u, to, n, x)
<1> DEFINE m == SwapTokensForExactTokens(w, u, x, maxIn, path, Router)
<1>1. Router \in Account \ Pool /\ WKASH \in Token /\ WKASH \notin Taxed
  BY Routers
<1>2. /\ m # Failed /\ v = PayOutKash(m, to, x)
      /\ path[Len(path)] = WKASH /\ path[1] \in Token
  <2>1. Seqs!Last(path) = path[Len(path)] /\ path[1] \in Token
    BY PathParts
  <2> QED BY <2>1 DEF SwapTokensForExactETH, Then
<1> HIDE DEF m
<1>3. PICK n \in Nat :
        n <= maxIn /\ Traded(w, m, path[1], u, path[Len(path)], Router, n, Delivered(path[Len(path)], x))
  BY <1>1, <1>2, TokensForExactSound DEF m
<1>4. Delivered(WKASH, x) = x
  BY <1>1, DeliveredType
<1>5. Traded(w, m, path[1], u, WKASH, Router, n, x)
  BY <1>2, <1>3, <1>4
<1>6. Unwraps(m, v, to, x)
  BY <1>2, <1>5, PayOutSound DEF Traded, Leads
<1>7. Sold(w, v, path[1], u, to, n, x)
  BY <1>2, <1>5, <1>6, SellOn
<1> QED BY <1>3, <1>7

(* swapExactTokensForETH                                                   *)
LEMMA ExactTokensForETHSound ==
  ASSUME NEW w, Sound(w), NEW u \in User, NEW x \in Nat, NEW minOut, NEW path, IsPath(path),
         NEW to \in User,
         NEW v, v = SwapExactTokensForETH(w, u, x, minOut, path, to), v # Failed
  PROVE  \E n \in Nat : n >= minOut /\ Sold(w, v, path[1], u, to, x, n)
<1> DEFINE m == SwapExactTokensForTokens(w, u, x, minOut, path, Router)
           n == Seqs!Last(GetAmountsOut(w, x, path))
<1>1. Router \in Account \ Pool /\ WKASH \in Token /\ WKASH \notin Taxed
  BY Routers
<1>2. /\ m # Failed /\ v = PayOutKash(m, to, n)
      /\ path[Len(path)] = WKASH /\ path[1] \in Token
  <2>1. Seqs!Last(path) = path[Len(path)] /\ path[1] \in Token
    BY PathParts
  <2> QED BY <2>1 DEF SwapExactTokensForETH, Then
<1> HIDE DEF m, n
<1>3. /\ n \in Nat /\ n >= minOut
      /\ Traded(w, m, path[1], u, path[Len(path)], Router, x, Delivered(path[Len(path)], n))
  <2>1. PICK k \in Nat :
          /\ k >= minOut /\ k = Seqs!Last(GetAmountsOut(w, x, path))
          /\ Traded(w, m, path[1], u, path[Len(path)], Router, x, Delivered(path[Len(path)], k))
    BY <1>1, <1>2, ExactTokensSound DEF m
  <2> QED BY <2>1 DEF n
<1>4. Delivered(WKASH, n) = n
  BY <1>1, <1>3, DeliveredType
<1>5. Traded(w, m, path[1], u, WKASH, Router, x, n)
  BY <1>2, <1>3, <1>4
<1>6. Unwraps(m, v, to, n)
  BY <1>2, <1>3, <1>5, PayOutSound DEF Traded, Leads
<1>7. Sold(w, v, path[1], u, to, x, n)
  BY <1>2, <1>3, <1>5, <1>6, SellOn
<1> QED BY <1>3, <1>7

(* swapExactTokensForETHSupportingFeeOnTransferTokens                      *)
LEMMA TokensForETHFeeSound ==
  ASSUME NEW w, Sound(w), NEW u \in User, NEW x \in Nat, NEW minOut, NEW path, IsPath(path),
         NEW to \in User,
         NEW v, v = SwapExactTokensForETHSupportingFee(w, u, x, minOut, path, to), v # Failed
  PROVE  \E n \in Nat : n >= minOut /\ Sold(w, v, path[1], u, to, x, n)
<1> DEFINE h == PayTokens(w, u, path, x)
           m == SwapArrived(h, path, Router)
           n == m.tok[WKASH][Router]
<1>1. Router \in Account \ Pool /\ Router \in Account /\ WKASH \in Token /\ u \in Account \ Pool
  BY Routers, Users
<1>2. /\ h # Failed /\ m # Failed /\ n >= minOut /\ v = PayOutKash(m, to, n)
      /\ path[Len(path)] = WKASH /\ path[1] \in Token
  <2>1. Seqs!Last(path) = path[Len(path)] /\ path[1] \in Token
    BY PathParts
  <2> QED BY <2>1 DEF SwapExactTokensForETHSupportingFee, Then, Require
<1> HIDE DEF m, h
<1>3. Spends(w, h, path[1], u, x) /\ Sound(h)
  BY <1>2, PayTokensSound DEF h
<1>4. PICK k \in Nat : PaidOut(h, m, path[Len(path)], Router, k)
  BY <1>1, <1>2, <1>3, ArrivedSound DEF m
<1>5. Traded(w, m, path[1], u, WKASH, Router, x, k)
  BY <1>1, <1>2, <1>3, <1>4, TradeOn
<1>6. Sound(m) /\ n \in Nat
  BY <1>1, <1>5, Holdings DEF Traded, Leads
<1>7. Unwraps(m, v, to, n)
  BY <1>2, <1>6, PayOutSound
<1>8. Sold(w, v, path[1], u, to, x, n)
  BY <1>2, <1>5, <1>7, SellOn
<1> QED BY <1>2, <1>6, <1>8

-----------------------------------------------------------------------------
(* The router in use.                                                      *)

RouterInv ==
  /\ Sound(world)
  /\ world.kash[Router] = 0
  /\ \A p \in Pool, u \in User : world.nonces[p][u] <= MaxNonce
  /\ signed \subseteq Message
  /\ now \in 0 .. MaxNow

(* What a router call does to the world, whether or not with a permit.     *)
Moved(w, v) ==
  /\ Sound(v) /\ Kept(w, v) /\ v.kash[Router] = w.kash[Router]
  /\ \A t \in Token : v.tok[t][Router] <= w.tok[t][Router]

(* What the environment may ask for is well formed.                        *)
LEMMA Bounds ==
  /\ \A ab \in Liquidity : ab[1] \in Token /\ ab[2] \in Token /\ ab[1] # ab[2]
  /\ \A path \in Paths : IsPath(path)
  /\ Recipients \subseteq User /\ Strays \subseteq Account
  /\ \A x \in AddAmounts \cup AddMinimums \cup RemoveShares : x \in Nat
  /\ \A x \in SwapAmounts \cup SwapLimits \cup StrayAmounts \cup Approvals \cup Deadlines : x \in Nat
  /\ MaxNow \in Nat /\ MaxNonce \in Nat
BY RouterAssumption DEF IsPath

(* Whatever a swap to a user did, the router is left with what it had.     *)
LEMMA TradedPasses ==
  ASSUME NEW w, Sound(w), NEW v, NEW in, NEW u \in User, NEW out, NEW to \in User, NEW n, NEW got,
         Traded(w, v, in, u, out, to, n, got)
  PROVE  Passed(w, v)
<1>1. Router \in Account \ Pool /\ Router # u /\ Router # to /\ Router \in Account
  BY Users, Routers
<1>2. ASSUME NEW t \in Token PROVE v.tok[t][Router] <= w.tok[t][Router]
  <2>1. v.tok[t][Router] = w.tok[t][Router]
    BY <1>1 DEF Traded
  <2>2. w.tok[t][Router] \in Nat
    BY <1>1, Holdings
  <2> QED BY <2>1, <2>2, SMT
<1> QED BY <1>2 DEF Traded, Passed

LEMMA BoughtPasses ==
  ASSUME NEW w, Sound(w), NEW v, NEW u \in User, NEW out, NEW to \in User, NEW n, NEW got,
         Bought(w, v, u, out, to, n, got)
  PROVE  Passed(w, v)
<1>1. Router \in Account \ Pool /\ Router # to /\ Router \in Account
  BY Users, Routers
<1>2. ASSUME NEW t \in Token PROVE v.tok[t][Router] <= w.tok[t][Router]
  <2>1. v.tok[t][Router] = w.tok[t][Router]
    BY <1>1 DEF Bought
  <2>2. w.tok[t][Router] \in Nat
    BY <1>1, Holdings
  <2> QED BY <2>1, <2>2, SMT
<1> QED BY <1>2 DEF Bought, Passed

LEMMA SoldPasses ==
  ASSUME NEW w, NEW v, NEW in, NEW u, NEW to, NEW n, NEW got, Sold(w, v, in, u, to, n, got)
  PROVE  Passed(w, v)
BY DEF Sold, Passed

(* Each kind of call, as a step of the system.                             *)
LEMMA AddStep ==
  ASSUME Sound(world), NEW u \in User, AddLiquidityCall(u)
  PROVE  Passed(world, world') /\ UNCHANGED <<signed, now>>
<1>1. PICK ab \in Liquidity, x \in AddAmounts, y \in AddAmounts, minX \in AddMinimums, minY \in AddMinimums,
           to \in Recipients :
        \/ Happens(AddLiquidity(world, u, ab[1], ab[2], x, y, minX, minY, to))
        \/ /\ ab[2] = WKASH
           /\ Happens(AddLiquidityETH(world, u, ab[1], x, y, minX, minY, to))
  BY DEF AddLiquidityCall
<1>2. /\ ab[1] \in Token /\ ab[2] \in Token /\ ab[1] # ab[2] /\ to \in User
      /\ x \in Nat /\ y \in Nat /\ minX \in Nat /\ minY \in Nat
  BY Bounds
<1>3. CASE Happens(AddLiquidity(world, u, ab[1], ab[2], x, y, minX, minY, to))
  BY <1>2, <1>3, AddSound DEF Happens
<1>4. CASE ab[2] = WKASH /\ Happens(AddLiquidityETH(world, u, ab[1], x, y, minX, minY, to))
  BY <1>2, <1>4, AddETHSound DEF Happens
<1> QED BY <1>1, <1>3, <1>4

LEMMA RemovalStep ==
  ASSUME NEW w, Sound(w), NEW u \in User, NEW ab \in Liquidity, NEW shares \in RemoveShares,
         NEW minA, NEW minB, NEW to \in Recipients,
         Removal(w, u, ab[1], ab[2], shares, minA, minB, to)
  PROVE  Passed(w, world') /\ UNCHANGED <<signed, now>>
<1>1. /\ ab[1] \in Token /\ ab[2] \in Token /\ ab[1] # ab[2] /\ to \in User /\ shares \in Nat
  BY Bounds
<1>2. CASE Happens(Then(w, LAMBDA v : RemoveLiquidity(v, u, ab[1], ab[2], shares, minA, minB, to)))
  <2>1. /\ world' = RemoveLiquidity(w, u, ab[1], ab[2], shares, minA, minB, to) /\ world' # Failed
        /\ UNCHANGED <<signed, now>>
    BY <1>2 DEF Happens, Then
  <2> QED BY <1>1, <2>1, RemovePasses
<1>3. CASE /\ ab[2] = WKASH
           /\ Happens(Then(w, LAMBDA v : RemoveLiquidityETH(v, u, ab[1], shares, minA, minB, to)))
  <2>1. /\ world' = RemoveLiquidityETH(w, u, ab[1], shares, minA, minB, to) /\ world' # Failed
        /\ UNCHANGED <<signed, now>>
    BY <1>3 DEF Happens, Then
  <2> QED BY <1>1, <1>3, <2>1, RemoveETHSound
<1>4. CASE /\ ab[2] = WKASH
           /\ Happens(Then(w, LAMBDA v :
                RemoveLiquidityETHSupportingFee(v, u, ab[1], shares, minA, minB, to)))
  <2>1. /\ world' = RemoveLiquidityETHSupportingFee(w, u, ab[1], shares, minA, minB, to)
        /\ world' # Failed /\ UNCHANGED <<signed, now>>
    BY <1>4 DEF Happens, Then
  <2> QED BY <1>1, <1>4, <2>1, RemoveETHFeeSound
<1> QED BY <1>2, <1>3, <1>4 DEF Removal

LEMMA SwapStep ==
  ASSUME Sound(world), NEW u \in User, SwapCall(u)
  PROVE  Passed(world, world') /\ UNCHANGED <<signed, now>>
<1>1. PICK x \in SwapAmounts, limit \in SwapLimits, path \in Paths, to \in Recipients :
        \/ Happens(SwapExactTokensForTokens(world, u, x, limit, path, to))
        \/ Happens(SwapTokensForExactTokens(world, u, x, limit, path, to))
        \/ Happens(SwapExactETHForTokens(world, u, x, limit, path, to))
        \/ Happens(SwapTokensForExactETH(world, u, x, limit, path, to))
        \/ Happens(SwapExactTokensForETH(world, u, x, limit, path, to))
        \/ Happens(SwapETHForExactTokens(world, u, x, limit, path, to))
        \/ Happens(SwapExactTokensForTokensSupportingFee(world, u, x, limit, path, to))
        \/ Happens(SwapExactETHForTokensSupportingFee(world, u, x, limit, path, to))
        \/ Happens(SwapExactTokensForETHSupportingFee(world, u, x, limit, path, to))
  BY DEF SwapCall
<1>2. IsPath(path) /\ to \in User /\ to \in Account \ Pool /\ x \in Nat /\ limit \in Nat
  BY Bounds, Users
<1>3. CASE Happens(SwapExactTokensForTokens(world, u, x, limit, path, to))
  BY <1>2, <1>3, ExactTokensSound, TradedPasses DEF Happens
<1>4. CASE Happens(SwapTokensForExactTokens(world, u, x, limit, path, to))
  BY <1>2, <1>4, TokensForExactSound, TradedPasses DEF Happens
<1>5. CASE Happens(SwapExactETHForTokens(world, u, x, limit, path, to))
  BY <1>2, <1>5, ExactETHSound, BoughtPasses DEF Happens
<1>6. CASE Happens(SwapTokensForExactETH(world, u, x, limit, path, to))
  BY <1>2, <1>6, TokensForExactETHSound, SoldPasses DEF Happens
<1>7. CASE Happens(SwapExactTokensForETH(world, u, x, limit, path, to))
  BY <1>2, <1>7, ExactTokensForETHSound, SoldPasses DEF Happens
<1>8. CASE Happens(SwapETHForExactTokens(world, u, x, limit, path, to))
  BY <1>2, <1>8, ETHForExactSound, BoughtPasses DEF Happens
<1>9. CASE Happens(SwapExactTokensForTokensSupportingFee(world, u, x, limit, path, to))
  BY <1>2, <1>9, TokensFeeSound, TradedPasses DEF Happens
<1>10. CASE Happens(SwapExactETHForTokensSupportingFee(world, u, x, limit, path, to))
  BY <1>2, <1>10, ETHFeeSound, BoughtPasses DEF Happens
<1>11. CASE Happens(SwapExactTokensForETHSupportingFee(world, u, x, limit, path, to))
  BY <1>2, <1>11, TokensForETHFeeSound, SoldPasses DEF Happens
<1> QED BY <1>1, <1>3, <1>4, <1>5, <1>6, <1>7, <1>8, <1>9, <1>10, <1>11
LEMMA NoncesKept ==
  ASSUME NEW w, NEW v, v.nonces = w.nonces, \A p \in Pool, u \in User : w.nonces[p][u] <= MaxNonce
  PROVE  \A p \in Pool, u \in User : v.nonces[p][u] <= MaxNonce
OBVIOUS

(* Accepting a message spends the nonce it was signed for.                 *)
LEMMA PermitStep ==
  ASSUME RouterInv, NEW m \in signed, NEW v, v = Permit(world, m, now), v # Failed
  PROVE  /\ Sound(v) /\ Kept(world, v) /\ SameMoney(world, v) /\ v.lp = world.lp
         /\ \A p \in Pool, u \in User : v.nonces[p][u] <= MaxNonce
<1>1. m \in Message /\ Approvals \subseteq Nat
  BY Bounds DEF RouterInv
<1>2. /\ Sound(v) /\ Kept(world, v) /\ SameMoney(world, v)
      /\ v.lp = world.lp
      /\ v.nonces = [world.nonces EXCEPT ![m.pool][m.owner] = m.nonce + 1]
  BY <1>1, PermitSound DEF RouterInv
<1>3. m.nonce + 1 <= MaxNonce /\ m.pool \in Pool /\ m.owner \in User
  <2>1. m.nonce \in 0 .. MaxNonce - 1 /\ m.pool \in Pool /\ m.owner \in User
    BY <1>1 DEF Message
  <2>2. MaxNonce \in Nat
    BY Bounds
  <2> QED BY <2>1, <2>2, SMT
<1>4. world.nonces \in [Pool -> [User -> Nat]]
  BY WorldParts DEF RouterInv, Sound, Ledgers
<1>5. ASSUME NEW p \in Pool, NEW u \in User PROVE v.nonces[p][u] <= MaxNonce
  <2>1. world.nonces[p][u] <= MaxNonce
    BY DEF RouterInv
  <2>2. CASE p = m.pool /\ u = m.owner
    <3>1. v.nonces[p][u] = m.nonce + 1
      BY <1>2, <1>3, <1>4, <2>2
    <3> QED BY <1>3, <3>1
  <2>3. CASE ~(p = m.pool /\ u = m.owner)
    <3>1. v.nonces[p][u] = world.nonces[p][u]
      BY <1>2, <1>3, <1>4, <2>3
    <3> QED BY <2>1, <3>1
  <2> QED BY <2>2, <2>3
<1> QED BY <1>2, <1>5

(* A call of the router, with or without a permit.                         *)
LEMMA CallStep ==
  ASSUME RouterInv, NEW u \in User,
         AddLiquidityCall(u) \/ RemoveLiquidityCall(u) \/ PermitRemovalCall(u) \/ SwapCall(u)
  PROVE  /\ Moved(world, world') /\ UNCHANGED <<signed, now>>
         /\ \A p \in Pool, o \in User : world'.nonces[p][o] <= MaxNonce
<1>1. Sound(world) /\ \A p \in Pool, o \in User : world.nonces[p][o] <= MaxNonce
  BY DEF RouterInv
<1>2. ASSUME Passed(world, world'), UNCHANGED <<signed, now>>
      PROVE  /\ Moved(world, world') /\ UNCHANGED <<signed, now>>
             /\ \A p \in Pool, o \in User : world'.nonces[p][o] <= MaxNonce
  BY <1>1, <1>2 DEF Passed, Leads, Moved
<1>3. CASE AddLiquidityCall(u)
  BY <1>1, <1>2, <1>3, AddStep
<1>4. CASE RemoveLiquidityCall(u)
  <2>1. PICK ab \in Liquidity, shares \in RemoveShares, minA \in RemoveMinimums, minB \in RemoveMinimums,
             to \in Recipients : Removal(world, u, ab[1], ab[2], shares, minA, minB, to)
    BY <1>4 DEF RemoveLiquidityCall
  <2> QED BY <1>1, <1>2, <2>1, RemovalStep
<1>5. CASE PermitRemovalCall(u)
  <2>1. PICK m \in signed, ab \in Liquidity, shares \in RemoveShares, minA \in RemoveMinimums,
             minB \in RemoveMinimums, to \in Recipients :
          Removal(Permit(world, m, now), u, ab[1], ab[2], shares, minA, minB, to)
    BY <1>5 DEF PermitRemovalCall, PermitRemoval
  <2> DEFINE w == Permit(world, m, now)
  <2>2. w # Failed
    BY <2>1 DEF Removal, Happens, Then
  <2> HIDE DEF w
  <2>3. /\ Sound(w) /\ Kept(world, w) /\ SameMoney(world, w)
        /\ \A p \in Pool, o \in User : w.nonces[p][o] <= MaxNonce
    BY <2>2, PermitStep DEF w
  <2>4. Passed(w, world') /\ UNCHANGED <<signed, now>>
    <3>1. Removal(w, u, ab[1], ab[2], shares, minA, minB, to)
      BY <2>1 DEF w
    <3> QED BY <2>3, <3>1, RemovalStep
  <2>5. Kept(world, world')
    BY <2>3, <2>4, KeptChained DEF RouterInv, Passed, Leads, Sound, Ledgers
  <2> QED BY <2>3, <2>4, <2>5 DEF Passed, Leads, Moved, SameMoney
<1>6. CASE SwapCall(u)
  BY <1>1, <1>2, <1>6, SwapStep
<1> QED BY <1>3, <1>4, <1>5, <1>6

(* What users do without the router.                                       *)
LEMMA StrayStep ==
  ASSUME RouterInv, NEW u \in User, Stray(u)
  PROVE  /\ Sound(world') /\ Kept(world, world') /\ world'.kash = world.kash
         /\ world'.nonces = world.nonces /\ UNCHANGED <<signed, now>>
         /\ \A t \in Token : world'.tok[t][Router] > world.tok[t][Router] =>
              /\ \E o \in User : world'.tok[t][o] < world.tok[t][o]
              /\ \A p \in Pool : world'.tok[t][p] = world.tok[t][p]
<1>1. PICK t \in Token, to \in Strays, n \in StrayAmounts : Happens(Transfer(world, t, u, to, n))
  BY DEF Stray
<1>2. /\ u \in Account \ Pool /\ u \in Account /\ u # Router /\ to \in Account /\ n \in Nat
      /\ Sound(world) /\ world \in World /\ Router \in Account
      /\ Router \notin Pool /\ u \notin Pool
  BY Bounds, Users, Routers DEF RouterInv, Sound, Ledgers
<1>3. world' = Transfer(world, t, u, to, n) /\ world' # Failed /\ UNCHANGED <<signed, now>>
  BY <1>1 DEF Happens
<1>4. Sound(world') /\ Kept(world, world') /\ SamePools(world, world') /\ world'.kash = world.kash
  BY <1>2, <1>3, TransferSound
<1>5. /\ \A s \in Token, a \in Account :
           (s # t \/ a \notin {u, to}) => world'.tok[s][a] = world.tok[s][a]
      /\ u # to => /\ world'.tok[t][u] = world.tok[t][u] - n
                   /\ world'.tok[t][to] = world.tok[t][to] + Delivered(t, n)
  BY <1>2, <1>3, TransferMoves
<1>6. ASSUME NEW s \in Token, world'.tok[s][Router] > world.tok[s][Router]
      PROVE  /\ \E o \in User : world'.tok[s][o] < world.tok[s][o]
             /\ \A p \in Pool : world'.tok[s][p] = world.tok[s][p]
  <2>1. world.tok[s][Router] \in Nat /\ world.tok[t][u] \in Nat
    BY <1>2, Holdings
  <2>2. s = t /\ to = Router
    <3>1. world'.tok[s][Router] # world.tok[s][Router]
      BY <1>6, <2>1, SMT
    <3> QED BY <1>2, <1>5, <3>1
  <2>3. n > 0
    <3>1. world'.tok[t][Router] = world.tok[t][Router] + Delivered(t, n)
      BY <1>2, <1>5, <2>2
    <3>2. Delivered(t, n) \in Nat /\ Delivered(t, n) <= n
      BY <1>2, DeliveredType
    <3> QED BY <1>2, <1>6, <2>1, <2>2, <3>1, <3>2, SMT
  <2>4. world'.tok[t][u] < world.tok[t][u]
    <3>1. world'.tok[t][u] = world.tok[t][u] - n
      BY <1>2, <1>5, <2>2
    <3> QED BY <1>2, <2>1, <2>3, <3>1, SMT
  <2>5. \A p \in Pool : world'.tok[s][p] = world.tok[s][p]
    BY <1>2, <1>5, <2>2, Accounts
  <2> QED BY <2>2, <2>4, <2>5
<1> QED BY <1>3, <1>4, <1>6 DEF SamePools

(* Everything else that happens between calls.                             *)
LEMMA OtherStep ==
  ASSUME RouterInv,
         \/ \E u \in User : Approve(u) \/ Sign(u)
         \/ \E m \in signed : SubmitPermit(m)
         \/ Sync \/ Tick
  PROVE  RouterInv' /\ Kept(world, world') /\ world'.tok = world.tok
<1>1. Sound(world) /\ world \in World /\ Kept(world, world)
  BY KeptWhenSame DEF RouterInv, Sound, Ledgers
<1>2. ASSUME NEW u \in User, Approve(u) PROVE RouterInv' /\ Kept(world, world') /\ world'.tok = world.tok
  <2>1. PICK p \in world.pairs, n \in Approvals : Happens(ApproveRouter(world, p, u, n))
    BY <1>2 DEF Approve
  <2>2. world' = ApproveRouter(world, p, u, n) /\ UNCHANGED <<signed, now>>
    BY <2>1 DEF Happens
  <2>3. p \in Pool /\ n \in Nat
    BY <1>1, WorldParts, Bounds
  <2>4. /\ Sound(world') /\ Kept(world, world') /\ SameMoney(world, world')
        /\ world'.nonces = world.nonces
    BY <1>1, <2>2, <2>3, ApproveSound
  <2> QED BY <2>2, <2>4 DEF RouterInv, SameMoney, Message
<1>3. ASSUME NEW u \in User, Sign(u) PROVE RouterInv' /\ Kept(world, world') /\ world'.tok = world.tok
  <2>1. PICK p \in world.pairs, n \in Approvals, d \in Deadlines :
          /\ world.nonces[p][u] < MaxNonce
          /\ signed' = signed \cup {[pool |-> p, owner |-> u, value |-> n,
                                     nonce |-> world.nonces[p][u], deadline |-> d]}
    BY <1>3 DEF Sign
  <2>2. p \in Pool /\ world.nonces[p][u] \in 0 .. MaxNonce - 1
    <3>1. p \in Pool
      BY <1>1, WorldParts
    <3>2. world.nonces[p][u] \in Nat
      BY <1>1, <3>1, WorldParts
    <3> QED BY <2>1, <3>1, <3>2, Bounds, SMT
  <2>3. [pool |-> p, owner |-> u, value |-> n, nonce |-> world.nonces[p][u], deadline |-> d] \in Message
    BY <2>2 DEF Message
  <2>4. signed' \subseteq Message
    BY <2>1, <2>3 DEF RouterInv
  <2>5. world' = world /\ now' = now
    BY <1>3 DEF Sign
  <2> QED BY <1>1, <2>4, <2>5 DEF RouterInv, Message
<1>4. ASSUME NEW m \in signed, SubmitPermit(m)
      PROVE  RouterInv' /\ Kept(world, world') /\ world'.tok = world.tok
  <2>1. world' = Permit(world, m, now) /\ world' # Failed /\ UNCHANGED <<signed, now>>
    BY <1>4 DEF SubmitPermit, Happens
  <2>2. /\ Sound(world') /\ Kept(world, world') /\ SameMoney(world, world')
        /\ \A p \in Pool, u \in User : world'.nonces[p][u] <= MaxNonce
    BY <2>1, PermitStep
  <2> QED BY <2>1, <2>2 DEF RouterInv, SameMoney, Message
<1>5. ASSUME Sync PROVE RouterInv' /\ Kept(world, world') /\ world'.tok = world.tok
  <2>1. PICK p \in Pool : Happens(PairSync(world, p))
    BY <1>5 DEF Sync
  <2>2. world' = Update(world, p) /\ UNCHANGED <<signed, now>>
    BY <2>1 DEF Happens, PairSync, Require
  <2>3. Sound(world') /\ Kept(world, world')
    BY <1>1, <2>2, UpdateSound
  <2>4. SameMoney(world, world') /\ world'.nonces = world.nonces
    BY <1>1, <2>2, UpdateSets DEF Sound
  <2> QED BY <2>2, <2>3, <2>4 DEF RouterInv, SameMoney, Message
<1>6. ASSUME Tick PROVE RouterInv' /\ Kept(world, world') /\ world'.tok = world.tok
  <2>1. now' \in 0 .. MaxNow /\ UNCHANGED <<world, signed>>
    BY <1>6, Bounds, SMT DEF Tick, RouterInv
  <2> QED BY <1>1, <2>1 DEF RouterInv, Message
<1> QED BY <1>2, <1>3, <1>4, <1>5, <1>6

(* The invariant holds at first, is kept by every step, and so always      *)
(* holds.                                                                  *)
LEMMA RouterInit ==
  ASSUME Init
  PROVE  RouterInv
<1>1. /\ User \subseteq Account /\ Router \in Account /\ Router \notin User
      /\ WKASH \in Account /\ WKASH \notin User /\ Pool \subseteq Account /\ IsFiniteSet(Account)
      /\ WKASH \in Token
  BY Accounts
<1>2. /\ Genesis.tok \in [Token -> [User -> Nat]] /\ Genesis.kash \in [User -> Nat]
      /\ \A u \in User : Genesis.tok[WKASH][u] = 0
  BY RouterAssumption
<1>3. 0 \in Nat
  OBVIOUS
<1>4. /\ world.tok = [t \in Token |-> [a \in Account |-> IF a \in User THEN Genesis.tok[t][a] ELSE 0]]
      /\ world.kash = [a \in Account |-> IF a \in User THEN Genesis.kash[a] ELSE 0]
      /\ world.pairs = {}
      /\ world.reserve = [p \in Pool |-> [t \in Token |-> 0]]
      /\ world.lp = [p \in Pool |-> [a \in Account |-> 0]]
      /\ world.supply = [p \in Pool |-> 0]
      /\ world.allowance = [p \in Pool |-> [u \in User |-> 0]]
      /\ world.nonces = [p \in Pool |-> [u \in User |-> 0]]
  BY DEF Init
<1>5. /\ world.tok \in [Token -> [Account -> Nat]]
      /\ world.kash \in [Account -> Nat]
      /\ world.reserve \in [Pool -> [Token -> Nat]]
      /\ world.lp \in [Pool -> [Account -> Nat]]
      /\ world.supply \in [Pool -> Nat]
      /\ world.allowance \in [Pool -> [User -> Nat]]
      /\ world.nonces \in [Pool -> [User -> Nat]]
  BY <1>2, <1>3, <1>4
<1>6. world \in World
  <2>1. world = [tok |-> world.tok, kash |-> world.kash, pairs |-> world.pairs,
                 reserve |-> world.reserve, lp |-> world.lp, supply |-> world.supply,
                 allowance |-> world.allowance, nonces |-> world.nonces]
    BY DEF Init
  <2>2. world.pairs \in SUBSET Pool
    BY <1>4
  <2> QED BY <1>5, <2>1, <2>2 DEF World
<1>7. Backed(world)
  <2>1. \A a \in Account : world.tok[WKASH][a] = 0
    BY <1>1, <1>2, <1>4
  <2>2. Total(world.tok[WKASH]) = 0
    BY <1>1, <1>5, <2>1, TotalZero
  <2> QED BY <1>1, <1>4, <2>2 DEF Backed
<1>8. Held(world)
  <2>1. ASSUME NEW p \in Pool PROVE world.supply[p] = Total(world.lp[p]) /\ world.lp[p][Router] = 0
    <3>1. \A a \in Account : world.lp[p][a] = 0
      BY <1>4
    <3>2. Total(world.lp[p]) = 0
      BY <1>5, <3>1, TotalZero
    <3> QED BY <1>1, <1>4, <3>1, <3>2
  <2> QED BY <2>1 DEF Held
<1>9. Locked(world)
  <2>1. \A p \in Pool : world.supply[p] = 0
    BY <1>4
  <2>2. ~(0 > 0)
    BY SMT
  <2> QED BY <2>1, <2>2 DEF Locked
<1>10. Covered(world)
  <2>1. ASSUME NEW p \in Pool, NEW t \in p PROVE world.reserve[p][t] <= world.tok[t][p]
    <3>1. t \in Token
      BY TwoTokens
    <3>2. world.reserve[p][t] = 0
      BY <1>4, <3>1
    <3>3. world.tok[t][p] \in Nat
      BY <1>1, <1>5, <3>1
    <3> QED BY <3>2, <3>3, SMT
  <2> QED BY <2>1 DEF Covered
<1>11. \A p \in Pool, u \in User : world.nonces[p][u] <= MaxNonce
  <2>1. 0 <= MaxNonce
    BY Bounds, SMT
  <2> QED BY <1>4, <2>1
<1>12. now \in 0 .. MaxNow /\ signed \subseteq Message /\ world.kash[Router] = 0
  BY <1>1, <1>4, Bounds, SMT DEF Init
<1> QED BY <1>6, <1>7, <1>8, <1>9, <1>10, <1>11, <1>12 DEF RouterInv, Sound, Ledgers
(* One step of anyone: nothing is lost, and the router gains nothing but   *)
(* what is sent to it directly.                                            *)
GainsNothing ==
  /\ world'.kash[Router] = 0
  /\ \A p \in Pool : world'.lp[p][Router] = 0
  /\ \A t \in Token : world'.tok[t][Router] > world.tok[t][Router] =>
       /\ \E u \in User : world'.tok[t][u] < world.tok[t][u]
       /\ \A p \in Pool : world'.tok[t][p] = world.tok[t][p]

LEMMA RouterStep ==
  ASSUME RouterInv, [Next]_vars
  PROVE  RouterInv' /\ Kept(world, world') /\ GainsNothing
<1>1. Sound(world) /\ world \in World /\ Kept(world, world) /\ world.kash[Router] = 0
  BY KeptWhenSame DEF RouterInv, Sound, Ledgers
<1>2. ASSUME RouterInv' PROVE world'.kash[Router] = 0 /\ \A p \in Pool : world'.lp[p][Router] = 0
  BY <1>2 DEF RouterInv, Sound, Ledgers, Held
<1>3. \A t \in Token : world.tok[t][Router] \in Nat
  BY <1>1, Routers, Holdings
<1>4. ASSUME RouterInv', \A t \in Token : world'.tok[t][Router] <= world.tok[t][Router]
      PROVE  GainsNothing
  <2>1. \A t \in Token : world'.tok[t][Router] \in Nat
    BY <1>4, Routers, Holdings DEF RouterInv
  <2>2. \A t \in Token : ~(world'.tok[t][Router] > world.tok[t][Router])
    BY <1>3, <1>4, <2>1, SMT
  <2> QED BY <1>2, <1>4, <2>2 DEF GainsNothing
<1>5. ASSUME NEW u \in User,
             AddLiquidityCall(u) \/ RemoveLiquidityCall(u) \/ PermitRemovalCall(u) \/ SwapCall(u)
      PROVE  RouterInv' /\ Kept(world, world') /\ GainsNothing
  <2>1. /\ Moved(world, world') /\ UNCHANGED <<signed, now>>
        /\ \A p \in Pool, o \in User : world'.nonces[p][o] <= MaxNonce
    BY <1>5, CallStep
  <2>2. RouterInv'
    BY <1>1, <2>1 DEF RouterInv, Moved, Message
  <2> QED BY <1>4, <2>1, <2>2 DEF Moved
<1>6. ASSUME NEW u \in User, Stray(u)
      PROVE  RouterInv' /\ Kept(world, world') /\ GainsNothing
  <2>1. /\ Sound(world') /\ Kept(world, world') /\ world'.kash = world.kash
        /\ world'.nonces = world.nonces /\ UNCHANGED <<signed, now>>
        /\ \A t \in Token : world'.tok[t][Router] > world.tok[t][Router] =>
             /\ \E o \in User : world'.tok[t][o] < world.tok[t][o]
             /\ \A p \in Pool : world'.tok[t][p] = world.tok[t][p]
    BY <1>6, StrayStep
  <2>2. RouterInv'
    BY <2>1 DEF RouterInv, Message
  <2> QED BY <1>2, <2>1, <2>2 DEF GainsNothing
<1>7. ASSUME \/ \E u \in User : Approve(u) \/ Sign(u)
             \/ \E m \in signed : SubmitPermit(m)
             \/ Sync \/ Tick
      PROVE  RouterInv' /\ Kept(world, world') /\ GainsNothing
  <2>1. RouterInv' /\ Kept(world, world') /\ world'.tok = world.tok
    BY <1>7, OtherStep
  <2>2. \A t \in Token : world'.tok[t][Router] <= world.tok[t][Router]
    BY <1>3, <2>1, SMT
  <2> QED BY <1>4, <2>1, <2>2
<1>8. CASE UNCHANGED vars
  <2>1. world' = world /\ signed' = signed /\ now' = now
    BY <1>8 DEF vars
  <2>2. RouterInv'
    BY <2>1 DEF RouterInv, Message
  <2>3. \A t \in Token : world'.tok[t][Router] <= world.tok[t][Router]
    BY <1>3, <2>1, SMT
  <2> QED BY <1>1, <1>4, <2>1, <2>2, <2>3
<1> QED BY <1>5, <1>6, <1>7, <1>8 DEF Next

LEMMA RouterAlways == Spec => []RouterInv
<1>1. RouterInv /\ [Next]_vars => RouterInv'
  BY RouterStep
<1> QED BY <1>1, RouterInit, PTL DEF Spec

-----------------------------------------------------------------------------
(* The theorems.                                                           *)

(* TypeOK holds in every state: no sequence of calls drives a balance, a   *)
(* reserve, a share or a nonce below zero or out of its range.             *)
THEOREM RouterTypeCorrect == Spec => []TypeOK
<1>1. RouterInv => TypeOK
  <2> SUFFICES ASSUME RouterInv PROVE TypeOK
    OBVIOUS
  <2>1. world \in World /\ \A p \in Pool, u \in User : world.nonces[p][u] <= MaxNonce
    BY DEF RouterInv, Sound, Ledgers
  <2>2. /\ world.tok \in [Token -> [Account -> Nat]]
        /\ world.kash \in [Account -> Nat]
        /\ world.pairs \in SUBSET Pool
        /\ world.reserve \in [Pool -> [Token -> Nat]]
        /\ world.lp \in [Pool -> [Account -> Nat]]
        /\ world.supply \in [Pool -> Nat]
        /\ world.allowance \in [Pool -> [User -> Nat]]
        /\ world.nonces \in [Pool -> [User -> Nat]]
    BY <2>1, WorldParts
  <2>3. \A p \in Pool, u \in User : world.nonces[p][u] \in 0 .. MaxNonce
    BY <2>1, <2>2, Bounds, SMT
  <2>4. world.nonces \in [Pool -> [User -> 0 .. MaxNonce]]
    BY <2>2, <2>3
  <2> QED BY <2>2, <2>4 DEF TypeOK, RouterInv
<1> QED BY <1>1, RouterAlways, PTL

(* WkashBacked holds in every state: whatever the router, the pairs and    *)
(* users do, and however often they wrap and unwrap, the wrapper of        *)
(* WKASH9.sol holds all the KASH its tokens stand for.                     *)
THEOREM WkashAlwaysBacked == Spec => []WkashBacked
<1>1. RouterInv => WkashBacked
  BY DEF RouterInv, Sound, Ledgers, Backed, WkashBacked
<1> QED BY <1>1, RouterAlways, PTL

(* RouterGainsNothing holds of every step: no function of ArkSwapRouter02, *)
(* along any path and with any tax, leaves tokens, KASH or shares behind.  *)
THEOREM RouterKeepsNothing == Spec => RouterGainsNothing
<1>1. RouterInv /\ [Next]_vars =>
        [/\ world'.kash[Router] = 0
         /\ \A p \in Pool : world'.lp[p][Router] = 0
         /\ \A t \in Token : world'.tok[t][Router] > world.tok[t][Router] =>
              /\ \E u \in User : world'.tok[t][u] < world.tok[t][u]
              /\ \A p \in Pool : world'.tok[t][p] = world.tok[t][p]]_vars
  BY RouterStep DEF GainsNothing
<1> QED BY <1>1, RouterAlways, PTL DEF Spec, RouterGainsNothing

(* ShareValueKept holds of every step: no function of the router or of the *)
(* pairs makes a share of any pool on any path worth less.                 *)
THEOREM SharesKeepTheirValue == Spec => ShareValueKept
<1>1. RouterInv /\ [Next]_vars =>
        [\A a, b \in Token :
           LET p == PairFor(a, b)
               K(w) == w.reserve[p][a] * w.reserve[p][b]
           IN  a # b /\ world.supply[p] > 0 =>
                 K(world') * world.supply[p] * world.supply[p]
                   >= K(world) * world'.supply[p] * world'.supply[p]]_vars
  <2> SUFFICES ASSUME RouterInv, [Next]_vars, NEW a \in Token, NEW b \in Token, a # b,
                      world.supply[PairFor(a, b)] > 0
               PROVE  Product(world', PairFor(a, b), a, b) * world.supply[PairFor(a, b)]
                        * world.supply[PairFor(a, b)]
                        >= Product(world, PairFor(a, b), a, b) * world'.supply[PairFor(a, b)]
                             * world'.supply[PairFor(a, b)]
    BY DEF Product
  <2>1. Kept(world, world') /\ world \in World /\ world' \in World
    BY RouterStep DEF RouterInv, Sound, Ledgers
  <2> DEFINE k == Product(world, PairFor(a, b), a, b)
             kk == Product(world', PairFor(a, b), a, b)
             s == world.supply[PairFor(a, b)]
             ss == world'.supply[PairFor(a, b)]
  <2>2. k \in Nat /\ kk \in Nat /\ s \in Nat /\ ss \in Nat
    BY <2>1, ProductType
  <2>3. k * ss * ss <= kk * s * s
    BY <2>1 DEF Kept, KeptFor
  <2> HIDE DEF k, kk, s, ss
  <2>4. kk * s * s >= k * ss * ss
    BY <2>2, <2>3, SMT
  <2> QED BY <2>4 DEF k, kk, s, ss
<1> QED BY <1>1, RouterAlways, PTL DEF Spec, ShareValueKept
(* DepositLimitsHonoured holds in every state, for every deposit.          *)
THEOREM DepositsStayWithinLimits == Spec => []DepositLimitsHonoured
<1>1. RouterInv => DepositLimitsHonoured
  <2> SUFFICES ASSUME RouterInv, NEW u \in User, NEW ab \in Liquidity, NEW x \in AddAmounts,
                      NEW y \in AddAmounts, NEW minX \in AddMinimums, NEW minY \in AddMinimums,
                      NEW to \in Recipients
               PROVE  LET v == AddLiquidity(world, u, ab[1], ab[2], x, y, minX, minY, to)
                          w == AddLiquidityETH(world, u, ab[1], x, y, minX, minY, to)
                          priced == world.supply[PairFor(ab[1], ab[2])] > 0
                          Within(spent, min, max) == spent <= max /\ (priced => spent >= Min(min, max))
                      IN  /\ v # Failed =>
                               /\ Within(-Gains(v, ab[1], u), minX, x)
                               /\ Within(-Gains(v, ab[2], u), minY, y)
                          /\ ab[2] = WKASH /\ w # Failed =>
                               /\ Within(-Gains(w, ab[1], u), minX, x)
                               /\ Within(-GainsKash(w, u), minY, y)
    BY DEF DepositLimitsHonoured
  <2> DEFINE a == ab[1]
             b == ab[2]
             v == AddLiquidity(world, u, a, b, x, y, minX, minY, to)
             w == AddLiquidityETH(world, u, a, x, y, minX, minY, to)
             priced == world.supply[PairFor(a, b)] > 0
  <2>1. /\ a \in Token /\ b \in Token /\ a # b /\ to \in User
        /\ x \in Nat /\ y \in Nat /\ minX \in Nat /\ minY \in Nat /\ Sound(world) /\ u \in Account
    BY Bounds, Users DEF RouterInv
  <2>2. ASSUME v # Failed
        PROVE  /\ SpentWithin(-Gains(v, a, u), minX, x, priced)
               /\ SpentWithin(-Gains(v, b, u), minY, y, priced)
    <3> HIDE DEF a, b, v
    <3>1. /\ Passed(world, v)
          /\ SpentWithin(world.tok[a][u] - v.tok[a][u], minX, x, priced)
          /\ SpentWithin(world.tok[b][u] - v.tok[b][u], minY, y, priced)
      BY <2>1, <2>2, AddSound DEF v
    <3>2. /\ world.tok[a][u] \in Nat /\ world.tok[b][u] \in Nat
          /\ v.tok[a][u] \in Nat /\ v.tok[b][u] \in Nat
      BY <2>1, <3>1, Holdings DEF Passed, Leads
    <3>3. /\ -Gains(v, a, u) = world.tok[a][u] - v.tok[a][u]
          /\ -Gains(v, b, u) = world.tok[b][u] - v.tok[b][u]
      BY <3>2, SMT DEF Gains
    <3> QED BY <3>1, <3>3
  <2>3. ASSUME b = WKASH, w # Failed
        PROVE  /\ SpentWithin(-Gains(w, a, u), minX, x, priced)
               /\ SpentWithin(-GainsKash(w, u), minY, y, priced)
    <3> HIDE DEF a, b, w
    <3>1. /\ Passed(world, w)
          /\ SpentWithin(world.tok[a][u] - w.tok[a][u], minX, x, priced)
          /\ SpentWithin(world.kash[u] - w.kash[u], minY, y, priced)
      BY <2>1, <2>3, AddETHSound DEF w
    <3>2. /\ world.tok[a][u] \in Nat /\ world.kash[u] \in Nat
          /\ w.tok[a][u] \in Nat /\ w.kash[u] \in Nat
      BY <2>1, <3>1, Holdings DEF Passed, Leads
    <3>3. /\ -Gains(w, a, u) = world.tok[a][u] - w.tok[a][u]
          /\ -GainsKash(w, u) = world.kash[u] - w.kash[u]
      BY <3>2, SMT DEF Gains, GainsKash
    <3> QED BY <3>1, <3>3
  <2> QED BY <2>2, <2>3 DEF SpentWithin
<1> QED BY <1>1, RouterAlways, PTL

(* What the swaps of one account's tokens promise.                         *)
LEMMA TradedGains ==
  ASSUME Sound(world), NEW v, NEW in \in Token, NEW u \in User, NEW out \in Token, NEW to \in User,
         NEW n \in Nat, NEW got \in Nat, Traded(world, v, in, u, out, to, n, got)
  PROVE  IF in = out /\ to = u THEN Gains(v, out, u) = got - n
                               ELSE Gains(v, out, to) = got /\ -Gains(v, in, u) = n
<1>1. /\ world.tok[in][u] \in Nat /\ world.tok[out][to] \in Nat /\ world.tok[out][u] \in Nat
  BY Users, Holdings
<1>2. CASE in = out /\ u = to
  <2>1. v.tok[out][u] = (world.tok[out][u] - n) + got
    BY <1>2 DEF Traded
  <2> QED BY <1>1, <1>2, <2>1, SMT DEF Gains
<1>3. CASE ~(in = out /\ u = to)
  <2>1. v.tok[in][u] = world.tok[in][u] - n /\ v.tok[out][to] = world.tok[out][to] + got
    BY <1>3 DEF Traded
  <2>2. Gains(v, out, to) = got /\ -Gains(v, in, u) = n
    BY <1>1, <2>1, SMT DEF Gains
  <2> QED BY <1>3, <2>2
<1> QED BY <1>2, <1>3

LEMMA BoughtGains ==
  ASSUME Sound(world), NEW v, NEW u \in User, NEW out \in Token, NEW to \in User,
         NEW n \in Nat, NEW got \in Nat, Bought(world, v, u, out, to, n, got)
  PROVE  Gains(v, out, to) = got /\ -GainsKash(v, u) = n
<1>1. world.kash[u] \in Nat /\ world.tok[out][to] \in Nat
  BY Users, Holdings
<1> QED BY <1>1, SMT DEF Gains, GainsKash, Bought

LEMMA SoldGains ==
  ASSUME Sound(world), NEW v, NEW in \in Token, NEW u \in User, NEW to \in User,
         NEW n \in Nat, NEW got \in Nat, Sold(world, v, in, u, to, n, got)
  PROVE  GainsKash(v, to) = got /\ -Gains(v, in, u) = n
<1>1. world.kash[to] \in Nat /\ world.tok[in][u] \in Nat
  BY Users, Holdings
<1> QED BY <1>1, SMT DEF Gains, GainsKash, Sold

(* SwapLimitsHonoured holds in every state, for every path and amount: the *)
(* nine functions of ArkSwapRouter02 that swap keep to amountOutMin and    *)
(* amountInMax whatever the pools on the path have been through.           *)
THEOREM SwapsStayWithinLimits == Spec => []SwapLimitsHonoured
<1>1. RouterInv => SwapLimitsHonoured
  <2> SUFFICES ASSUME RouterInv, NEW u \in User, NEW x \in SwapAmounts, NEW limit \in SwapLimits,
                      NEW path \in Paths, NEW to \in Recipients
               PROVE  LET in == path[1]
                          out == Seqs!Last(path)
                          roundTrip == in = out /\ to = u
                          Honours(v, Bound(_)) == v # Failed => Bound(v)
                          AtLeast(v) == Gains(v, out, to) >= limit
                          AtLeastTraded(v) == IF roundTrip THEN Gains(v, out, u) + x >= limit
                                                           ELSE AtLeast(v)
                          AtLeastKash(v) == GainsKash(v, to) >= limit
                          Spent(v) == -Gains(v, in, u) <= limit
                          Exactly(v) == IF roundTrip THEN Gains(v, out, u) >= x - limit
                                                     ELSE Gains(v, out, to) = x /\ Spent(v)
                      IN  /\ Honours(SwapExactTokensForTokensSupportingFee(world, u, x, limit, path, to),
                                     AtLeastTraded)
                          /\ Honours(SwapExactETHForTokensSupportingFee(world, u, x, limit, path, to),
                                     AtLeast)
                          /\ Honours(SwapExactTokensForETHSupportingFee(world, u, x, limit, path, to),
                                     AtLeastKash)
                          /\ out \notin Taxed =>
                               /\ Honours(SwapExactTokensForTokens(world, u, x, limit, path, to),
                                          AtLeastTraded)
                               /\ Honours(SwapExactETHForTokens(world, u, x, limit, path, to), AtLeast)
                               /\ Honours(SwapExactTokensForETH(world, u, x, limit, path, to), AtLeastKash)
                               /\ Honours(SwapTokensForExactTokens(world, u, x, limit, path, to), Exactly)
                               /\ Honours(SwapTokensForExactETH(world, u, x, limit, path, to),
                                          LAMBDA v : GainsKash(v, to) = x /\ Spent(v))
                               /\ Honours(SwapETHForExactTokens(world, u, x, limit, path, to),
                                          LAMBDA v : Gains(v, out, to) = x /\ -GainsKash(v, u) <= limit)
    BY DEF SwapLimitsHonoured
  <2> DEFINE in == path[1]
             out == path[Len(path)]
             roundTrip == in = out /\ to = u
             AtLeastTraded(v) == IF roundTrip THEN Gains(v, out, u) + x >= limit
                                              ELSE Gains(v, out, to) >= limit
             Exactly(v) == IF roundTrip THEN Gains(v, out, u) >= x - limit
                                        ELSE Gains(v, out, to) = x /\ -Gains(v, in, u) <= limit
  <2>1. /\ Sound(world) /\ to \in User /\ to \in Account \ Pool /\ IsPath(path)
        /\ x \in Nat /\ limit \in Nat
    BY Bounds, Users DEF RouterInv
  <2>2. in \in Token /\ out \in Token /\ Seqs!Last(path) = out
    BY <2>1, PathParts
  <2> HIDE DEF in, out
  <2>3. ASSUME NEW v, NEW n \in Nat, n >= limit, Traded(world, v, in, u, out, to, x, n)
        PROVE  AtLeastTraded(v)
    <3>1. IF roundTrip THEN Gains(v, out, u) = n - x
                       ELSE Gains(v, out, to) = n /\ -Gains(v, in, u) = x
      BY <2>1, <2>2, <2>3, TradedGains
    <3> QED BY <2>1, <2>3, <3>1, SMT
  <2>4. ASSUME NEW v, NEW n \in Nat, n <= limit, Traded(world, v, in, u, out, to, n, x)
        PROVE  Exactly(v)
    <3>1. IF roundTrip THEN Gains(v, out, u) = x - n
                       ELSE Gains(v, out, to) = x /\ -Gains(v, in, u) = n
      BY <2>1, <2>2, <2>4, TradedGains
    <3> QED BY <2>1, <2>4, <3>1, SMT
  <2>5. \A n \in Nat : out \notin Taxed => Delivered(out, n) = n
    BY <2>2, DeliveredType
  <2>6. ASSUME NEW v, v = SwapExactTokensForTokensSupportingFee(world, u, x, limit, path, to), v # Failed
        PROVE  AtLeastTraded(v)
    <3>1. PICK n \in Nat : n >= limit /\ Traded(world, v, in, u, out, to, x, n)
      BY <2>1, <2>6, TokensFeeSound DEF in, out
    <3> QED BY <2>3, <3>1
  <2>7. ASSUME NEW v, v = SwapExactETHForTokensSupportingFee(world, u, x, limit, path, to), v # Failed
        PROVE  Gains(v, out, to) >= limit
    <3>1. PICK n \in Nat : n >= limit /\ Bought(world, v, u, out, to, x, n)
      BY <2>1, <2>7, ETHFeeSound DEF out
    <3>2. Gains(v, out, to) = n
      BY <2>1, <2>2, <3>1, BoughtGains
    <3> QED BY <3>1, <3>2
  <2>8. ASSUME NEW v, v = SwapExactTokensForETHSupportingFee(world, u, x, limit, path, to), v # Failed
        PROVE  GainsKash(v, to) >= limit
    <3>1. PICK n \in Nat : n >= limit /\ Sold(world, v, in, u, to, x, n)
      BY <2>1, <2>8, TokensForETHFeeSound DEF in
    <3> QED BY <2>1, <2>2, <3>1, SoldGains
  <2>9. ASSUME NEW v, v = SwapExactTokensForTokens(world, u, x, limit, path, to), v # Failed,
               out \notin Taxed
        PROVE  AtLeastTraded(v)
    <3>1. PICK n \in Nat : n >= limit /\ Traded(world, v, in, u, out, to, x, Delivered(out, n))
      BY <2>1, <2>9, ExactTokensSound DEF in, out
    <3> QED BY <2>3, <2>5, <2>9, <3>1
  <2>10. ASSUME NEW v, v = SwapExactETHForTokens(world, u, x, limit, path, to), v # Failed,
                out \notin Taxed
         PROVE  Gains(v, out, to) >= limit
    <3>1. PICK n \in Nat : n >= limit /\ Bought(world, v, u, out, to, x, Delivered(out, n))
      BY <2>1, <2>10, ExactETHSound DEF out
    <3>2. Bought(world, v, u, out, to, x, n)
      <4>1. Delivered(out, n) = n
        BY <2>5, <2>10
      <4> QED BY <3>1, <4>1
    <3>3. Sound(world) /\ out \in Token /\ to \in User /\ x \in Nat
      BY <2>1, <2>2
    <3>4. Gains(v, out, to) = n
      BY <3>2, <3>3, BoughtGains
    <3> QED BY <3>1, <3>4
  <2>11. ASSUME NEW v, v = SwapExactTokensForETH(world, u, x, limit, path, to), v # Failed
         PROVE  GainsKash(v, to) >= limit
    <3>1. PICK n \in Nat : n >= limit /\ Sold(world, v, in, u, to, x, n)
      BY <2>1, <2>11, ExactTokensForETHSound DEF in
    <3> QED BY <2>1, <2>2, <3>1, SoldGains
  <2>12. ASSUME NEW v, v = SwapTokensForExactTokens(world, u, x, limit, path, to), v # Failed,
                out \notin Taxed
         PROVE  Exactly(v)
    <3>1. PICK n \in Nat : n <= limit /\ Traded(world, v, in, u, out, to, n, Delivered(out, x))
      BY <2>1, <2>12, TokensForExactSound DEF in, out
    <3> QED BY <2>1, <2>4, <2>5, <2>12, <3>1
  <2>13. ASSUME NEW v, v = SwapTokensForExactETH(world, u, x, limit, path, to), v # Failed
         PROVE  GainsKash(v, to) = x /\ -Gains(v, in, u) <= limit
    <3>1. PICK n \in Nat : n <= limit /\ Sold(world, v, in, u, to, n, x)
      BY <2>1, <2>13, TokensForExactETHSound DEF in
    <3> QED BY <2>1, <2>2, <3>1, SoldGains
  <2>14. ASSUME NEW v, v = SwapETHForExactTokens(world, u, x, limit, path, to), v # Failed,
                out \notin Taxed
         PROVE  Gains(v, out, to) = x /\ -GainsKash(v, u) <= limit
    <3>1. PICK n \in Nat : n <= limit /\ Bought(world, v, u, out, to, n, Delivered(out, x))
      BY <2>1, <2>14, ETHForExactSound DEF out
    <3>2. Bought(world, v, u, out, to, n, x)
      BY <2>1, <2>5, <2>14, <3>1
    <3> QED BY <2>1, <2>2, <3>1, <3>2, BoughtGains
  <2> QED BY <2>2, <2>6, <2>7, <2>8, <2>9, <2>10, <2>11, <2>12, <2>13, <2>14 DEF in
<1> QED BY <1>1, RouterAlways, PTL

-----------------------------------------------------------------------------
(* What nothing stands in the way of.                                      *)

(* A world is no failure.                                                  *)
LEMMA NotFailed == ASSUME NEW w \in World PROVE w # Failed
BY LedgerAssumption

(* A burn pays out what the pool has.                                      *)
LEMMA BurnWorks ==
  ASSUME NEW w, Sound(w), NEW p \in Pool, p \in w.pairs, w.supply[p] > 0,
         \A t \in p : BurnAmount(w, p, t) > 0, NEW to \in Account, to # p
  PROVE  PairBurn(w, p, to) # Failed
<1> DEFINE a == CHOOSE t \in p : TRUE
           b == CHOOSE t \in p : t # a
           burnt == [w EXCEPT !.supply[p] = w.supply[p] - w.lp[p][p], !.lp[p][p] = 0]
           x == Transfer(burnt, a, p, to, BurnAmount(w, p, a))
           y == Transfer(x, b, p, to, BurnAmount(w, p, b))
<1>1. a \in p /\ b \in p /\ a # b /\ a \in Token /\ b \in Token /\ p \in Account
  <2>1. a \in p
    BY TheFirst
  <2> HIDE DEF a
  <2>2. b \in p /\ b # a
    BY <2>1, TheOther
  <2> QED BY <2>1, <2>2, TwoTokens, Accounts
<1>2. x # Failed /\ y # Failed => PairBurn(w, p, to) = Update(y, p)
  BY Zenon DEF PairBurn, Then
<1>3. burnt = Burnt(w, p)
  BY DEF Burnt
<1> HIDE DEF a, b, burnt
<1>4. Ledgers(burnt) /\ burnt \in World /\ burnt.tok = w.tok
  <2>1. Ledgers(burnt) /\ SameMoney(w, burnt)
    <3> HIDE DEF x, y
    <3> QED BY <1>3, BurntSound
  <2> QED BY <2>1 DEF Ledgers, SameMoney
<1>5. \A t \in p : /\ BurnAmount(w, p, t) \in Nat /\ w.tok[t][p] \in Nat
                   /\ BurnAmount(w, p, t) <= w.tok[t][p]
  BY BurnShare
<1>6. \A t \in p : BurnAmount(w, p, t) \in Nat /\ w.tok[t][p] >= BurnAmount(w, p, t)
  BY <1>5, SMT
<1>7. x \in World /\ x.tok[b][p] = w.tok[b][p]
  BY <1>1, <1>4, <1>6, TransferWorks
<1>8. x # Failed
  BY <1>7, NotFailed
<1>9. Ledgers(x)
  BY <1>1, <1>4, <1>6, <1>8, TransferLedgers
<1> HIDE DEF x
<1>10. y \in World
  BY <1>1, <1>6, <1>7, TransferWorks
<1>11. y # Failed
  BY <1>10, NotFailed
<1>12. Ledgers(y)
  BY <1>1, <1>6, <1>9, <1>11, TransferLedgers
<1> HIDE DEF y
<1>13. Ledgers(Update(y, p))
  BY <1>12, UpdateSets
<1> QED BY <1>2, <1>8, <1>11, <1>13, NotFailed DEF Ledgers

(* Who holds shares has a pool to take them from.                          *)
LEMMA HolderHasPool ==
  ASSUME NEW w, Sound(w), NEW p \in Pool, NEW u \in User, w.lp[p][u] > 0
  PROVE  p \in w.pairs /\ w.supply[p] > 0
<1>1. /\ w.lp[p] \in [Account -> Nat] /\ IsFiniteSet(Account) /\ u \in Account /\ Zero \in Account
      /\ u # Zero
  BY Accounts, WorldParts DEF Sound, Ledgers
<1>2. w.lp[p][u] + w.lp[p][Zero] <= Total(w.lp[p])
  BY <1>1, TotalCovers
<1>3. w.supply[p] = Total(w.lp[p]) /\ w.supply[p] \in Nat
  BY WorldParts DEF Sound, Ledgers, Held
<1>4. w.lp[p][u] \in Nat /\ w.lp[p][Zero] \in Nat
  BY <1>1
<1>5. w.supply[p] > 0
  BY <1>2, <1>3, <1>4, SMT
<1> QED BY <1>5 DEF Sound, Ledgers, Locked

(* What the shares are worth, before they are in the pair.                 *)
Worth(w, p, shares, t) == (shares * Balance(w, p, t)) \div w.supply[p]

(* A burn returns at least the share's part of the reserves.               *)
LEMMA WorthReturned ==
  ASSUME NEW w, Sound(w), NEW p \in Pool, NEW t \in p, NEW shares \in Nat, w.supply[p] > 0
  PROVE  /\ Worth(w, p, shares, t) \in Nat /\ Returned(w, p, shares, t) \in Nat
         /\ Returned(w, p, shares, t) >= Worth(w, p, shares, t)
<1> DEFINE x == w.tok[t][p]
           S == w.supply[p]
           sh == w.lp[p][p]
           m == sh + shares
           q == (shares * x) \div S
           r == (m * x) \div S
<1>1. x \in Nat /\ S \in Nat /\ S > 0 /\ sh \in Nat
  BY TwoTokens, Accounts, WorldParts DEF Sound, Ledgers
<1>2. Worth(w, p, shares, t) = q /\ Returned(w, p, shares, t) = r
  BY DEF Worth, Returned, Balance
<1> HIDE DEF x, S, sh
<1>3. m \in Nat /\ shares <= m /\ x <= x
  BY <1>1, SMT
<1> HIDE DEF m
<1>4. shares * x \in Nat /\ m * x \in Nat /\ shares * x <= m * x
  <2>1. shares * x <= m * x
    BY <1>1, <1>3, MulMonotone
  <2>2. shares * x \in Nat /\ m * x \in Nat
    BY <1>1, <1>3, SMT
  <2> QED BY <2>1, <2>2
<1>5. q \in Nat /\ q * S <= shares * x /\ r \in Nat
  BY <1>1, <1>4, DivBounds
<1>6. q * S \in Nat /\ q * S <= m * x
  BY <1>1, <1>4, <1>5, SMT
<1>7. q <= r
  BY <1>1, <1>4, <1>5, <1>6, DivLowerBound
<1> HIDE DEF q, r
<1>8. r >= q
  BY <1>5, <1>7, SMT
<1> QED BY <1>2, <1>5, <1>8

(* removeLiquidity goes through.                                           *)
LEMMA RemoveWorks ==
  ASSUME NEW w, Sound(w), NEW u \in User, NEW a \in Token, NEW b \in Token, a # b,
         NEW p, p = PairFor(a, b), NEW shares \in Nat, p \in w.pairs, w.supply[p] > 0,
         w.allowance[p][u] >= shares, w.lp[p][u] >= shares,
         \A t \in p : Worth(w, p, shares, t) > 0, NEW to \in Account \ Pool
  PROVE  RemoveLiquidity(w, u, a, b, shares, Worth(w, p, shares, a), Worth(w, p, shares, b), to)
           # Failed
<1> DEFINE i == PullShares(w, p, u, shares)
           j == PairBurn(i, p, to)
<1>1. p \in Pool /\ a \in p /\ b \in p
  BY Sides
<1>2. /\ Sound(i) /\ SameMoney(w, i) /\ i.pairs = w.pairs /\ i.supply = w.supply
      /\ i.lp[p][p] = w.lp[p][p] + shares
  BY <1>1, PulledSound
<1>3. i # Failed
  BY <1>2, NotFailed DEF Sound, Ledgers
<1>4. RemoveLiquidity(w, u, a, b, shares, Worth(w, p, shares, a), Worth(w, p, shares, b), to)
        = Then(j, LAMBDA v : Require(/\ BurnAmount(i, p, a) >= Worth(w, p, shares, a)
                                     /\ BurnAmount(i, p, b) >= Worth(w, p, shares, b), v))
  BY <1>3 DEF RemoveLiquidity, Then
<1> HIDE DEF i
<1>5. \A t \in p : BurnAmount(i, p, t) = Returned(w, p, shares, t)
  BY <1>2 DEF BurnAmount, Returned, Balance, SameMoney
<1>6. ASSUME NEW t \in p
      PROVE  BurnAmount(i, p, t) >= Worth(w, p, shares, t) /\ BurnAmount(i, p, t) > 0
  <2>1. /\ Worth(w, p, shares, t) \in Nat /\ Returned(w, p, shares, t) \in Nat
        /\ Returned(w, p, shares, t) >= Worth(w, p, shares, t) /\ Worth(w, p, shares, t) > 0
    BY <1>1, WorthReturned
  <2> QED BY <1>5, <2>1, SMT
<1>7. j # Failed
  <2>1. to \in Account /\ to # p
    BY <1>1
  <2>2. \A t \in p : BurnAmount(i, p, t) > 0
    BY <1>6
  <2>3. p \in i.pairs /\ i.supply[p] > 0 /\ Sound(i) /\ p \in Pool
    BY <1>1, <1>2
  <2> QED BY <2>1, <2>2, <2>3, BurnWorks
<1> HIDE DEF j
<1>8. BurnAmount(i, p, a) >= Worth(w, p, shares, a) /\ BurnAmount(i, p, b) >= Worth(w, p, shares, b)
  BY <1>1, <1>6
<1> QED BY <1>4, <1>7, <1>8 DEF Then, Require
(* Unwrapping and sending on takes no more than wrapped KASH.              *)
LEMMA PayOutWorks ==
  ASSUME NEW w, Sound(w), NEW to \in User, NEW n \in Nat, n <= w.tok[WKASH][Router]
  PROVE  PayOutKash(w, to, n) # Failed
<1> DEFINE x == Withdraw(w, Router, n)
           v == SendKash(x, Router, to, n)
<1>1. w.tok[WKASH][Router] \in Nat /\ w.kash[Router] \in Nat
  BY Routers, Holdings
<1>2. w.tok[WKASH][Router] >= n
  BY <1>1, SMT
<1>3. Sound(x) /\ x.kash[Router] = w.kash[Router] + n
  BY <1>2, WithdrawnSound
<1>4. x # Failed
  BY <1>3, NotFailed DEF Sound, Ledgers
<1>5. PayOutKash(w, to, n) = v
  BY <1>4 DEF PayOutKash, Then
<1> HIDE DEF x
<1>6. x.kash[Router] \in Nat /\ x.kash[Router] >= n /\ n <= x.kash[Router]
  BY <1>1, <1>3, SMT
<1>7. to # Router /\ to \in Account \ {WKASH} /\ Router \in Account \ {WKASH}
  BY Users, Routers
<1>8. v = Paid(x, Router, to, n)
  BY <1>6, <1>7 DEF SendKash, Require, Paid
<1> HIDE DEF v
<1>9. Sound(v)
  BY <1>3, <1>6, <1>7, <1>8, KashSound
<1> QED BY <1>5, <1>9, NotFailed DEF Sound, Ledgers

(* ... and so does a removal for native KASH, once the router has the      *)
(* share of the pool.                                                      *)
LEMMA RemoveETHWorks ==
  ASSUME NEW w, Sound(w), NEW u \in User, NEW t \in Token, t # WKASH,
         NEW shares \in Nat, NEW minT, NEW minKash, NEW to \in User,
         NEW p, p = PairFor(t, WKASH),
         NEW x, x = RemoveLiquidity(w, u, t, WKASH, shares, minT, minKash, Router), x # Failed,
         NEW n \in Nat,
         (t \notin Taxed /\ n = Returned(w, p, shares, t)) \/ n = x.tok[t][Router],
         NEW y, y = Transfer(x, t, Router, to, n)
  PROVE  /\ y # Failed
         /\ PayOutKash(y, to, Returned(w, p, shares, WKASH)) # Failed
<1> DEFINE R(s) == Returned(w, p, shares, s)
<1>1. p \in Pool /\ t \in p /\ WKASH \in p /\ WKASH \in Token
  BY Routers, Sides
<1>2. /\ Router \in Account /\ Router \in Account \ Pool /\ to \in Account /\ to # Router
  BY <1>1, Users, Routers
<1>3. /\ Leads(w, x)
      /\ \A s \in p : R(s) \in Nat /\ x.tok[s][Router] = w.tok[s][Router] + Delivered(s, R(s))
  BY <1>1, <1>2, RemoveSound
<1>4. Sound(x) /\ x \in World
  BY <1>3 DEF Leads, Sound, Ledgers
<1>5. w.tok[t][Router] \in Nat /\ w.tok[WKASH][Router] \in Nat
  BY <1>1, <1>2, Holdings
<1>6. t \notin Taxed => Delivered(t, R(t)) = R(t)
  BY <1>1, <1>3, DeliveredType
<1>7. Delivered(WKASH, R(WKASH)) = R(WKASH)
  BY <1>1, <1>3, Routers, DeliveredType
<1>8. x.tok[t][Router] >= n
  <2>1. R(t) \in Nat /\ x.tok[t][Router] = w.tok[t][Router] + Delivered(t, R(t))
    BY <1>1, <1>3
  <2>2. (t \notin Taxed /\ n = R(t)) \/ n = x.tok[t][Router]
    OBVIOUS
  <2> HIDE DEF R
  <2>3. CASE t \notin Taxed /\ n = R(t)
    BY <1>5, <1>6, <2>1, <2>3, SMT
  <2>4. CASE n = x.tok[t][Router]
    BY <2>4, SMT
  <2> QED BY <2>2, <2>3, <2>4
<1>9. y \in World /\ y.tok[WKASH][Router] = x.tok[WKASH][Router]
  BY <1>1, <1>2, <1>4, <1>8, TransferWorks
<1>10. y # Failed
  BY <1>9, NotFailed
<1>11. Sound(y)
  BY <1>2, <1>4, <1>10, TransferSound
<1>12. R(WKASH) \in Nat /\ R(WKASH) <= y.tok[WKASH][Router]
  <2>1. R(WKASH) \in Nat /\ x.tok[WKASH][Router] = w.tok[WKASH][Router] + Delivered(WKASH, R(WKASH))
    BY <1>1, <1>3
  <2> HIDE DEF R
  <2> QED BY <1>5, <1>7, <1>9, <2>1, SMT
<1>13. PayOutKash(y, to, R(WKASH)) # Failed
  BY <1>11, <1>12, PayOutWorks
<1> QED BY <1>10, <1>13

(* HoldersCanLeave holds in every state: neither what others did to the    *)
(* pool, nor what they wrapped, nor stray tokens ever make removeLiquidity,*)
(* removeLiquidityETH or its variant for taxed tokens revert for want of   *)
(* tokens, shares or KASH.                                                 *)
THEOREM HoldersAlwaysCanLeave == Spec => []HoldersCanLeave
<1>1. RouterInv => HoldersCanLeave
  <2> SUFFICES ASSUME RouterInv, NEW u \in User, NEW ab \in Liquidity, NEW to \in Recipients
               PROVE  LET p == PairFor(ab[1], ab[2])
                          shares == world.lp[p][u]
                          w == ApproveRouter(world, p, u, shares)
                          worth(t) == (shares * Balance(world, p, t)) \div world.supply[p]
                      IN  shares > 0 /\ (\A t \in p : worth(t) > 0) =>
                            /\ RemoveLiquidity(w, u, ab[1], ab[2], shares, worth(ab[1]),
                                               worth(ab[2]), to) # Failed
                            /\ ab[2] = WKASH =>
                                 /\ RemoveLiquidityETHSupportingFee(w, u, ab[1], shares,
                                      worth(ab[1]), worth(WKASH), to) # Failed
                                 /\ ab[1] \notin Taxed =>
                                      LET v == RemoveLiquidityETH(w, u, ab[1], shares, worth(ab[1]),
                                                                  worth(WKASH), to)
                                      IN  /\ v # Failed
                                          /\ Gains(v, ab[1], to) >= worth(ab[1])
                                          /\ GainsKash(v, to) >= worth(WKASH)
    BY DEF HoldersCanLeave
  <2> DEFINE a == ab[1]
             b == ab[2]
             p == PairFor(a, b)
             shares == world.lp[p][u]
             w == ApproveRouter(world, p, u, shares)
             worth(t) == (shares * Balance(world, p, t)) \div world.supply[p]
             x(c) == RemoveLiquidity(w, u, a, b, shares, worth(a), worth(b), c)
             v == RemoveLiquidityETH(w, u, a, shares, worth(a), worth(WKASH), to)
  <2> SUFFICES ASSUME shares > 0, \A t \in p : worth(t) > 0
               PROVE  /\ x(to) # Failed
                      /\ b = WKASH =>
                           /\ RemoveLiquidityETHSupportingFee(w, u, a, shares, worth(a),
                                                              worth(WKASH), to) # Failed
                           /\ a \notin Taxed => /\ v # Failed
                                                /\ Gains(v, a, to) >= worth(a)
                                                /\ GainsKash(v, to) >= worth(WKASH)
    OBVIOUS
  <2>1. /\ a \in Token /\ b \in Token /\ a # b /\ to \in User /\ Sound(world)
        /\ p \in Pool /\ a \in p /\ b \in p
    BY Bounds, Sides DEF RouterInv
  <2>2. /\ to \in Account /\ to \in Account \ Pool /\ Router \in Account \ Pool /\ u \in Account
    BY <2>1, Users, Routers
  <2> HIDE DEF a, b, p
  <2>3. shares \in Nat
    BY <2>1, <2>2, WorldParts DEF Sound, Ledgers
  <2>4. p \in world.pairs /\ world.supply[p] > 0
    BY <2>1, HolderHasPool
  <2> HIDE DEF shares
  <2>5. /\ Sound(w) /\ SameMoney(world, w) /\ w.pairs = world.pairs /\ w.reserve = world.reserve
        /\ w.lp = world.lp /\ w.supply = world.supply /\ w.allowance[p][u] = shares
    BY <2>1, <2>3, ApproveSound
  <2> HIDE DEF w
  <2>6. \A t : worth(t) = Worth(w, p, shares, t)
    BY <2>5 DEF Worth, Balance, SameMoney
  <2> HIDE DEF worth
  <2>7. w.lp[p][u] = shares /\ shares >= shares
    BY <2>3, <2>5, SMT DEF shares
  <2>8. ASSUME NEW c \in Account \ Pool PROVE x(c) # Failed
    <3>1. /\ w.allowance[p][u] >= shares /\ w.lp[p][u] >= shares
          /\ p \in w.pairs /\ w.supply[p] > 0 /\ \A t \in p : Worth(w, p, shares, t) > 0
      BY <2>4, <2>5, <2>6, <2>7
    <3>2. RemoveLiquidity(w, u, a, b, shares, Worth(w, p, shares, a), Worth(w, p, shares, b), c)
            # Failed
      BY <2>1, <2>3, <2>5, <3>1, RemoveWorks DEF p
    <3> QED BY <2>6, <3>2
  <2>9. \A t \in p : /\ worth(t) \in Nat /\ Returned(w, p, shares, t) \in Nat
                     /\ Returned(w, p, shares, t) >= worth(t)
    BY <2>1, <2>3, <2>4, <2>5, <2>6, WorthReturned
  <2>10. ASSUME b = WKASH
         PROVE  RemoveLiquidityETHSupportingFee(w, u, a, shares, worth(a), worth(WKASH), to) # Failed
    <3> DEFINE n == x(Router).tok[a][Router]
               y == Transfer(x(Router), a, Router, to, n)
    <3>1. x(Router) # Failed
      BY <2>2, <2>8
    <3>2. Leads(w, x(Router))
      BY <2>1, <2>2, <2>3, <2>5, <3>1, RemoveSound
    <3>3. n \in Nat
      BY <2>1, <3>2, Routers, Holdings DEF Leads
    <3>4. y # Failed /\ PayOutKash(y, to, Returned(w, p, shares, WKASH)) # Failed
      <4> HIDE DEF n, y
      <4>1. n = x(Router).tok[a][Router] /\ y = Transfer(x(Router), a, Router, to, n)
        BY DEF n, y
      <4> HIDE DEF x
      <4>2. x(Router) = RemoveLiquidity(w, u, a, WKASH, shares, worth(a), worth(b), Router)
        BY <2>10 DEF x
      <4> QED BY <2>1, <2>3, <2>5, <2>10, <3>1, <3>3, <4>1, <4>2, RemoveETHWorks DEF p
    <3> QED BY <2>10, <3>1, <3>4 DEF RemoveLiquidityETHSupportingFee, Then, p
  <2>11. ASSUME b = WKASH, a \notin Taxed PROVE v # Failed
    <3> DEFINE n == Returned(w, p, shares, a)
               y == Transfer(x(Router), a, Router, to, n)
    <3>1. x(Router) # Failed
      BY <2>2, <2>8
    <3>2. n \in Nat
      BY <2>1, <2>9
    <3>3. y # Failed /\ PayOutKash(y, to, Returned(w, p, shares, WKASH)) # Failed
      <4> HIDE DEF n, y
      <4>1. n = Returned(w, p, shares, a) /\ y = Transfer(x(Router), a, Router, to, n)
        BY DEF n, y
      <4> HIDE DEF x
      <4>2. x(Router) = RemoveLiquidity(w, u, a, WKASH, shares, worth(a), worth(b), Router)
        BY <2>11 DEF x
      <4> QED BY <2>1, <2>3, <2>5, <2>11, <3>1, <3>2, <4>1, <4>2, RemoveETHWorks DEF p
    <3> QED BY <2>11, <3>1, <3>3 DEF RemoveLiquidityETH, Then, p
  <2>12. ASSUME b = WKASH, a \notin Taxed, v # Failed
         PROVE  Gains(v, a, to) >= worth(a) /\ GainsKash(v, to) >= worth(WKASH)
    <3> HIDE DEF v
    <3>1. /\ v.tok[a][to] = w.tok[a][to] + Delivered(a, Returned(w, p, shares, a))
          /\ v.kash[to] = w.kash[to] + Returned(w, p, shares, WKASH)
      BY <2>1, <2>3, <2>5, <2>12, RemoveETHSound DEF p, v
    <3>2. Delivered(a, Returned(w, p, shares, a)) = Returned(w, p, shares, a)
      BY <2>1, <2>9, <2>12, DeliveredType
    <3>3. /\ w.tok = world.tok /\ w.kash = world.kash
          /\ world.tok[a][to] \in Nat /\ world.kash[to] \in Nat
      BY <2>1, <2>2, <2>5, Holdings DEF SameMoney
    <3>4. /\ worth(a) \in Nat /\ Returned(w, p, shares, a) \in Nat
          /\ Returned(w, p, shares, a) >= worth(a)
          /\ worth(WKASH) \in Nat /\ Returned(w, p, shares, WKASH) \in Nat
          /\ Returned(w, p, shares, WKASH) >= worth(WKASH)
      BY <2>1, <2>9, <2>12
    <3> QED BY <3>1, <3>2, <3>3, <3>4, SMT DEF Gains, GainsKash
  <2> HIDE DEF v, x
  <2>13. x(to) # Failed
    BY <2>2, <2>8
  <2> QED BY <2>10, <2>11, <2>12, <2>13
<1> QED BY <1>1, RouterAlways, PTL

-----------------------------------------------------------------------------
(* Signed messages.                                                        *)

(* The one way a nonce moves: a message signed for it is accepted.         *)
Spent(m) ==
  /\ m.nonce = world.nonces[m.pool][m.owner]
  /\ world'.nonces = [world.nonces EXCEPT ![m.pool][m.owner] = m.nonce + 1]

(* A permit spends the nonce it was signed for,                            *)
LEMMA PermitSpends ==
  ASSUME RouterInv, NEW m \in signed, NEW v, v = Permit(world, m, now), v # Failed
  PROVE  /\ m.nonce = world.nonces[m.pool][m.owner]
         /\ v.nonces = [world.nonces EXCEPT ![m.pool][m.owner] = m.nonce + 1]
<1>1. m.nonce = world.nonces[m.pool][m.owner]
  BY DEF Permit, Require, PermitLive
<1>2. m \in Message /\ Approvals \subseteq Nat
  BY Bounds DEF RouterInv
<1>3. v.nonces = [world.nonces EXCEPT ![m.pool][m.owner] = m.nonce + 1]
  BY <1>2, PermitSound DEF RouterInv
<1> QED BY <1>1, <1>3

(* whether it is submitted or comes with a removal, which moves no other,  *)
LEMMA AcceptedIsSpent ==
  ASSUME RouterInv, NEW m \in signed, Accepts(m)
  PROVE  Spent(m)
<1>1. CASE SubmitPermit(m)
  <2>1. world' = Permit(world, m, now) /\ world' # Failed
    BY <1>1 DEF SubmitPermit, Happens
  <2> QED BY <2>1, PermitSpends DEF Spent
<1>2. ASSUME NEW u \in User, PermitRemoval(u, m) PROVE Spent(m)
  <2>1. PICK ab \in Liquidity, shares \in RemoveShares, minA \in RemoveMinimums,
             minB \in RemoveMinimums, to \in Recipients :
          Removal(Permit(world, m, now), u, ab[1], ab[2], shares, minA, minB, to)
    BY <1>2 DEF PermitRemoval
  <2> DEFINE w == Permit(world, m, now)
  <2>2. w # Failed
    BY <2>1 DEF Removal, Happens, Then
  <2>3. Removal(w, u, ab[1], ab[2], shares, minA, minB, to)
    BY <2>1
  <2> HIDE DEF w
  <2>4. Sound(w)
    BY <2>2, PermitStep DEF w
  <2>5. world'.nonces = w.nonces
    BY <2>3, <2>4, RemovalStep DEF Passed, Leads
  <2>6. /\ m.nonce = world.nonces[m.pool][m.owner]
        /\ w.nonces = [world.nonces EXCEPT ![m.pool][m.owner] = m.nonce + 1]
    BY <2>2, PermitSpends DEF w
  <2> QED BY <2>5, <2>6 DEF Spent
<1> QED BY <1>1, <1>2 DEF Accepts

(* and nothing else moves a nonce.                                         *)
LEMMA NoncesMove ==
  ASSUME RouterInv, [Next]_vars
  PROVE  world'.nonces = world.nonces \/ \E m \in signed : Spent(m)
<1>1. Sound(world) /\ world \in World
  BY DEF RouterInv, Sound, Ledgers
<1>2. ASSUME NEW u \in User, AddLiquidityCall(u) PROVE world'.nonces = world.nonces
  BY <1>1, <1>2, AddStep DEF Passed, Leads
<1>3. ASSUME NEW u \in User, RemoveLiquidityCall(u) PROVE world'.nonces = world.nonces
  <2>1. PICK ab \in Liquidity, shares \in RemoveShares, minA \in RemoveMinimums, minB \in RemoveMinimums,
             to \in Recipients : Removal(world, u, ab[1], ab[2], shares, minA, minB, to)
    BY <1>3 DEF RemoveLiquidityCall
  <2> QED BY <1>1, <2>1, RemovalStep DEF Passed, Leads
<1>4. ASSUME NEW u \in User, PermitRemovalCall(u) PROVE \E m \in signed : Spent(m)
  BY <1>4, AcceptedIsSpent DEF PermitRemovalCall, Accepts
<1>5. ASSUME NEW u \in User, SwapCall(u) PROVE world'.nonces = world.nonces
  BY <1>1, <1>5, SwapStep DEF Passed, Leads
<1>6. ASSUME NEW u \in User, Stray(u) PROVE world'.nonces = world.nonces
  BY <1>6, StrayStep
<1>7. ASSUME NEW u \in User, Approve(u) PROVE world'.nonces = world.nonces
  <2>1. PICK p \in world.pairs, n \in Approvals : Happens(ApproveRouter(world, p, u, n))
    BY <1>7 DEF Approve
  <2>2. world' = ApproveRouter(world, p, u, n) /\ p \in Pool /\ n \in Nat
    BY <1>1, <2>1, WorldParts, Bounds DEF Happens
  <2> QED BY <1>1, <2>2, ApproveSound
<1>8. ASSUME NEW u \in User, Sign(u) PROVE world'.nonces = world.nonces
  BY <1>8 DEF Sign
<1>9. ASSUME NEW m \in signed, SubmitPermit(m) PROVE Spent(m)
  BY <1>9, AcceptedIsSpent DEF Accepts
<1>10. ASSUME Sync PROVE world'.nonces = world.nonces
  <2>1. PICK p \in Pool : Happens(PairSync(world, p))
    BY <1>10 DEF Sync
  <2>2. world' = Update(world, p)
    BY <2>1 DEF Happens, PairSync, Require
  <2> QED BY <1>1, <2>2, UpdateSets DEF Sound
<1>11. ASSUME Tick \/ UNCHANGED vars PROVE world'.nonces = world.nonces
  BY <1>11 DEF Tick, vars
<1> QED BY <1>2, <1>3, <1>4, <1>5, <1>6, <1>7, <1>8, <1>9, <1>10, <1>11 DEF Next

(* Nobody has signed for a nonce that is still to come.                    *)
SignedInv == \A m \in signed : m.nonce <= world.nonces[m.pool][m.owner]

(* Nonces and the clock only move on.                                      *)
LEMMA MovesOn ==
  ASSUME RouterInv, [Next]_vars
  PROVE  /\ now' >= now
         /\ \A p \in Pool, u \in User : world.nonces[p][u] <= world'.nonces[p][u]
<1>1. world.nonces \in [Pool -> [User -> Nat]] /\ now \in Nat
  <2>1. world \in World /\ now \in 0 .. MaxNow /\ MaxNow \in Nat
    BY Bounds DEF RouterInv, Sound, Ledgers
  <2>2. now \in Nat
    BY <2>1, SMT
  <2> QED BY <2>1, <2>2, WorldParts
<1>2. now' >= now
  <2>1. now' = now \/ now' = now + 1
    <3>1. ASSUME RouterInv, NEW u \in User,
                 AddLiquidityCall(u) \/ RemoveLiquidityCall(u) \/ PermitRemovalCall(u) \/ SwapCall(u)
          PROVE  now' = now
      BY <3>1, CallStep
    <3>2. ASSUME NEW u \in User, Stray(u) \/ Approve(u) \/ Sign(u) PROVE now' = now
      BY <3>2 DEF Stray, Approve, Sign, Happens
    <3>3. ASSUME (\E m \in signed : SubmitPermit(m)) \/ Sync PROVE now' = now
      BY <3>3 DEF SubmitPermit, Sync, Happens
    <3>4. Tick => now' = now + 1
      BY DEF Tick
    <3>5. UNCHANGED vars => now' = now
      BY DEF vars
    <3> QED BY <3>1, <3>2, <3>3, <3>4, <3>5 DEF Next
  <2> QED BY <1>1, <2>1, SMT
<1>3. ASSUME NEW p \in Pool, NEW u \in User PROVE world.nonces[p][u] <= world'.nonces[p][u]
  <2>1. world.nonces[p][u] \in Nat
    BY <1>1
  <2>2. CASE world'.nonces = world.nonces
    BY <2>1, <2>2, SMT
  <2>3. ASSUME NEW m \in signed, Spent(m) PROVE world.nonces[p][u] <= world'.nonces[p][u]
    <3>1. m.pool \in Pool /\ m.owner \in User
      BY DEF RouterInv, Message
    <3>2. CASE p = m.pool /\ u = m.owner
      <4>1. m.nonce = world.nonces[p][u] /\ world'.nonces[p][u] = m.nonce + 1
        BY <1>1, <2>3, <3>2 DEF Spent
      <4> QED BY <2>1, <4>1, SMT
    <3>3. CASE ~(p = m.pool /\ u = m.owner)
      <4>1. world'.nonces[p][u] = world.nonces[p][u]
        BY <1>1, <2>3, <3>1, <3>3 DEF Spent
      <4> QED BY <2>1, <4>1, SMT
    <3> QED BY <3>2, <3>3
  <2> QED BY <2>2, <2>3, NoncesMove
<1> QED BY <1>2, <1>3

(* Spent messages stay spent whatever happens next.                        *)
LEMMA SignedStep ==
  ASSUME RouterInv, RouterInv', SignedInv, [Next]_vars
  PROVE  SignedInv'
<1> SUFFICES ASSUME NEW m \in signed' PROVE m.nonce <= world'.nonces[m.pool][m.owner]
  BY DEF SignedInv
<1>1. m.pool \in Pool /\ m.owner \in User /\ m.nonce \in Int
  BY DEF RouterInv, Message
<1>2. world.nonces[m.pool][m.owner] \in Nat /\ world'.nonces[m.pool][m.owner] \in Nat
  <2>1. world \in World /\ world' \in World
    BY DEF RouterInv, Sound, Ledgers
  <2> QED BY <1>1, <2>1, WorldParts
<1>3. world.nonces[m.pool][m.owner] <= world'.nonces[m.pool][m.owner]
  BY <1>1, MovesOn
<1>4. m \in signed \/ m.nonce = world.nonces[m.pool][m.owner]
  <2>1. ASSUME NEW u \in User, Sign(u), m \notin signed
        PROVE  m.nonce = world.nonces[m.pool][m.owner]
    <3>1. PICK p \in world.pairs, n \in Approvals, d \in Deadlines :
            signed' = signed \cup {[pool |-> p, owner |-> u, value |-> n,
                                    nonce |-> world.nonces[p][u], deadline |-> d]}
      BY <2>1 DEF Sign
    <3> QED BY <2>1, <3>1
  <2>2. ASSUME NEW u \in User,
               AddLiquidityCall(u) \/ RemoveLiquidityCall(u) \/ PermitRemovalCall(u) \/ SwapCall(u)
        PROVE  signed' = signed
    BY <2>2, CallStep
  <2>3. ASSUME NEW u \in User, Stray(u) \/ Approve(u) PROVE signed' = signed
    BY <2>3 DEF Stray, Approve, Happens
  <2>4. ASSUME (\E o \in signed : SubmitPermit(o)) \/ Sync \/ Tick \/ UNCHANGED vars
        PROVE  signed' = signed
    BY <2>4 DEF SubmitPermit, Sync, Tick, Happens, vars
  <2> QED BY <2>1, <2>2, <2>3, <2>4 DEF Next
<1>5. CASE m \in signed
  <2>1. m.nonce <= world.nonces[m.pool][m.owner]
    BY <1>5 DEF SignedInv
  <2> QED BY <1>1, <1>2, <1>3, <2>1, SMT
<1>6. CASE m.nonce = world.nonces[m.pool][m.owner]
  BY <1>3, <1>6
<1> QED BY <1>4, <1>5, <1>6

(* SignaturesDie holds of every step: whatever else happens, neither a     *)
(* message that was accepted, by permit or by a removal with permit, nor   *)
(* one that expired or was overtaken is ever accepted after that.          *)
THEOREM SignaturesStayDead == Spec => SignaturesDie
<1>1. Init => SignedInv
  BY DEF Init, SignedInv
<1>2. RouterInv /\ RouterInv' /\ SignedInv /\ [Next]_vars => SignedInv'
  BY SignedStep
<1>3. RouterInv /\ RouterInv' /\ SignedInv /\ [Next]_vars =>
        \A m \in signed :
          PermitLive(world', m, now') => PermitLive(world, m, now) /\ ~Accepts(m)
  <2> SUFFICES ASSUME RouterInv, RouterInv', SignedInv, [Next]_vars, NEW m \in signed,
                      PermitLive(world', m, now')
               PROVE  PermitLive(world, m, now) /\ ~Accepts(m)
    OBVIOUS
  <2>1. /\ m.pool \in Pool /\ m.owner \in User /\ m.nonce \in Int /\ m.deadline \in Nat
        /\ now' \in Int
    BY Bounds DEF RouterInv, Message
  <2>2. m.deadline >= now' /\ m.nonce = world'.nonces[m.pool][m.owner]
    BY DEF PermitLive
  <2>3. m.nonce <= world.nonces[m.pool][m.owner]
    BY DEF SignedInv
  <2>4. world.nonces \in [Pool -> [User -> Nat]] /\ now \in Nat
    <3>1. world \in World /\ now \in 0 .. MaxNow /\ MaxNow \in Nat
      BY Bounds DEF RouterInv, Sound, Ledgers
    <3>2. now \in Nat
      BY <3>1, SMT
    <3> QED BY <3>1, <3>2, WorldParts
  <2>5. now' >= now /\ world.nonces[m.pool][m.owner] <= world'.nonces[m.pool][m.owner]
    BY <2>1, MovesOn
  <2>6. m.nonce = world.nonces[m.pool][m.owner]
    <3>1. world.nonces[m.pool][m.owner] \in Nat
      BY <2>1, <2>4
    <3> QED BY <2>1, <2>2, <2>3, <2>5, <3>1, SMT
  <2>7. ASSUME Accepts(m) PROVE FALSE
    <3>2. world'.nonces = [world.nonces EXCEPT ![m.pool][m.owner] = m.nonce + 1]
      BY <2>7, AcceptedIsSpent DEF Spent
    <3>3. world'.nonces[m.pool][m.owner] = m.nonce + 1
      BY <2>1, <2>4, <3>2
    <3> QED BY <2>1, <2>2, <3>3, SMT
  <2>8. m.deadline >= now
    BY <2>1, <2>2, <2>4, <2>5, SMT
  <2> QED BY <2>6, <2>7, <2>8 DEF PermitLive
<1> QED BY <1>1, <1>2, <1>3, RouterAlways, PTL DEF Spec, SignaturesDie

-----------------------------------------------------------------------------
(* A quoted swap goes through.                                             *)

(* A pool that was paid at least what the quote asks for, and holds at     *)
(* least its reserves, passes its check.                                   *)
LEMMA QuotePassesK ==
  ASSUME NEW x \in Nat \ {0}, NEW ri \in Nat \ {0}, NEW ro \in Nat \ {0}, NEW out \in Nat,
         out <= GetAmountOut(x, ri, ro), NEW in \in Nat, in >= x, NEW extra \in Nat
  PROVE  KHolds(ri + in, (ro - out) + extra, in, extra, ri, ro)
<1> DEFINE q == GetAmountOut(x, ri, ro)
<1>1. q \in Nat /\ q <= ro - 1 /\ out <= q
  BY AmountOutBelowReserve, SMT
<1>2. ((ri + x) * 1000 - x * 3) * ((ro - q) * 1000 - 0 * 3) >= ri * ro * 1000 * 1000
  BY QuotedSwapPassesK DEF KHolds, FeeBase, FeeCut
<1> HIDE DEF q
<1> DEFINE a == (ri + x) * 1000 - x * 3
           b == (ro - q) * 1000 - 0 * 3
           c == (ri + in) * 1000 - in * 3
           d == ((ro - out) + extra) * 1000 - extra * 3
<1>3. a \in Nat /\ b \in Nat /\ c \in Nat /\ d \in Nat /\ a <= c /\ b <= d
  BY <1>1, SMT
<1>4. a * b >= ri * ro * 1000 * 1000
  BY <1>2
<1>5. ri * ro * 1000 * 1000 \in Int
  BY SMT
<1> HIDE DEF a, b, c, d
<1>6. a * b <= c * d
  BY <1>3, MulMonotone
<1>7. a * b \in Int /\ c * d \in Int
  BY <1>3, SMT
<1>8. \A i, j, k \in Int : i >= k /\ i <= j => j >= k
  BY SMT
<1>9. c * d >= ri * ro * 1000 * 1000
  BY <1>4, <1>5, <1>6, <1>7, <1>8
<1> QED BY <1>9 DEF c, d, KHolds, FeeBase, FeeCut

(* A hop goes through when its pool has been paid what the quote asks for. *)
LEMMA HopWorks ==
  ASSUME NEW w, Sound(w), NEW a \in Token, NEW b \in Token, a # b, NEW p, p = PairFor(a, b),
         p \in w.pairs, NEW x \in Nat \ {0}, w.reserve[p][a] > 0,
         w.tok[a][p] >= w.reserve[p][a] + x,
         NEW out \in Nat, 0 < out, out < w.reserve[p][b],
         out <= GetAmountOut(x, w.reserve[p][a], w.reserve[p][b]),
         NEW to \in Account, to # p
  PROVE  PairSwap(w, p, b, out, to) # Failed
<1> DEFINE v == Transfer(w, b, p, to, out)
           ri == w.reserve[p][a]
           ro == w.reserve[p][b]
           in == w.tok[a][p] - ri
           extra == w.tok[b][p] - ro
<1>1. p \in Pool /\ p = {a, b} /\ p \in Account /\ w \in World /\ Ledgers(w)
  BY Sides, Accounts DEF Sound, Ledgers
<1>2. /\ ri \in Nat /\ ro \in Nat /\ w.tok[a][p] \in Nat /\ w.tok[b][p] \in Nat
      /\ ri <= w.tok[a][p] /\ ro <= w.tok[b][p]
  BY <1>1, WorldParts DEF Sound, Covered
<1>3. w.tok[b][p] >= out
  BY <1>2, SMT
<1>4. /\ v \in World /\ v.tok[b][p] = w.tok[b][p] - out
      /\ \A s \in Token, c \in Account : (s # b \/ c \notin {p, to}) => v.tok[s][c] = w.tok[s][c]
  <2> SUFFICES ASSUME NEW y, y = Transfer(w, b, p, to, out)
               PROVE  /\ y \in World /\ y.tok[b][p] = w.tok[b][p] - out
                      /\ \A s \in Token, c \in Account :
                           (s # b \/ c \notin {p, to}) => y.tok[s][c] = w.tok[s][c]
    OBVIOUS
  <2>1. w \in World /\ p \in Account /\ w.tok[b][p] >= out
    BY <1>1, <1>3
  <2> QED BY <2>1, TransferWorks
<1>5. v # Failed /\ v.tok[a][p] = w.tok[a][p]
  BY <1>1, <1>4, NotFailed
<1>6. Ledgers(v)
  BY <1>1, <1>5, TransferLedgers
<1>7. (CHOOSE t \in p : t # b) = a
  BY <1>1
<1> HIDE DEF v
<1>8. /\ in \in Nat /\ in >= x /\ extra \in Nat
      /\ v.tok[a][p] = ri + in /\ v.tok[b][p] = (ro - out) + extra
  BY <1>2, <1>3, <1>4, <1>5, SMT
<1>9. Inferred(v, w, p, a, 0) = in
  BY <1>2, <1>8, SMT DEF Inferred, Balance
<1>10. Inferred(v, w, p, b, out) = extra
  BY <1>2, <1>8, SMT DEF Inferred, Balance
<1>11. ri \in Nat \ {0} /\ ro \in Nat \ {0} /\ in > 0
  BY <1>2, <1>8, SMT
<1>12. KHolds(v.tok[a][p], v.tok[b][p], in, extra, ri, ro)
  <2> HIDE DEF ri, ro, in, extra
  <2>1. out <= GetAmountOut(x, ri, ro)
    BY DEF ri, ro
  <2>2. KHolds(ri + in, (ro - out) + extra, in, extra, ri, ro)
    BY <1>8, <1>11, <2>1, QuotePassesK
  <2> QED BY <1>8, <2>2
<1>13. Update(v, p) # Failed
  <2>1. Ledgers(Update(v, p))
    BY <1>1, <1>6, UpdateSets
  <2> QED BY <2>1, NotFailed DEF Ledgers
<1> HIDE DEF in, extra
<1>14. PairSwap(w, p, b, out, to) = Update(v, p)
  BY <1>5, <1>7, <1>9, <1>10, <1>11, <1>12, Zenon DEF PairSwap, Then, Require, ProductKept, Balance, v
<1> QED BY <1>13, <1>14

(* Amounts along a path that its pools will trade.                         *)
PoolOf(path, i) == PairFor(path[i], path[i + 1])
Tradable(w, path, amounts) ==
  \A i \in 1 .. Len(path) - 1 :
    /\ PoolOf(path, i) \in w.pairs
    /\ w.reserve[PoolOf(path, i)][path[i]] > 0
    /\ amounts[i] > 0 /\ amounts[i + 1] > 0
    /\ amounts[i + 1] < w.reserve[PoolOf(path, i)][path[i + 1]]
    /\ amounts[i + 1] <= GetAmountOut(amounts[i], w.reserve[PoolOf(path, i)][path[i]],
                                      w.reserve[PoolOf(path, i)][path[i + 1]])

(* A path that crosses no pool twice and loses nothing to a tax.           *)
Straight(path) ==
  /\ \A i, j \in 1 .. Len(path) - 1 : i # j => PoolOf(path, i) # PoolOf(path, j)
  /\ \A i \in 1 .. Len(path) : path[i] \notin Taxed

(* Pool i has been paid amount i.                                          *)
PaidAt(w, path, amounts, i) ==
  w.tok[path[i]][PoolOf(path, i)] >= w.reserve[PoolOf(path, i)][path[i]] + amounts[i]

(* A swap from world w that has come to world v after k hops: the pools    *)
(* ahead are as they were, and the next one has been paid.                 *)
Underway(w, v, path, amounts, k) ==
  /\ Sound(v) /\ v.pairs = w.pairs
  /\ \A j \in 1 .. Len(path) - 1 : j > k => v.reserve[PoolOf(path, j)] = w.reserve[PoolOf(path, j)]
  /\ k < Len(path) - 1 => PaidAt(v, path, amounts, k + 1)

(* The next hop then goes through and pays the pool after it.              *)
LEMMA NextHop ==
  ASSUME NEW w, Sound(w), NEW path, IsPath(path), Straight(path), NEW to \in Account \ Pool,
         NEW amounts, \A i \in 1 .. Len(path) : amounts[i] \in Nat, Tradable(w, path, amounts),
         NEW i \in 1 .. Len(path) - 1, NEW v, Underway(w, v, path, amounts, i - 1),
         NEW x, x = FixedHop(v, amounts, path, i, to)
  PROVE  x # Failed /\ Underway(w, x, path, amounts, i)
<1> DEFINE n == Len(path) - 1
           p == PoolOf(path, i)
           next == HopTo(path, i, to)
           a == path[i]
           b == path[i + 1]
           out == amounts[i + 1]
<1>1. n \in Nat /\ i \in Nat /\ 1 <= i /\ i <= n /\ (i - 1) + 1 = i /\ i - 1 < n
  BY PathParts, SMT
<1>2. /\ a \in Token /\ b \in Token /\ a # b /\ p \in Pool /\ p = PairFor(a, b) /\ b \in p
      /\ amounts[i] \in Nat /\ out \in Nat
  BY PathParts DEF PoolOf
<1>3. Sound(v) /\ v.pairs = w.pairs /\ v.reserve[p] = w.reserve[p] /\ PaidAt(v, path, amounts, i)
  BY <1>1 DEF Underway
<1>4. /\ p \in w.pairs /\ w.reserve[p][a] > 0 /\ amounts[i] > 0 /\ out > 0 /\ out < w.reserve[p][b]
      /\ out <= GetAmountOut(amounts[i], w.reserve[p][a], w.reserve[p][b])
  BY DEF Tradable
<1>5. i < n => /\ i + 1 \in 1 .. n /\ (i + 1) + 1 = i + 2 /\ i + 1 # i /\ next = PoolOf(path, i + 1)
               /\ PoolOf(path, i + 1) \in Pool
  <2>1. i < n => i + 1 \in 1 .. n /\ (i + 1) + 1 = i + 2 /\ i + 1 # i
    BY <1>1, SMT
  <2> QED BY <2>1, PathParts DEF PoolOf, HopTo
<1>6. ~(i < n) => next = to
  BY DEF HopTo
<1>7. next \in Account /\ next # p
  <2>1. CASE i < n
    <3>1. PoolOf(path, i + 1) # p
      BY <1>5, <2>1 DEF Straight
    <3> QED BY <1>5, <2>1, <3>1, Accounts
  <2>2. CASE ~(i < n)
    BY <1>2, <1>6, <2>2
  <2> QED BY <2>1, <2>2
<1>8. x = PairSwap(v, p, b, out, next)
  BY DEF FixedHop, PoolOf
<1>9. v.tok[a][p] >= v.reserve[p][a] + amounts[i]
  BY <1>3 DEF PaidAt
<1> HIDE DEF n, p, next, a, b, out
<1>10. x # Failed
  <2>1. amounts[i] \in Nat \ {0}
    BY <1>2, <1>4, SMT
  <2>2. 0 < out
    BY <1>2, <1>4, SMT
  <2> QED BY <1>2, <1>3, <1>4, <1>7, <1>8, <1>9, <2>1, <2>2, HopWorks
<1>11. /\ Sound(x) /\ x.pairs = v.pairs /\ OthersKept(v, x, p)
       /\ x.tok[b][next] = v.tok[b][next] + Delivered(b, out)
  BY <1>2, <1>3, <1>7, <1>8, <1>10, SwapSound
<1>12. ASSUME NEW j \in 1 .. n, j > i
       PROVE  x.reserve[PoolOf(path, j)] = w.reserve[PoolOf(path, j)]
  <2>1. j # i /\ j > i - 1
    BY <1>1, <1>12, SMT
  <2>2. PoolOf(path, j) \in Pool \ {p}
    BY <2>1, PathParts DEF Straight, PoolOf, n, p
  <2>3. v.reserve[PoolOf(path, j)] = w.reserve[PoolOf(path, j)]
    BY <2>1 DEF Underway, n
  <2> QED BY <1>11, <2>2, <2>3 DEF OthersKept
<1>13. ASSUME i < n PROVE PaidAt(x, path, amounts, i + 1)
  <2> DEFINE q == PoolOf(path, i + 1)
  <2>1. /\ q \in Pool /\ q # p /\ q = next /\ path[i + 1] = b /\ amounts[i + 1] = out
        /\ b \in q
    BY <1>5, <1>7, <1>13, PathParts DEF b, out, n, PoolOf
  <2>2. Delivered(b, out) = out
    <3>1. b \notin Taxed
      BY PathParts DEF Straight, b, n
    <3> QED BY <1>2, <3>1, DeliveredType
  <2>3. x.reserve[q] = v.reserve[q]
    BY <1>11, <2>1 DEF OthersKept
  <2>4. v.tok[b][q] >= v.reserve[q][b] /\ v.tok[b][q] \in Nat /\ v.reserve[q][b] \in Nat
    <3>1. v \in World /\ q \in Account
      BY <1>3, <2>1, Accounts DEF Sound, Ledgers
    <3>2. v.tok[b][q] \in Nat /\ v.reserve[q][b] \in Nat
      BY <1>2, <2>1, <3>1, WorldParts
    <3>3. v.reserve[q][b] <= v.tok[b][q]
      BY <1>3, <2>1 DEF Sound, Covered
    <3> QED BY <3>2, <3>3, SMT
  <2>5. x.tok[b][q] = v.tok[b][q] + out
    BY <1>11, <2>1, <2>2
  <2>6. v.tok[b][q] + out >= v.reserve[q][b] + out
    <3>1. \A m, k, l \in Int : m >= k => m + l >= k + l
      BY SMT
    <3>2. v.tok[b][q] \in Int /\ v.reserve[q][b] \in Int /\ out \in Int
      BY <1>2, <2>4, SMT
    <3> HIDE DEF q
    <3> QED BY <2>4, <3>1, <3>2
  <2> HIDE DEF q
  <2>7. x.tok[b][q] >= x.reserve[q][b] + out
    BY <2>3, <2>5, <2>6
  <2> QED BY <2>1, <2>7 DEF PaidAt, q
<1> QED BY <1>3, <1>10, <1>11, <1>12, <1>13 DEF Underway, n

(* _swap along such a path goes through.                                   *)
LEMMA AlongWorks ==
  ASSUME NEW w, Sound(w), NEW path, IsPath(path), Straight(path), NEW to \in Account \ Pool,
         NEW amounts, \A i \in 1 .. Len(path) : amounts[i] \in Nat, Tradable(w, path, amounts),
         NEW v, Sound(v), SamePools(w, v), PaidAt(v, path, amounts, 1)
  PROVE  SwapAlong(v, amounts, path, to) # Failed
<1> DEFINE n == Len(path) - 1
<1>1. path \in Seq(Token) /\ Len(path) >= 2
  BY DEF IsPath
<1>2. PICK f : /\ f[0] = v
               /\ \A i \in 1 .. Len(path) - 1 :
                    f[i] = AlongNext(f[i - 1], amounts, path, i, to)
               /\ SwapAlong(v, amounts, path, to) = f[Len(path) - 1]
  BY <1>1, Along, SMTT(30)
<1>3. n \in Nat /\ n \in 0 .. n
  BY PathParts, SMT
<1> DEFINE S == {k \in Nat : f[k] # Failed /\ Underway(w, f[k], path, amounts, k)}
<1>4. 0 \in S
  <2>1. Underway(w, v, path, amounts, 0) /\ v # Failed
    <3>1. v \in World
      BY DEF Sound, Ledgers
    <3> QED BY <3>1, NotFailed DEF Underway, SamePools
  <2> QED BY <1>2, <2>1
<1>5. ASSUME NEW k \in 0 .. n - 1, k \in S PROVE k + 1 \in S
  <2>1. k \in Nat /\ k + 1 \in Nat /\ k + 1 \in 1 .. Len(path) - 1 /\ (k + 1) - 1 = k
    BY <1>3, SMT
  <2>2. f[k + 1] = FixedHop(f[k], amounts, path, k + 1, to)
    BY <1>2, <1>5, <2>1 DEF AlongNext, Then
  <2>3. Underway(w, f[k], path, amounts, (k + 1) - 1)
    BY <1>5, <2>1
  <2>4. f[k + 1] # Failed /\ Underway(w, f[k + 1], path, amounts, k + 1)
    <3> HIDE DEF S
    <3> QED BY <2>1, <2>2, <2>3, NextHop
  <2> QED BY <2>1, <2>4
<1>6. \A k \in 0 .. n : k \in S
  <2> HIDE DEF S, n
  <2> QED BY <1>3, <1>4, <1>5, UpTo
<1> QED BY <1>2, <1>3, <1>6

(* What a quote of something implies for its pool: forwards,               *)
LEMMA HopOfQuoteOut ==
  ASSUME NEW w \in World, NEW path, IsPath(path), NEW i \in 1 .. Len(path) - 1, NEW x \in Nat,
         NEW out, out = QuoteOut(w, x, path[i], path[i + 1]), out > 0
  PROVE  /\ x > 0 /\ out \in Nat /\ PoolOf(path, i) \in w.pairs
         /\ w.reserve[PoolOf(path, i)][path[i]] > 0
         /\ out < w.reserve[PoolOf(path, i)][path[i + 1]]
         /\ out <= GetAmountOut(x, w.reserve[PoolOf(path, i)][path[i]],
                                w.reserve[PoolOf(path, i)][path[i + 1]])
<1>1. path[i] \in Token /\ path[i + 1] \in Token /\ path[i] # path[i + 1]
  BY PathParts
<1> DEFINE ri == w.reserve[PoolOf(path, i)][path[i]]
           ro == w.reserve[PoolOf(path, i)][path[i + 1]]
<1>2. /\ x > 0 /\ out \in Nat /\ PoolOf(path, i) \in w.pairs /\ ri > 0
      /\ out < ro /\ out = GetAmountOut(x, ri, ro)
  BY <1>1, QuoteOutType DEF PoolOf
<1> HIDE DEF ri, ro
<1>3. out <= GetAmountOut(x, ri, ro)
  BY <1>2, SMT
<1> QED BY <1>2, <1>3 DEF ri, ro

(* and backwards.                                                          *)
LEMMA HopOfQuoteIn ==
  ASSUME NEW w \in World, NEW path, IsPath(path), NEW i \in 1 .. Len(path) - 1, NEW out \in Nat,
         NEW x, x = QuoteIn(w, out, path[i], path[i + 1]), x > 0
  PROVE  /\ x \in Nat /\ out > 0 /\ PoolOf(path, i) \in w.pairs
         /\ w.reserve[PoolOf(path, i)][path[i]] > 0
         /\ out < w.reserve[PoolOf(path, i)][path[i + 1]]
         /\ out <= GetAmountOut(x, w.reserve[PoolOf(path, i)][path[i]],
                                w.reserve[PoolOf(path, i)][path[i + 1]])
<1>1. /\ path[i] \in Token /\ path[i + 1] \in Token /\ path[i] # path[i + 1]
      /\ PoolOf(path, i) \in Pool
  BY PathParts DEF PoolOf
<1> DEFINE ri == w.reserve[PoolOf(path, i)][path[i]]
           ro == w.reserve[PoolOf(path, i)][path[i + 1]]
<1>2. /\ x \in Nat /\ out > 0 /\ PoolOf(path, i) \in w.pairs /\ ri > 0
      /\ out < ro /\ x = GetAmountIn(out, ri, ro)
  BY <1>1, QuoteInType DEF PoolOf
<1>3. ri \in Nat /\ ro \in Nat
  BY <1>1, WorldParts
<1> HIDE DEF ri, ro
<1>4. out <= GetAmountOut(x, ri, ro)
  <2>1. out \in Nat \ {0} /\ ri \in Nat \ {0}
    BY <1>2, <1>3, SMT
  <2>2. GetAmountOut(GetAmountIn(out, ri, ro), ri, ro) >= out
    BY <1>2, <1>3, <2>1, AmountInSuffices
  <2>3. GetAmountOut(x, ri, ro) \in Int
    <3>1. x \in Nat \ {0} /\ ro \in Nat \ {0}
      BY <1>2, <1>3, SMT
    <3>2. GetAmountOut(x, ri, ro) \in 0 .. ro - 1
      BY <2>1, <3>1, AmountOutBelowReserve
    <3> QED BY <1>3, <3>2, SMT
  <2> QED BY <1>2, <2>2, <2>3, SMT
<1> QED BY <1>2, <1>4 DEF ri, ro

(* getAmountsOut that ends in something has traded all along the path.     *)
LEMMA QuotesOutTradable ==
  ASSUME NEW w \in World, NEW x \in Nat, NEW path, IsPath(path),
         NEW amounts, amounts = GetAmountsOut(w, x, path), amounts[Len(path)] > 0
  PROVE  Tradable(w, path, amounts)
<1> DEFINE n == Len(path)
<1>1. n \in Nat /\ n >= 2
  BY PathParts
<1>2. /\ \A i \in 1 .. n : amounts[i] \in Nat
      /\ \A i \in 1 .. n - 1 : amounts[i + 1] = QuoteOut(w, amounts[i], path[i], path[i + 1])
  BY AmountsOut
<1> HIDE DEF n
<1>3. ASSUME NEW i \in 1 .. n PROVE amounts[i] > 0
  <2> DEFINE S == {k \in Nat : n - k \in 1 .. n => amounts[n - k] > 0}
  <2>1. 0 \in S
    <3>1. n - 0 = n
      BY <1>1, SMT
    <3> QED BY <3>1 DEF n
  <2>2. ASSUME NEW k \in 0 .. n - 1, k \in S PROVE k + 1 \in S
    <3>1. k \in Nat /\ k + 1 \in Nat
      BY SMT
    <3> DEFINE j == n - (k + 1)
    <3>2. CASE j \in 1 .. n
      <4>1. j \in 1 .. n - 1 /\ j \in 1 .. n /\ j + 1 = n - k /\ n - k \in 1 .. n
        BY <1>1, <3>1, <3>2, SMT
      <4> HIDE DEF j
      <4>2. amounts[j + 1] > 0 /\ amounts[j] \in Nat
        BY <1>2, <2>2, <4>1
      <4>3. amounts[j + 1] = QuoteOut(w, amounts[j], path[j], path[j + 1])
        BY <1>2, <4>1
      <4>4. j \in 1 .. Len(path) - 1
        BY <4>1 DEF n
      <4>5. amounts[j] > 0
        BY <4>2, <4>3, <4>4, HopOfQuoteOut
      <4> QED BY <3>1, <4>5 DEF j
    <3> QED BY <3>1, <3>2
  <2>3. \A k \in 0 .. n : k \in S
    <3> HIDE DEF S
    <3> QED BY <1>1, <2>1, <2>2, UpTo
  <2>4. n - i \in 0 .. n /\ n - (n - i) = i /\ n - i \in Nat
    BY <1>1, SMT
  <2> QED BY <2>3, <2>4
<1> SUFFICES ASSUME NEW i \in 1 .. Len(path) - 1
             PROVE  /\ PoolOf(path, i) \in w.pairs
                    /\ w.reserve[PoolOf(path, i)][path[i]] > 0
                    /\ amounts[i] > 0 /\ amounts[i + 1] > 0
                    /\ amounts[i + 1] < w.reserve[PoolOf(path, i)][path[i + 1]]
                    /\ amounts[i + 1] <= GetAmountOut(amounts[i], w.reserve[PoolOf(path, i)][path[i]],
                                                      w.reserve[PoolOf(path, i)][path[i + 1]])
  BY DEF Tradable
<1>4. i \in 1 .. n /\ i + 1 \in 1 .. n /\ i \in 1 .. n - 1
  BY <1>1, SMT DEF n
<1>5. amounts[i] \in Nat /\ amounts[i + 1] > 0
      /\ amounts[i + 1] = QuoteOut(w, amounts[i], path[i], path[i + 1])
  BY <1>2, <1>3, <1>4
<1> QED BY <1>5, HopOfQuoteOut

(* And getAmountsIn that starts with something.                            *)
LEMMA QuotesInTradable ==
  ASSUME NEW w \in World, NEW x \in Nat, NEW path, IsPath(path),
         NEW amounts, amounts = GetAmountsIn(w, x, path), amounts[1] > 0
  PROVE  Tradable(w, path, amounts)
<1> DEFINE n == Len(path)
<1>1. n \in Nat /\ n >= 2
  BY PathParts
<1>2. /\ \A i \in 1 .. n : amounts[i] \in Nat
      /\ \A i \in 1 .. n - 1 : amounts[i] = QuoteIn(w, amounts[i + 1], path[i], path[i + 1])
  BY AmountsIn
<1> HIDE DEF n
<1>3. ASSUME NEW i \in 1 .. n PROVE amounts[i] > 0
  <2> DEFINE S == {k \in Nat : k + 1 \in 1 .. n => amounts[k + 1] > 0}
  <2>1. 0 \in S
    BY SMT
  <2>2. ASSUME NEW k \in 0 .. n - 1, k \in S PROVE k + 1 \in S
    <3>1. k \in Nat /\ k + 1 \in Nat
      BY SMT
    <3> DEFINE j == k + 1
    <3>2. CASE j + 1 \in 1 .. n
      <4>1. j \in 1 .. n - 1 /\ j \in 1 .. n
        BY <1>1, <3>1, <3>2, SMT
      <4>2. amounts[j] > 0
        BY <2>2, <4>1
      <4> HIDE DEF j
      <4>3. amounts[j] = QuoteIn(w, amounts[j + 1], path[j], path[j + 1]) /\ amounts[j + 1] \in Nat
        BY <1>2, <3>2, <4>1
      <4>4. j \in 1 .. Len(path) - 1
        BY <4>1 DEF n
      <4>5. amounts[j + 1] > 0
        BY <4>2, <4>3, <4>4, HopOfQuoteIn
      <4> QED BY <3>1, <4>5 DEF j
    <3> QED BY <3>1, <3>2
  <2>3. \A k \in 0 .. n : k \in S
    <3> HIDE DEF S
    <3> QED BY <1>1, <2>1, <2>2, UpTo
  <2>4. i - 1 \in 0 .. n /\ (i - 1) + 1 = i
    BY <1>1, SMT
  <2> QED BY <2>3, <2>4
<1> SUFFICES ASSUME NEW i \in 1 .. Len(path) - 1
             PROVE  /\ PoolOf(path, i) \in w.pairs
                    /\ w.reserve[PoolOf(path, i)][path[i]] > 0
                    /\ amounts[i] > 0 /\ amounts[i + 1] > 0
                    /\ amounts[i + 1] < w.reserve[PoolOf(path, i)][path[i + 1]]
                    /\ amounts[i + 1] <= GetAmountOut(amounts[i], w.reserve[PoolOf(path, i)][path[i]],
                                                      w.reserve[PoolOf(path, i)][path[i + 1]])
  BY DEF Tradable
<1>4. i \in 1 .. n /\ i + 1 \in 1 .. n /\ i \in 1 .. n - 1
  BY <1>1, SMT DEF n
<1>5. amounts[i + 1] \in Nat /\ amounts[i] > 0 /\ amounts[i + 1] > 0
      /\ amounts[i] = QuoteIn(w, amounts[i + 1], path[i], path[i + 1])
  BY <1>2, <1>3, <1>4
<1> QED BY <1>5, HopOfQuoteIn

(* Paying the first pool sets the swap on its way, from whoever has it.    *)
LEMMA FirstPaid ==
  ASSUME NEW w, Sound(w), NEW path, IsPath(path), Straight(path), NEW from \in Account \ Pool,
         NEW amounts, amounts[1] \in Nat, w.tok[path[1]][from] >= amounts[1],
         NEW v, v = Transfer(w, path[1], from, First(path), amounts[1])
  PROVE  v # Failed /\ Sound(v) /\ SamePools(w, v) /\ PaidAt(v, path, amounts, 1)
<1> DEFINE t == path[1]
           p == First(path)
           n == amounts[1]
<1>1. t \in Token /\ p \in Pool /\ p \in Account /\ t \in p /\ t \notin Taxed /\ p = PoolOf(path, 1)
  <2>1. 1 \in 1 .. Len(path) - 1 /\ 1 + 1 = 2
    BY PathParts, SMT
  <2>2. p = PoolOf(path, 1)
    BY <2>1 DEF First, PoolOf
  <2>3. PairFor(path[1], path[1 + 1]) \in Pool /\ path[1] \in PairFor(path[1], path[1 + 1])
        /\ 1 \in 1 .. Len(path) /\ path[1] \in Token
    BY <2>1, PathParts
  <2>4. path[1] \notin Taxed
    BY <2>3 DEF Straight
  <2> QED BY <2>2, <2>3, <2>4, Accounts DEF PoolOf
<1>2. w \in World /\ w.tok[t][from] >= n /\ n \in Nat /\ v = Transfer(w, t, from, p, n) /\ from # p
  BY <1>1 DEF Sound, Ledgers
<1>3. w.reserve[p][t] \in Nat /\ w.tok[t][p] \in Nat /\ w.reserve[p][t] <= w.tok[t][p]
  BY <1>1, <1>2, WorldParts DEF Sound, Covered
<1>4. Delivered(t, n) = n
  BY <1>1, <1>2, DeliveredType
<1> HIDE DEF t, p, n
<1>5. v \in World /\ v.tok[t][p] = w.tok[t][p] + n
  BY <1>1, <1>2, <1>4, TransferWorks
<1>6. v # Failed
  BY <1>5, NotFailed
<1>7. Sound(v) /\ SamePools(w, v)
  BY <1>1, <1>2, <1>6, TransferSound
<1>8. v.tok[t][p] >= v.reserve[p][t] + n
  <2>1. v.reserve[p][t] = w.reserve[p][t]
    BY <1>7 DEF SamePools
  <2> QED BY <1>2, <1>3, <1>5, <2>1, SMT
<1> QED BY <1>1, <1>6, <1>7, <1>8 DEF PaidAt, t, p, n

(* Whoever has the KASH can pay the first pool with it, wrapped on the way *)
(* there.                                                                  *)
LEMMA PayWrappedWorks ==
  ASSUME NEW w, Sound(w), NEW u \in User, NEW path, IsPath(path), Straight(path), path[1] = WKASH,
         NEW amounts, amounts[1] \in Nat, w.kash[u] >= amounts[1],
         NEW h, h = PayIn(w, u, amounts[1]),
         NEW v, v = PayWrapped(h, path, amounts[1])
  PROVE  /\ h # Failed /\ v # Failed
         /\ Sound(v) /\ SamePools(w, v) /\ PaidAt(v, path, amounts, 1)
<1> DEFINE n == amounts[1]
           d == Deposit(h, Router, n)
<1>1. n \in Nat /\ n <= w.kash[u] /\ u \in Account \ {WKASH} /\ Router \in Account \ {WKASH}
      /\ u # Router /\ w.kash[Router] \in Nat
  <2>1. w.kash[u] \in Nat /\ w.kash[Router] \in Nat
    BY Users, Accounts, WorldParts DEF Sound, Ledgers
  <2>2. n <= w.kash[u]
    BY <2>1, SMT
  <2> QED BY <2>1, <2>2, Users, Accounts
<1> HIDE DEF n
<1>2. h = Paid(w, u, Router, n)
  BY <1>1 DEF PayIn, Require, Paid, n
<1>3. /\ Sound(h) /\ SamePools(w, h) /\ h.kash[Router] = w.kash[Router] + n
  BY <1>1, <1>2, KashSound
<1>4. h # Failed
  BY <1>3, NotFailed DEF Sound, Ledgers
<1>5. h.kash[Router] >= n
  BY <1>1, <1>3, SMT
<1>6. /\ Sound(d) /\ SamePools(h, d)
      /\ d.tok[WKASH][Router] = h.tok[WKASH][Router] + n
  BY <1>1, <1>3, <1>5, DepositWorks
<1> HIDE DEF d
<1>7. d # Failed
  BY <1>6, NotFailed DEF Sound, Ledgers
<1>8. d.tok[path[1]][Router] >= n
  <2>1. h.tok[WKASH][Router] \in Nat
    BY <1>3, Accounts, WorldParts DEF Sound, Ledgers
  <2>2. d.tok[WKASH][Router] >= n
    BY <1>1, <1>6, <2>1, SMT
  <2> QED BY <2>2
<1>9. v = Transfer(d, path[1], Router, First(path), n)
  BY <1>7 DEF PayWrapped, Then, d, n
<1>10. Router \in Account \ Pool
  BY Accounts
<1>11. v # Failed /\ Sound(v) /\ SamePools(d, v) /\ PaidAt(v, path, amounts, 1)
  BY <1>1, <1>6, <1>8, <1>9, <1>10, FirstPaid DEF n
<1> QED BY <1>3, <1>4, <1>6, <1>11 DEF SamePools

(* The four functions that swap for a quote.                               *)
LEMMA QuotedSwapsWork ==
  ASSUME NEW w, Sound(w), NEW u \in User, NEW x \in Nat, NEW path, IsPath(path), Straight(path),
         NEW to \in User,
         NEW outs, outs = GetAmountsOut(w, x, path), NEW ins, ins = GetAmountsIn(w, x, path)
  PROVE  /\ Seqs!Last(outs) > 0 /\ w.tok[path[1]][u] >= x =>
              SwapExactTokensForTokens(w, u, x, Seqs!Last(outs), path, to) # Failed
         /\ ins[1] > 0 /\ w.tok[path[1]][u] >= ins[1] =>
              SwapTokensForExactTokens(w, u, x, ins[1], path, to) # Failed
         /\ path[1] = WKASH /\ Seqs!Last(outs) > 0 /\ w.kash[u] >= x =>
              SwapExactETHForTokens(w, u, x, Seqs!Last(outs), path, to) # Failed
         /\ path[1] = WKASH /\ ins[1] > 0 /\ w.kash[u] >= ins[1] =>
              SwapETHForExactTokens(w, u, x, ins[1], path, to) # Failed
<1> DEFINE ForTokens(amounts) == Then(PayTokens(w, u, path, amounts[1]),
                                     LAMBDA v : SwapAlong(v, amounts, path, to))
           ForKash(amounts) == Then(Then(PayIn(w, u, amounts[1]),
                                         LAMBDA v : PayWrapped(v, path, amounts[1])),
                                    LAMBDA v : SwapAlong(v, amounts, path, to))
<1>1. w \in World /\ u \in Account \ Pool /\ to \in Account \ Pool
  BY Users DEF Sound, Ledgers
<1>2. /\ outs[1] = x /\ \A i \in 1 .. Len(path) : outs[i] \in Nat
      /\ Seqs!Last(outs) = outs[Len(path)]
  BY <1>1, AmountsOut
<1>3. \A i \in 1 .. Len(path) : ins[i] \in Nat
  BY <1>1, AmountsIn
<1>4. 1 \in 1 .. Len(path) /\ Len(path) \in 1 .. Len(path)
  BY PathParts, SMT
<1>5. outs[1] \in Nat /\ ins[1] \in Nat /\ outs[Len(path)] \in Nat
  BY <1>2, <1>3, <1>4
<1>6. outs[Len(path)] > 0 => Tradable(w, path, outs)
  BY <1>1, QuotesOutTradable
<1>7. ins[1] > 0 => Tradable(w, path, ins)
  BY <1>1, QuotesInTradable
<1>8. ASSUME NEW amounts, \A i \in 1 .. Len(path) : amounts[i] \in Nat,
             Tradable(w, path, amounts), w.tok[path[1]][u] >= amounts[1]
      PROVE  ForTokens(amounts) # Failed
  <2> DEFINE v == Transfer(w, path[1], u, First(path), amounts[1])
  <2>1. amounts[1] \in Nat
    BY <1>4, <1>8
  <2>2. v # Failed /\ Sound(v) /\ SamePools(w, v) /\ PaidAt(v, path, amounts, 1)
    BY <1>1, <1>8, <2>1, FirstPaid
  <2> HIDE DEF v
  <2>3. SwapAlong(v, amounts, path, to) # Failed
    BY <1>1, <1>8, <2>2, AlongWorks
  <2> QED BY <2>2, <2>3 DEF PayTokens, Then, v
<1>9. ASSUME NEW amounts, \A i \in 1 .. Len(path) : amounts[i] \in Nat, path[1] = WKASH,
             Tradable(w, path, amounts), w.kash[u] >= amounts[1]
      PROVE  ForKash(amounts) # Failed
  <2> DEFINE h == PayIn(w, u, amounts[1])
             v == PayWrapped(h, path, amounts[1])
  <2>1. amounts[1] \in Nat
    BY <1>4, <1>9
  <2>2. h # Failed /\ v # Failed /\ Sound(v) /\ SamePools(w, v) /\ PaidAt(v, path, amounts, 1)
    BY <1>9, <2>1, PayWrappedWorks
  <2>3. v = Then(PayIn(w, u, amounts[1]), LAMBDA y : PayWrapped(y, path, amounts[1]))
    BY <2>2 DEF Then
  <2> HIDE DEF v, h
  <2>4. SwapAlong(v, amounts, path, to) # Failed
    BY <1>1, <1>9, <2>2, AlongWorks
  <2> QED BY <2>2, <2>3, <2>4 DEF Then
<1> HIDE DEF ForTokens, ForKash
<1>10. ASSUME Seqs!Last(outs) > 0, w.tok[path[1]][u] >= x
       PROVE  SwapExactTokensForTokens(w, u, x, Seqs!Last(outs), path, to) # Failed
  <2>1. EnoughOut(outs, Seqs!Last(outs))
    BY <1>2, <1>5, SMT DEF EnoughOut
  <2>2. /\ \A i \in 1 .. Len(path) : outs[i] \in Nat
        /\ Tradable(w, path, outs) /\ w.tok[path[1]][u] >= outs[1]
    BY <1>2, <1>6, <1>10
  <2>3. ForTokens(outs) # Failed
    BY <1>8, <2>2
  <2> QED BY <1>2, <2>1, <2>3 DEF SwapExactTokensForTokens, ForTokens
<1>11. ASSUME ins[1] > 0, w.tok[path[1]][u] >= ins[1]
       PROVE  SwapTokensForExactTokens(w, u, x, ins[1], path, to) # Failed
  <2>1. 0 < ins[1] /\ ins[1] <= ins[1]
    BY <1>5, <1>11, SMT
  <2>2. Tradable(w, path, ins)
    BY <1>7, <1>11
  <2>3. ForTokens(ins) # Failed
    BY <1>3, <1>8, <1>11, <2>2
  <2> QED BY <2>1, <2>3 DEF SwapTokensForExactTokens, ForTokens
<1>12. ASSUME path[1] = WKASH, Seqs!Last(outs) > 0, w.kash[u] >= x
       PROVE  SwapExactETHForTokens(w, u, x, Seqs!Last(outs), path, to) # Failed
  <2>1. EnoughOut(outs, Seqs!Last(outs))
    BY <1>2, <1>5, SMT DEF EnoughOut
  <2>2. /\ \A i \in 1 .. Len(path) : outs[i] \in Nat
        /\ Tradable(w, path, outs) /\ w.kash[u] >= outs[1]
    BY <1>2, <1>6, <1>12
  <2>3. ForKash(outs) # Failed
    BY <1>9, <1>12, <2>2
  <2> QED BY <1>2, <1>12, <2>1, <2>3 DEF SwapExactETHForTokens, ForKash
<1>13. ASSUME path[1] = WKASH, ins[1] > 0, w.kash[u] >= ins[1]
       PROVE  SwapETHForExactTokens(w, u, x, ins[1], path, to) # Failed
  <2> DEFINE v == ForKash(ins)
  <2>1. 0 < ins[1] /\ ins[1] <= ins[1] /\ ~(ins[1] - ins[1] > 0)
    BY <1>5, <1>13, SMT
  <2>2. v # Failed
    BY <1>3, <1>7, <1>9, <1>13
  <2>3. Refund(v, u, ins[1] - ins[1]) = v
    BY <2>1 DEF Refund
  <2>4. SwapETHForExactTokens(w, u, x, ins[1], path, to)
          = Then(v, LAMBDA y : Refund(y, u, ins[1] - ins[1]))
    BY <1>13, <2>1 DEF SwapETHForExactTokens, ForKash
  <2> HIDE DEF v
  <2> QED BY <2>2, <2>3, <2>4 DEF Then
<1> QED BY <1>10, <1>11, <1>12, <1>13

(* QuotedSwapSucceeds holds in every reachable state: a swap for a quote   *)
(* that the caller can pay is never turned down by a pair on its way.      *)
THEOREM QuotedSwapsSucceed == Spec => []QuotedSwapSucceeds
<1>1. RouterInv => QuotedSwapSucceeds
  <2> SUFFICES ASSUME RouterInv, NEW u \in User, NEW x \in SwapAmounts, NEW path \in Paths,
                      NEW to \in Recipients,
                      \A i, j \in 1 .. Len(path) - 1 :
                        i # j => PairFor(path[i], path[i + 1]) # PairFor(path[j], path[j + 1]),
                      \A i \in 1 .. Len(path) : path[i] \notin Taxed
               PROVE  LET outs == GetAmountsOut(world, x, path)
                          ins == GetAmountsIn(world, x, path)
                          Can(amount) == amount > 0 /\ world.tok[path[1]][u] >= amount
                      IN  /\ Seqs!Last(outs) > 0 /\ Can(x) =>
                               SwapExactTokensForTokens(world, u, x, Seqs!Last(outs), path, to) # Failed
                          /\ Can(ins[1]) =>
                               SwapTokensForExactTokens(world, u, x, ins[1], path, to) # Failed
                          /\ path[1] = WKASH /\ Seqs!Last(outs) > 0 /\ world.kash[u] >= x =>
                               SwapExactETHForTokens(world, u, x, Seqs!Last(outs), path, to) # Failed
                          /\ path[1] = WKASH /\ ins[1] > 0 /\ world.kash[u] >= ins[1] =>
                               SwapETHForExactTokens(world, u, x, ins[1], path, to) # Failed
    BY DEF QuotedSwapSucceeds
  <2>1. IsPath(path) /\ x \in Nat /\ to \in User /\ Sound(world)
    BY Bounds DEF RouterInv
  <2>2. Straight(path)
    BY DEF Straight, PoolOf
  <2> QED BY <2>1, <2>2, QuotedSwapsWork
<1> QED BY <1>1, RouterAlways, PTL
=============================================================================
