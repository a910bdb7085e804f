---------------------------- MODULE TokenLedger ----------------------------
(***************************************************************************)
(* What a transaction of the router moves: tokens, wrapped and native      *)
(* KASH, pools and LP shares, as one record that calls transform.          *)
(*                                                                         *)
(* A call is an operator from a world to the world it leaves, or Failed:   *)
(* the EVM undoes a transaction as a whole, so one failing call makes the  *)
(* transaction one that never happened, whatever had been done before it.  *)
(* Then chains calls; Require is a require.                                *)
(*                                                                         *)
(* Modelled here: TransferHelper.sol, the wrapper WKASH9.sol, the          *)
(* fee-on-transfer token DeflatingERC20.sol, and the LP ledger's           *)
(* transferFrom and permit (ArkSwapERC20.sol) with the router as spender.  *)
(* Holders of ordinary tokens have approved the router without limit, so   *)
(* only balances decide whether safeTransferFrom succeeds.                 *)
(***************************************************************************)
EXTENDS Integers, FiniteSets

CONSTANTS
  Token,               \* token contracts
  WKASH,               \* the wrapper's token, in Token
  Taxed,               \* tokens that burn part of every transfer
  TaxDivisor,          \* ... one TaxDivisor-th of it (100)
  User,                \* accounts that call the router
  Router,              \* the router's address
  Zero,                \* address(0)
  Failed               \* the outcome of a call that reverts

(* What all accounts together have, each unit counted once.                *)
Total(f) == Cardinality(UNION {{a} \X (1 .. f[a]) : a \in DOMAIN f})

(* Factory and library derive a pair's address from its two tokens alone.  *)
PairFor(a, b) == {a, b}
Pool == {PairFor(a, b) : a, b \in Token} \ {{t} : t \in Token}

Account == User \cup Pool \cup {Router, WKASH, Zero}

World == [tok : [Token -> [Account -> Nat]],       \* balanceOf
          kash : [Account -> Nat],                 \* native balances
          pairs : SUBSET Pool,                     \* getPair is set
          reserve : [Pool -> [Token -> Nat]],      \* zero outside the pool's two
          lp : [Pool -> [Account -> Nat]],
          supply : [Pool -> Nat],
          allowance : [Pool -> [User -> Nat]],     \* of the router over LP shares
          nonces : [Pool -> [User -> Nat]]]

(* Addresses are distinct: a pool's is derived from its two tokens, and    *)
(* nobody else's.                                                          *)
ASSUME LedgerAssumption ==
  /\ IsFiniteSet(User) /\ IsFiniteSet(Token)
  /\ WKASH \in Token
  /\ Taxed \subseteq Token \ {WKASH}
  /\ TaxDivisor \in Nat \ {0}
  /\ Router \notin User \cup Token \cup {Zero}
  /\ Zero \notin User \cup Token
  /\ User \cap Token = {}
  /\ Pool \cap (User \cup Token \cup {Router, Zero}) = {}
  /\ Failed \notin World

-----------------------------------------------------------------------------
Require(condition, w) == IF condition THEN w ELSE Failed
Then(w, Call(_)) == IF w = Failed THEN Failed ELSE Call(w)

(* What arrives of a transfer                                              *)
Delivered(t, amount) ==
  IF t \in Taxed THEN amount - amount \div TaxDivisor ELSE amount

(* transfer and transferFrom of a token, through TransferHelper            *)
Transfer(w, t, from, to, amount) ==
  LET sent == [w EXCEPT !.tok[t][from] = @ - amount]
  IN  Require(w.tok[t][from] >= amount,
              [sent EXCEPT !.tok[t][to] = @ + Delivered(t, amount)])

(* msg.value of a payable function, which does not go through receive()    *)
PayIn(w, from, value) ==
  Require(w.kash[from] >= value,
    [w EXCEPT !.kash[from] = @ - value, !.kash[Router] = @ + value])

(* safeTransferETH; the router's receive() takes only what WKASH sends.    *)
(* First the same if the router had no receive().                          *)
SendKashNoReceive(w, from, to, value) ==
  Require(w.kash[from] >= value /\ to # Router,
    [w EXCEPT !.kash[from] = @ - value, !.kash[to] = @ + value])

SendKash(w, from, to, value) ==
  Require(w.kash[from] >= value /\ (to = Router => from = WKASH),
    [w EXCEPT !.kash[from] = @ - value, !.kash[to] = @ + value])

(* WKASH.deposit{value: value}() and WKASH.withdraw(value), the latter     *)
(* also without debiting the wrapped balance.                              *)
Deposit(w, who, value) ==
  Require(w.kash[who] >= value,
    [w EXCEPT !.kash[who] = @ - value, !.kash[WKASH] = @ + value,
              !.tok[WKASH][who] = @ + value])

WithdrawUndebited(w, who, value) ==
  Then(Require(w.tok[WKASH][who] >= value, w),
       LAMBDA v : SendKash(v, WKASH, who, value))

Withdraw(w, who, value) ==
  Then(Require(w.tok[WKASH][who] >= value, [w EXCEPT !.tok[WKASH][who] = @ - value]),
       LAMBDA v : SendKash(v, WKASH, who, value))

-----------------------------------------------------------------------------
(* LP shares.  An allowance of Unlimited, uint(-1), is never used up.      *)
CONSTANT Unlimited

ASSUME UnlimitedAssumption == Unlimited \in Nat

(* transferFrom(owner, p, shares) with msg.sender the router; and the same *)
(* with unchecked subtraction.                                             *)
AllowanceLeft(w, p, owner, shares) ==
  IF w.allowance[p][owner] = Unlimited THEN Unlimited
                                       ELSE w.allowance[p][owner] - shares

PullSharesUnchecked(w, p, owner, shares) ==
  [w EXCEPT !.allowance[p][owner] = AllowanceLeft(w, p, owner, shares),
            !.lp[p][owner] = @ - shares, !.lp[p][p] = @ + shares]

PullShares(w, p, owner, shares) ==
  Require(w.allowance[p][owner] >= shares /\ w.lp[p][owner] >= shares,
    [w EXCEPT !.allowance[p][owner] = AllowanceLeft(w, p, owner, shares),
              !.lp[p][owner] = @ - shares, !.lp[p][p] = @ + shares])

ApproveRouter(w, p, owner, value) == [w EXCEPT !.allowance[p][owner] = value]

(* A signed message is accepted while its nonce is the owner's next one    *)
(* and its deadline has not passed; and the same ignoring the nonce.       *)
AnyNonce(w, m, now) == m.deadline >= now
PermitLive(w, m, now) == m.deadline >= now /\ m.nonce = w.nonces[m.pool][m.owner]

Permit(w, m, now) ==
  Require(PermitLive(w, m, now),
    ApproveRouter([w EXCEPT !.nonces[m.pool][m.owner] = @ + 1], m.pool, m.owner, m.value))
=============================================================================
