--------------------------- MODULE SwapFormProofs ---------------------------
(***************************************************************************)
(* The swap page, for any tokens, pools, openings and bounds.  First the   *)
(* requests: no trade is sent twice, whatever is read and flipped in       *)
(* between.  Then the amounts: what the card shows is the best offer there *)
(* is, a swap that is mined kept to what was shown, and the router may     *)
(* never take more than one trade needs.  The search and the quotes are    *)
(* recursive functions; that such a function exists, and what it satisfies,*)
(* is proved by induction before it is used.                               *)
(***************************************************************************)
EXTENDS SwapForm, AmmMathProofs, SequenceTheorems, TLAPS

IsSequence == requests \in Seq({requests[i] : i \in DOMAIN requests})

(* What every request carries.                                             *)
WellFormed(r) == {"kind", "status", "noticed", "flips"} \subseteq DOMAIN r /\ r.flips \in Nat

Live(r) == r.status \in {"asked", "sent"}

RequestsInv ==
  /\ IsSequence /\ flips \in Nat
  /\ \A i \in DOMAIN requests :
       /\ WellFormed(requests[i]) /\ requests[i].flips <= flips
       /\ Live(requests[i]) => requests[i].noticed \in {"no", "error"}

(* A swap that is not over is the one the button waits for, or the user    *)
(* flipped since, or the page was told that it failed.                     *)
WaitInv ==
  \A i \in DOMAIN requests :
    Outstanding(i) => \/ i = swap
                      \/ requests[i].flips < flips
                      \/ requests[i].noticed = "error"

(* The inductive invariant.                                                *)
IInv == RequestsInv /\ WaitInv /\ OneSwapInFlight

-----------------------------------------------------------------------------
LEMMA RequestsLength ==
  ASSUME IsSequence
  PROVE  Len(requests) \in Nat /\ DOMAIN requests = 1 .. Len(requests)
BY LenProperties DEF IsSequence

(* A change of one request leaves the others, and adds none.               *)
LEMMA OneRequest ==
  ASSUME IsSequence, NEW i, NEW q, requests' = [requests EXCEPT ![i] = q]
  PROVE  /\ IsSequence' /\ Len(requests') = Len(requests)
         /\ \A j \in DOMAIN requests : requests'[j] = IF j = i THEN q ELSE requests[j]
<1> DEFINE S == {requests[j] : j \in DOMAIN requests} \cup {q}
<1>1. requests \in Seq(S)
  BY SeqMonotonic DEF IsSequence
<1>2. Len(requests) \in Nat /\ DOMAIN requests = 1 .. Len(requests)
  BY <1>1, RequestsLength
<1>3. requests' \in [1 .. Len(requests) -> S]
  BY <1>2
<1>4. requests' \in Seq(S)
  BY <1>2, <1>3, SeqDef
<1>5. Len(requests') = Len(requests)
  BY <1>2, <1>3, <1>4, LenProperties
<1>6. IsSequence'
  <2> DEFINE T == {requests'[j] : j \in DOMAIN requests'}
  <2>1. requests' \in [1 .. Len(requests) -> T]
    BY <1>3
  <2>2. requests' \in Seq(T)
    <3> HIDE DEF T
    <3> QED BY <1>2, <2>1, SeqDef
  <2> QED BY <2>2 DEF IsSequence
<1> QED BY <1>5, <1>6

(* How a request may change once it was asked.                             *)
Follows(q, r) ==
  /\ WellFormed(q) /\ q.kind = r.kind /\ q.flips = r.flips
  /\ Live(q) => Live(r) /\ q.noticed \in {r.noticed, "error"}

SameRequests ==
  /\ IsSequence' /\ Len(requests') = Len(requests)
  /\ \A j \in DOMAIN requests : Follows(requests'[j], requests[j])

LEMMA OneChanges ==
  ASSUME RequestsInv, NEW i, NEW q, requests' = [requests EXCEPT ![i] = q],
         i \in DOMAIN requests => Follows(q, requests[i])
  PROVE  SameRequests
<1>1. /\ IsSequence' /\ Len(requests') = Len(requests)
      /\ \A j \in DOMAIN requests : requests'[j] = IF j = i THEN q ELSE requests[j]
  BY OneRequest DEF RequestsInv
<1>2. \A j \in DOMAIN requests : Follows(requests[j], requests[j])
  BY DEF RequestsInv, Follows
<1> QED BY <1>1, <1>2 DEF SameRequests

LEMMA NoneChanges ==
  ASSUME RequestsInv, UNCHANGED requests
  PROVE  SameRequests
BY DEF RequestsInv, SameRequests, Follows, IsSequence

(* The invariant survives a step that asks for nothing.                    *)
LEMMA Keeping ==
  ASSUME IInv, SameRequests, flips' \in Nat, flips' >= flips, swap' = swap \/ flips' > flips
  PROVE  IInv'
<1>1. Len(requests) \in Nat /\ DOMAIN requests = 1 .. Len(requests)
  BY RequestsLength DEF IInv, RequestsInv
<1>2. DOMAIN requests' = DOMAIN requests
  BY <1>1, LenProperties DEF SameRequests, IsSequence
<1>3. \A j \in DOMAIN requests : Follows(requests'[j], requests[j])
  BY DEF SameRequests
<1>4. \A j \in DOMAIN requests :
        Outstanding(j)' => Outstanding(j) /\ requests'[j].noticed \in {requests[j].noticed, "error"}
  BY <1>3 DEF Follows, Live, Outstanding
<1>5. \A j \in DOMAIN requests :
        requests[j].flips \in Nat /\ requests[j].flips <= flips /\ flips \in Nat
  BY DEF IInv, RequestsInv, WellFormed
<1>6. RequestsInv'
  <2>1. ASSUME NEW j \in DOMAIN requests
        PROVE  /\ WellFormed(requests'[j]) /\ requests'[j].flips <= flips'
               /\ Live(requests'[j]) => requests'[j].noticed \in {"no", "error"}
    <3>1. Follows(requests'[j], requests[j])
      BY <1>3
    <3>2. requests'[j].flips <= flips'
      BY <1>5, <3>1 DEF Follows
    <3> QED BY <3>1, <3>2 DEF Follows, IInv, RequestsInv
  <2> QED BY <1>2, <2>1 DEF RequestsInv, SameRequests
<1>7. WaitInv'
  <2>1. ASSUME NEW i \in DOMAIN requests, Outstanding(i)'
        PROVE  i = swap' \/ requests'[i].flips < flips' \/ requests'[i].noticed = "error"
    <3>1. requests'[i].flips = requests[i].flips /\ Outstanding(i)
      BY <1>3, <1>4, <2>1 DEF Follows
    <3>2. i = swap \/ requests[i].flips < flips \/ requests[i].noticed = "error"
      BY <3>1 DEF IInv, WaitInv
    <3> QED BY <1>4, <1>5, <2>1, <3>1, <3>2
  <2> QED BY <1>2, <2>1 DEF WaitInv
<1>8. OneSwapInFlight'
  <2>1. ASSUME NEW i \in DOMAIN requests, NEW j \in DOMAIN requests, i < j,
               Outstanding(i)', Outstanding(j)'
        PROVE  requests'[i].flips # requests'[j].flips \/ requests'[i].noticed = "error"
    <3>1. requests[i].flips # requests[j].flips \/ requests[i].noticed = "error"
      BY <1>4, <2>1 DEF IInv, OneSwapInFlight
    <3> QED BY <1>3, <1>4, <2>1, <3>1 DEF Follows
  <2> QED BY <1>2, <2>1 DEF OneSwapInFlight
<1> QED BY <1>6, <1>7, <1>8 DEF IInv

(* What a request gets when it is asked, whatever is asked.                *)
OwnFields == {"status", "noticed", "paid", "got", "flips", "from", "to"}

(* What is asked comes after all that was asked before, unanswered.        *)
Added(r) ==
  LET n == Len(requests) + 1
      q == requests'[n]
  IN  /\ IsSequence' /\ Len(requests') = n
      /\ \A j \in 1 .. Len(requests) : requests'[j] = requests[j]
      /\ OwnFields \cup DOMAIN r \subseteq DOMAIN q
      /\ q.status = "asked" /\ q.noticed = "no" /\ q.flips = flips
      /\ q.from = tokenIn /\ q.to = tokenOut
      /\ \A f \in DOMAIN r : q[f] = r[f]

LEMMA AskedIsAdded ==
  ASSUME IsSequence, NEW r, Ask(r), OwnFields \cap DOMAIN r = {}
  PROVE  Added(r)
<1> DEFINE fresh == [status |-> "asked", noticed |-> "no", paid |-> 0, got |-> 0,
                      flips |-> flips, from |-> tokenIn, to |-> tokenOut]
           q == [f \in DOMAIN r \cup DOMAIN fresh |-> IF f \in DOMAIN r THEN r[f] ELSE fresh[f]]
           S == {requests[j] : j \in DOMAIN requests} \cup {q}
           n == Len(requests) + 1
<1>1. Len(requests) \in Nat /\ DOMAIN requests = 1 .. Len(requests)
  BY RequestsLength
<1>2. requests' = Append(requests, q)
  BY DEF Ask
<1>3. /\ OwnFields \cup DOMAIN r \subseteq DOMAIN q
      /\ q.status = "asked" /\ q.noticed = "no" /\ q.flips = flips
      /\ q.from = tokenIn /\ q.to = tokenOut
      /\ \A f \in DOMAIN r : q[f] = r[f]
  <2>1. DOMAIN fresh = OwnFields
    BY DEF OwnFields
  <2>2. /\ fresh["status"] = "asked" /\ fresh["noticed"] = "no" /\ fresh["flips"] = flips
        /\ fresh["from"] = tokenIn /\ fresh["to"] = tokenOut
    OBVIOUS
  <2> HIDE DEF fresh
  <2>3. \A f \in OwnFields : f \in DOMAIN q /\ q[f] = fresh[f]
    BY <2>1
  <2>4. {"status", "noticed", "flips", "from", "to"} \subseteq OwnFields
    BY DEF OwnFields
  <2> QED BY <2>2, <2>3, <2>4
<1> HIDE DEF q
<1>4. requests \in Seq(S)
  BY SeqMonotonic DEF IsSequence
<1>5. /\ requests' \in Seq(S) /\ Len(requests') = n
      /\ requests'[n] = q
      /\ \A j \in 1 .. Len(requests) : requests'[j] = requests[j]
  <2>1. q \in S
    OBVIOUS
  <2> HIDE DEF S
  <2> QED BY <1>1, <1>2, <1>4, <2>1, AppendProperties
<1>6. IsSequence'
  <2> DEFINE T == {requests'[j] : j \in DOMAIN requests'}
  <2>1. requests' \in [1 .. n -> S] /\ n \in Nat
    <3> HIDE DEF S
    <3> QED BY <1>1, <1>5, LenProperties
  <2>2. requests' \in [1 .. n -> T]
    BY <2>1
  <2>3. requests' \in Seq(T)
    <3> HIDE DEF T, n
    <3> QED BY <2>1, <2>2, SeqDef
  <2> QED BY <2>3 DEF IsSequence
<1> QED BY <1>3, <1>5, <1>6 DEF Added

(* The invariant survives a request: an approval, or a swap asked for      *)
(* while the button waits for none.                                        *)
LEMMA Asking ==
  ASSUME IInv, NEW r, Added(r), flips' = flips, "kind" \in DOMAIN r,
         (r.kind = "approve" /\ swap' = swap) \/ (~Busy /\ swap' = Len(requests'))
  PROVE  IInv'
<1> DEFINE n == Len(requests) + 1
<1>1. /\ Len(requests) \in Nat /\ DOMAIN requests = 1 .. Len(requests)
      /\ \A i \in DOMAIN requests : requests[i].flips \in Nat /\ requests[i].flips <= flips
      /\ flips \in Nat
  BY RequestsLength DEF IInv, RequestsInv, WellFormed
<1>2. /\ Len(requests') = n /\ DOMAIN requests' = 1 .. n
      /\ \A j \in DOMAIN requests : requests'[j] = requests[j]
  BY <1>1, LenProperties DEF Added, IsSequence
<1>3. /\ WellFormed(requests'[n]) /\ requests'[n].flips = flips
      /\ requests'[n].kind = r.kind /\ requests'[n].noticed = "no"
  BY <1>1 DEF Added, WellFormed, OwnFields
<1> HIDE DEF n
<1>4. n = Len(requests) + 1
  BY DEF n
<1>5. \A i \in DOMAIN requests : Outstanding(i)' <=> Outstanding(i)
  BY <1>2 DEF Outstanding
<1>6. ASSUME NEW i \in DOMAIN requests, Outstanding(i)
      PROVE  \/ r.kind = "approve" /\ swap' = swap /\ i = swap
             \/ requests[i].flips < flips
             \/ requests[i].noticed = "error"
  <2>1. ~Busy /\ requests[i].noticed # "error" => i # swap
    <3>1. requests[i].noticed \in {"no", "error"} /\ i # 0
      BY <1>1, <1>6 DEF Outstanding, Live, IInv, RequestsInv
    <3> QED BY <1>6, <3>1 DEF Busy, IsPending, IsLoading, Outstanding
  <2>2. i = swap \/ requests[i].flips < flips \/ requests[i].noticed = "error"
    BY <1>6 DEF IInv, WaitInv
  <2> QED BY <2>1, <2>2
<1>7. RequestsInv'
  BY <1>1, <1>2, <1>3, <1>4 DEF IInv, RequestsInv, Added
<1>8. WaitInv'
  <2>1. ASSUME NEW i \in 1 .. n, Outstanding(i)'
        PROVE  i = swap' \/ requests'[i].flips < flips' \/ requests'[i].noticed = "error"
    <3>1. CASE i \in DOMAIN requests
      BY <1>2, <1>5, <1>6, <2>1, <3>1
    <3>2. CASE i = n
      BY <1>2, <1>3, <2>1, <3>2 DEF Outstanding
    <3> QED BY <1>1, <1>4, <3>1, <3>2
  <2> QED BY <1>2, <2>1 DEF WaitInv
<1>9. OneSwapInFlight'
  <2>1. ASSUME NEW i \in 1 .. n, NEW j \in 1 .. n, i < j, Outstanding(i)', Outstanding(j)'
        PROVE  requests'[i].flips # requests'[j].flips \/ requests'[i].noticed = "error"
    <3>1. i \in DOMAIN requests /\ requests'[i] = requests[i] /\ Outstanding(i)
      BY <1>1, <1>2, <1>4, <1>5, <2>1
    <3>2. CASE j \in DOMAIN requests
      BY <1>2, <1>5, <2>1, <3>1, <3>2 DEF IInv, OneSwapInFlight
    <3>3. CASE j = n
      <4>1. r.kind # "approve"
        BY <1>3, <2>1, <3>3 DEF Outstanding
      <4> QED BY <1>1, <1>3, <1>6, <3>1, <3>3, <4>1
    <3> QED BY <1>1, <1>4, <3>2, <3>3
  <2> QED BY <1>2, <2>1 DEF OneSwapInFlight
<1> QED BY <1>7, <1>8, <1>9 DEF IInv

-----------------------------------------------------------------------------
(* What happens to a request after it was asked: the wallet answers, it is *)
(* over, and the page notices or is told that it failed.                   *)
LEMMA IsAnswered ==
  ASSUME RequestsInv, NEW i, NEW v, requests[i].status = "asked" \/ v \notin {"asked", "sent"},
         requests' = [requests EXCEPT ![i].status = v]
  PROVE  SameRequests
<1> DEFINE q == [requests[i] EXCEPT !.status = v]
<1>1. requests' = [requests EXCEPT ![i] = q]
  OBVIOUS
<1>2. ASSUME i \in DOMAIN requests
      PROVE  Follows(q, requests[i])
  BY <1>2 DEF RequestsInv, WellFormed, Follows, Live
<1> HIDE DEF q
<1> QED BY <1>1, <1>2, OneChanges

LEMMA IsMined ==
  ASSUME RequestsInv, NEW i, NEW a, NEW b,
         requests' = [requests EXCEPT ![i].status = "mined", ![i].paid = a, ![i].got = b]
  PROVE  SameRequests
<1> DEFINE q == [requests[i] EXCEPT !.status = "mined", !.paid = a, !.got = b]
<1>1. requests' = [requests EXCEPT ![i] = q]
  OBVIOUS
<1>2. ASSUME i \in DOMAIN requests
      PROVE  Follows(q, requests[i])
  BY <1>2 DEF RequestsInv, WellFormed, Follows, Live
<1> HIDE DEF q
<1> QED BY <1>1, <1>2, OneChanges

LEMMA IsNoticed ==
  ASSUME RequestsInv, NEW i, ReceiptSays(i)
  PROVE  SameRequests
<1>1. CASE requests[i].status = "mined" /\ requests' = [requests EXCEPT ![i].noticed = "success"]
  <2> DEFINE q == [requests[i] EXCEPT !.noticed = "success"]
  <2>1. requests' = [requests EXCEPT ![i] = q]
    BY <1>1
  <2>2. ASSUME i \in DOMAIN requests
        PROVE  Follows(q, requests[i])
    BY <1>1, <2>2 DEF RequestsInv, WellFormed, Follows, Live
  <2> HIDE DEF q
  <2> QED BY <2>1, <2>2, OneChanges
<1>2. CASE requests' = [requests EXCEPT ![i].noticed = "error"]
  <2> DEFINE q == [requests[i] EXCEPT !.noticed = "error"]
  <2>1. requests' = [requests EXCEPT ![i] = q]
    BY <1>2
  <2>2. ASSUME i \in DOMAIN requests
        PROVE  Follows(q, requests[i])
    BY <2>2 DEF RequestsInv, WellFormed, Follows, Live
  <2> HIDE DEF q
  <2> QED BY <2>1, <2>2, OneChanges
<1> QED BY <1>1, <1>2 DEF ReceiptSays

LEMMA InitIInv == Init => IInv
<1> SUFFICES ASSUME Init PROVE IInv
  OBVIOUS
<1>1. requests = <<>> /\ flips = 0
  BY DEF Init
<1>2. IsSequence /\ DOMAIN requests = {}
  BY <1>1, EmptySeq DEF IsSequence
<1> QED BY <1>1, <1>2 DEF IInv, RequestsInv, WaitInv, OneSwapInFlight

LEMMA ApproveStep ==
  ASSUME IInv, Approve
  PROVE  IInv'
<1> DEFINE quote == QuoteOf(Route, typed.side)
           r == [kind |-> "approve", amount |-> ApprovedAmount(quote), quote |-> quote]
<1>1. Ask(r) /\ flips' = flips /\ swap' = swap
  BY DEF Approve, form
<1>2. DOMAIN r = {"kind", "amount", "quote"} /\ r.kind = "approve"
  OBVIOUS
<1> HIDE DEF r
<1>3. Added(r)
  BY <1>1, <1>2, AskedIsAdded DEF IInv, RequestsInv, OwnFields
<1> QED BY <1>1, <1>2, <1>3, Asking

LEMMA SubmitStep ==
  ASSUME IInv, Submit
  PROVE  IInv'
<1> DEFINE quote == QuoteOf(Route, typed.side)
           told == CallArguments(quote, typed.side)
           r == [kind |-> "swap", side |-> typed.side, quote |-> quote,
                 amount |-> told.amount, limit |-> told.limit, value |-> told.value]
<1>1. Ask(r) /\ flips' = flips /\ swap' = Len(requests') /\ ~Busy
  BY DEF Submit, Blocked, form
<1>2. DOMAIN r = {"kind", "side", "quote", "amount", "limit", "value"} /\ r.kind = "swap"
  OBVIOUS
<1> HIDE DEF r
<1>3. Added(r)
  BY <1>1, <1>2, AskedIsAdded DEF IInv, RequestsInv, OwnFields
<1> QED BY <1>1, <1>2, <1>3, Asking

(* Everything else asks for nothing.                                       *)
LEMMA QuietStep ==
  ASSUME IInv, SameRequests, flips' = flips, swap' = swap
  PROVE  IInv'
<1>1. flips \in Nat
  BY DEF IInv, RequestsInv
<1> QED BY <1>1, Keeping

LEMMA UserStep ==
  ASSUME IInv, User
  PROVE  IInv'
<1>1. CASE \/ \E side \in {"in", "out"}, value \in Amounts : TypeAmount(side, value)
           \/ \E t \in Token : SelectTokenOut(t)
           \/ SwitchNetwork
  <2>1. UNCHANGED requests /\ flips' = flips /\ swap' = swap
    BY <1>1 DEF TypeAmount, SelectTokenOut, SwitchNetwork, walletApp, hooks, form
  <2> QED BY <2>1, NoneChanges, QuietStep DEF IInv
<1>2. CASE Flip
  <2>1. UNCHANGED requests /\ flips' = flips + 1
    BY <1>2 DEF Flip, walletApp
  <2>2. flips \in Nat /\ SameRequests
    BY <2>1, NoneChanges DEF IInv, RequestsInv
  <2> QED BY <2>1, <2>2, Keeping
<1>3. ASSUME NEW i, WalletConfirms(i) \/ WalletRefuses(i)
      PROVE  IInv'
  <2>1. /\ requests[i].status = "asked" /\ flips' = flips /\ swap' = swap
        /\ \E v : requests' = [requests EXCEPT ![i].status = v]
    BY <1>3 DEF WalletConfirms, WalletRefuses, form, hooks
  <2> QED BY <2>1, IsAnswered, QuietStep DEF IInv
<1> QED BY <1>1, <1>2, <1>3, ApproveStep, SubmitStep DEF User

LEMMA EnvironmentStep ==
  ASSUME IInv, Environment
  PROVE  IInv'
<1>1. flips' = flips /\ swap' = swap
  BY DEF Environment, MineSwap, MineApproval, OthersTrade, form, hooks
<1>2. CASE MineSwap
  <2> DEFINE i == Head(queue)
  <2>1. \/ requests' = [requests EXCEPT ![i].status = "reverted"]
        \/ \E a, b : requests' = [requests EXCEPT ![i].status = "mined", ![i].paid = a, ![i].got = b]
    BY <1>2 DEF MineSwap, Executes
  <2> HIDE DEF i
  <2>2. SameRequests
    BY <2>1, IsAnswered, IsMined DEF IInv
  <2> QED BY <1>1, <2>2, QuietStep
<1>3. CASE MineApproval
  <2> DEFINE i == Head(queue)
  <2>1. requests' = [requests EXCEPT ![i].status = "mined"]
    BY <1>3 DEF MineApproval
  <2> HIDE DEF i
  <2>2. SameRequests
    BY <2>1, IsAnswered DEF IInv
  <2> QED BY <1>1, <2>2, QuietStep
<1>4. CASE \E t \in Trades : OthersTrade(t.pair, t.token, t.amount)
  <2>1. SameRequests
    BY <1>4, NoneChanges DEF OthersTrade, walletApp, IInv
  <2> QED BY <1>1, <2>1, QuietStep
<1> QED BY <1>2, <1>3, <1>4 DEF Environment

LEMMA PageStep ==
  ASSUME IInv, Page
  PROVE  IInv'
<1>1. flips' = flips /\ swap' = swap
  BY DEF Page, ReadPools, ReadAllowance, ReadBalances, NoticeSwap, NoticeApproval, form, hooks
<1>2. UNCHANGED requests \/ \E i : ReceiptSays(i)
  BY DEF Page, ReadPools, ReadAllowance, ReadBalances, NoticeSwap, NoticeApproval, walletApp
<1>3. SameRequests
  BY <1>2, NoneChanges, IsNoticed DEF IInv
<1> QED BY <1>1, <1>3, QuietStep

LEMMA NextIInv == IInv /\ [Next]_vars => IInv'
<1> SUFFICES ASSUME IInv, [Next]_vars PROVE IInv'
  OBVIOUS
<1>1. CASE UNCHANGED vars
  <2>1. UNCHANGED requests /\ flips' = flips /\ swap' = swap
    BY <1>1 DEF vars, walletApp, form, hooks
  <2> QED BY <2>1, NoneChanges, QuietStep DEF IInv
<1> QED BY <1>1, UserStep, EnvironmentStep, PageStep DEF Next

LEMMA Invariance == Spec => []IInv
BY InitIInv, NextIInv, PTL DEF Spec

(* The button of the swap card: a second swap is under way with a first    *)
(* only where the user flipped the form in between, or a failing node made *)
(* the page take the first for failed.                                     *)
THEOREM SwapsOneAtATime == Spec => []OneSwapInFlight
<1>1. IInv => OneSwapInFlight
  BY DEF IInv
<1> QED BY <1>1, Invariance, PTL

-----------------------------------------------------------------------------
(* Functions defined by recursion, and folds over sequences.               *)

(* What a step keeps within D stays there.                                 *)
LEMMA StaysIn ==
  ASSUME NEW n \in Nat, NEW f, NEW D, f[1] \in D,
         \A i \in 1 .. n - 1 : f[i] \in D => f[i + 1] \in D
  PROVE  \A i \in 1 .. n : f[i] \in D
<1> DEFINE S == {k \in Nat : k + 1 \in 1 .. n => f[k + 1] \in D}
<1>1. 0 \in S
  BY SMT
<1>2. ASSUME NEW k \in 0 .. n - 1, k \in S PROVE k + 1 \in S
  <2>1. k \in Nat /\ k + 1 \in Nat
    BY SMT
  <2> SUFFICES ASSUME (k + 1) + 1 \in 1 .. n PROVE f[(k + 1) + 1] \in D
    BY <2>1
  <2>2. k + 1 \in 1 .. n - 1 /\ k + 1 \in 1 .. n
    BY <2>1, SMT
  <2>3. f[k + 1] \in D
    BY <1>2, <2>2
  <2> QED BY <2>2, <2>3
<1>3. \A k \in 0 .. n : k \in S
  <2> HIDE DEF S
  <2> QED BY <1>1, <1>2, UpTo
<1> SUFFICES ASSUME NEW i \in 1 .. n PROVE f[i] \in D
  OBVIOUS
<1>4. i - 1 \in 0 .. n /\ (i - 1) + 1 = i
  BY SMT
<1> QED BY <1>3, <1>4

(* A recursive function that goes down exists as one that goes up does,    *)
Descends(f, n, D, b, G) ==
  /\ f \in [1 .. n -> D]
  /\ n >= 1 => f[n] = b
  /\ \A i \in 1 .. n - 1 : f[i] = G[<<i, f[i + 1]>>]

LEMMA RecursionDown ==
  ASSUME NEW n \in Nat, n >= 1, NEW D, NEW b \in D, NEW G \in [(1 .. n) \X D -> D]
  PROVE  \E f : Descends(f, n, D, b, G)
<1>1. PICK H \in [(1 .. n) \X D -> D] :
        \A i \in 1 .. n, d \in D : n - i \in 1 .. n => H[<<i, d>>] = G[<<n - i, d>>]
  <2> DEFINE K == [z \in (1 .. n) \X D |-> IF n - z[1] \in 1 .. n THEN G[<<n - z[1], z[2]>>] ELSE z[2]]
  <2>1. ASSUME NEW z \in (1 .. n) \X D
        PROVE  (IF n - z[1] \in 1 .. n THEN G[<<n - z[1], z[2]>>] ELSE z[2]) \in D
    <3>1. z[2] \in D
      OBVIOUS
    <3>2. n - z[1] \in 1 .. n => <<n - z[1], z[2]>> \in (1 .. n) \X D
      BY <3>1
    <3> QED BY <3>1, <3>2
  <2>2. K \in [(1 .. n) \X D -> D]
    BY <2>1
  <2>3. \A i \in 1 .. n, d \in D : n - i \in 1 .. n => K[<<i, d>>] = G[<<n - i, d>>]
    OBVIOUS
  <2> QED BY <2>2, <2>3
<1>2. PICK h \in [1 .. n -> D] : h[1] = b /\ \A i \in 1 .. n - 1 : h[i + 1] = H[<<i, h[i]>>]
  <2>1. \E h : Climbs(h, n, D, b, H)
    BY Recursion
  <2> QED BY <2>1 DEF Climbs
<1> DEFINE f == [i \in 1 .. n |-> h[(n + 1) - i]]
<1>3. \A i \in 1 .. n : (n + 1) - i \in 1 .. n
  BY SMT
<1>4. f \in [1 .. n -> D]
  BY <1>3
<1>5. f[n] = b
  <2>1. n \in 1 .. n /\ (n + 1) - n = 1
    BY SMT
  <2> QED BY <1>2, <2>1
<1>6. ASSUME NEW i \in 1 .. n - 1 PROVE f[i] = G[<<i, f[i + 1]>>]
  <2> DEFINE j == n - i
  <2>1. /\ j \in 1 .. n - 1 /\ j \in 1 .. n /\ n - j = i /\ i \in 1 .. n /\ i + 1 \in 1 .. n
        /\ (n + 1) - i = j + 1 /\ (n + 1) - (i + 1) = j
    BY SMT
  <2> HIDE DEF j
  <2>2. f[i] = h[j + 1] /\ f[i + 1] = h[j]
    BY <2>1
  <2>3. h[j + 1] = H[<<j, h[j]>>] /\ h[j] \in D
    BY <1>2, <2>1
  <2>4. <<j, h[j]>> \in (1 .. n) \X D
    BY <2>1, <2>3
  <2>5. H[<<j, h[j]>>] = G[<<i, h[j]>>]
    BY <1>1, <2>1, <2>3
  <2> QED BY <2>2, <2>3, <2>5
<1> QED BY <1>4, <1>5, <1>6 DEF Descends

(* and one on the sets of indices, as the folds of SequencesExt are.       *)
LEMMA MaxOf ==
  ASSUME NEW s, NEW m \in s, \A y \in s : m \in Int /\ y \in Int /\ y <= m
  PROVE  Seqs!Max(s) = m
<1>1. \A y \in s : m >= y
  BY SMT
<1>2. \A x \in s : (\A y \in s : x >= y) => x = m
  <2> SUFFICES ASSUME NEW x \in s, \A y \in s : x >= y PROVE x = m
    OBVIOUS
  <2>1. x >= m /\ x \in Int /\ m \in Int /\ x <= m
    OBVIOUS
  <2> QED BY <2>1, SMT
<1> QED BY <1>1, <1>2 DEF Seqs!Max

LEMMA MaxUpTo ==
  ASSUME NEW k \in Nat, NEW s \in SUBSET (1 .. k + 1), k + 1 \in s
  PROVE  Seqs!Max(s) = k + 1 /\ s \ {k + 1} \in SUBSET (1 .. k)
<1>1. \A y \in 1 .. k + 1 : k + 1 \in Int /\ y \in Int /\ y <= k + 1
  BY SMT
<1>2. \A y \in 1 .. k + 1 : y = k + 1 \/ y \in 1 .. k
  BY SMT
<1> QED BY <1>1, <1>2, MaxOf

LEMMA MaxIn ==
  ASSUME NEW k \in Nat, NEW s \in SUBSET (1 .. k), s # {}
  PROVE  Seqs!Max(s) \in s
<1> DEFINE S == {j \in Nat : \A z \in SUBSET (1 .. j) : z # {} => Seqs!Max(z) \in z}
<1>1. 0 \in S
  <2>1. \A i \in 1 .. 0 : FALSE
    BY SMT
  <2> QED BY <2>1
<1>2. ASSUME NEW j \in 0 .. k - 1, j \in S PROVE j + 1 \in S
  <2>1. j \in Nat /\ j + 1 \in Nat
    BY SMT
  <2> SUFFICES ASSUME NEW z \in SUBSET (1 .. j + 1), z # {} PROVE Seqs!Max(z) \in z
    BY <2>1
  <2>2. CASE j + 1 \in z
    BY <2>1, <2>2, MaxUpTo
  <2>3. CASE j + 1 \notin z
    <3>1. \A y \in 1 .. j + 1 : y = j + 1 \/ y \in 1 .. j
      BY <2>1, SMT
    <3>2. z \in SUBSET (1 .. j)
      BY <2>3, <3>1
    <3> QED BY <1>2, <3>2
  <2> QED BY <2>2, <2>3
<1>3. k \in 0 .. k
  BY SMT
<1>4. k \in S
  <2> HIDE DEF S
  <2> QED BY <1>1, <1>2, <1>3, UpTo
<1> QED BY <1>4

Folds(f, n, D, b, G) ==
  /\ f \in [SUBSET (1 .. n) -> D]
  /\ f[{}] = b
  /\ \A s \in SUBSET (1 .. n) :
       s # {} => f[s] = G[<<Seqs!Max(s), f[s \ {Seqs!Max(s)}]>>]

LEMMA FoldExists ==
  ASSUME NEW n \in Nat, NEW D, NEW b \in D, NEW G \in [(1 .. n) \X D -> D]
  PROVE  \E f : Folds(f, n, D, b, G)
<1> DEFINE Is(f, k) == /\ f \in [SUBSET (1 .. k) -> D]
                       /\ f[{}] = b
                       /\ \A s \in SUBSET (1 .. k) :
                            s # {} => f[s] = G[<<Seqs!Max(s), f[s \ {Seqs!Max(s)}]>>]
           S == {k \in Nat : \E f : Is(f, k)}
<1>1. 0 \in S
  <2> DEFINE e == [s \in SUBSET (1 .. 0) |-> b]
  <2>1. \A i \in 1 .. 0 : FALSE
    BY SMT
  <2>2. {} \in SUBSET (1 .. 0) /\ \A s \in SUBSET (1 .. 0) : s = {}
    BY <2>1
  <2>3. Is(e, 0)
    BY <2>2
  <2> QED BY <2>3
<1>2. ASSUME NEW k \in 0 .. n - 1, k \in S PROVE k + 1 \in S
  <2>1. PICK f : Is(f, k)
    BY <1>2
  <2>2. k \in Nat /\ k + 1 \in Nat /\ k + 1 \in 1 .. n
    BY SMT
  <2>3. /\ \A i \in 1 .. k : i \in 1 .. k + 1 /\ i # k + 1
        /\ \A i \in 1 .. k + 1 : i = k + 1 \/ i \in 1 .. k
    BY <2>2, SMT
  <2> DEFINE g == [s \in SUBSET (1 .. k + 1) |->
                     IF k + 1 \in s THEN G[<<k + 1, f[s \ {k + 1}]>>] ELSE f[s]]
  <2>4. \A s \in SUBSET (1 .. k + 1) : k + 1 \notin s => s \in SUBSET (1 .. k)
    BY <2>3
  <2>5. \A s \in SUBSET (1 .. k) : s \in SUBSET (1 .. k + 1) /\ k + 1 \notin s
    BY <2>3
  <2>6. \A s \in SUBSET (1 .. k + 1) : s \ {k + 1} \in SUBSET (1 .. k)
    BY <2>3
  <2>7. \A s \in SUBSET (1 .. k) : g[s] = f[s]
    BY <2>5
  <2>8. g \in [SUBSET (1 .. k + 1) -> D]
    <3>1. \A s \in SUBSET (1 .. k + 1) : k + 1 \in s => G[<<k + 1, f[s \ {k + 1}]>>] \in D
      BY <2>1, <2>2, <2>6
    <3>2. \A s \in SUBSET (1 .. k + 1) : k + 1 \notin s => f[s] \in D
      BY <2>1, <2>4
    <3> QED BY <3>1, <3>2
  <2>9. \A s \in SUBSET (1 .. k + 1) : k + 1 \in s => g[s] = G[<<k + 1, f[s \ {k + 1}]>>]
    OBVIOUS
  <2> HIDE DEF g
  <2>10. g[{}] = b
    BY <2>1, <2>7
  <2>11. ASSUME NEW s \in SUBSET (1 .. k + 1), s # {}
         PROVE  g[s] = G[<<Seqs!Max(s), g[s \ {Seqs!Max(s)}]>>]
    <3>1. CASE k + 1 \in s
      <4>1. Seqs!Max(s) = k + 1 /\ s \ {k + 1} \in SUBSET (1 .. k)
        BY <2>2, <3>1, MaxUpTo
      <4>2. g[s \ {k + 1}] = f[s \ {k + 1}]
        BY <2>7, <4>1
      <4> QED BY <2>9, <3>1, <4>1, <4>2
    <3>2. CASE k + 1 \notin s
      <4>1. s \in SUBSET (1 .. k) /\ s \ {Seqs!Max(s)} \in SUBSET (1 .. k)
        BY <2>4, <3>2
      <4>2. g[s] = f[s] /\ g[s \ {Seqs!Max(s)}] = f[s \ {Seqs!Max(s)}]
        BY <2>7, <4>1
      <4> QED BY <2>1, <2>11, <4>1, <4>2
    <3> QED BY <3>1, <3>2
  <2>12. Is(g, k + 1)
    BY <2>8, <2>10, <2>11
  <2> QED BY <2>2, <2>12
<1>3. n \in 0 .. n
  BY SMT
<1>4. n \in S
  <2> HIDE DEF S
  <2> QED BY <1>1, <1>2, <1>3, UpTo
<1> QED BY <1>4 DEF Folds

LEMMA Segments ==
  ASSUME NEW n \in Nat, NEW k \in 0 .. n - 1
  PROVE  /\ 1 .. k + 1 \in SUBSET (1 .. n) /\ 1 .. k + 1 # {} /\ k + 1 \in 1 .. n
         /\ Seqs!Max(1 .. k + 1) = k + 1
         /\ (1 .. k + 1) \ {k + 1} = 1 .. k
         /\ k \in Nat
<1>1. k \in Nat /\ k + 1 \in 1 .. k + 1 /\ k + 1 \in 1 .. n /\ 1 .. k + 1 \in SUBSET (1 .. n)
  BY SMT
<1>2. (1 .. k + 1) \ {k + 1} = 1 .. k
  BY <1>1, SMT
<1>3. 1 .. k + 1 \in SUBSET (1 .. k + 1)
  OBVIOUS
<1>4. Seqs!Max(1 .. k + 1) = k + 1
  BY <1>1, <1>3, MaxUpTo
<1> QED BY <1>1, <1>2, <1>4

(* What FlattenSeq leaves.                                                 *)
FlattenStep(f, ss, i) == IF i = 1 THEN ss[i] ELSE f[i - 1] \o ss[i]

LEMMA FlattenIs ==
  ASSUME NEW ss, Len(ss) # 0
  PROVE  Seqs!FlattenSeq(ss) =
           (CHOOSE f : f = [i \in 1 .. Len(ss) |-> FlattenStep(f, ss, i)])[Len(ss)]
BY DEF Seqs!FlattenSeq, FlattenStep

LEMMA FlattenElements ==
  ASSUME NEW T, NEW ss \in Seq(Seq(T))
  PROVE  /\ Seqs!FlattenSeq(ss) \in Seq(T)
         /\ \A x : x \in Seqs!ToSet(Seqs!FlattenSeq(ss)) <=> \E i \in DOMAIN ss : x \in Seqs!ToSet(ss[i])
<1> DEFINE n == Len(ss)
           Is(f) == f = [i \in 1 .. n |-> FlattenStep(f, ss, i)]
           D == Seq(T)
           G == [z \in (1 .. n) \X D |-> IF z[1] + 1 \in 1 .. n THEN z[2] \o ss[z[1] + 1] ELSE z[2]]
           g == CHOOSE f : Is(f)
<1>1. n \in Nat /\ DOMAIN ss = 1 .. n /\ \A i \in 1 .. n : ss[i] \in Seq(T)
  BY LenProperties, ElementOfSeq
<1>2. CASE n = 0
  <2>1. ss = <<>> /\ \A i \in 1 .. n : FALSE
    BY <1>1, <1>2, EmptySeq
  <2>2. Seqs!FlattenSeq(ss) = ss
    BY <1>2 DEF Seqs!FlattenSeq
  <2>3. Seqs!ToSet(ss) = {}
    BY <1>1, <2>1 DEF Seqs!ToSet
  <2> QED BY <1>1, <2>1, <2>2, <2>3, EmptySeq
<1>3. CASE n # 0
  <2>1. Seqs!FlattenSeq(ss) = g[n]
    BY <1>3, FlattenIs
  <2>2. 1 \in 1 .. n /\ n \in 1 .. n
    BY <1>1, <1>3, SMT
  <2>3. G \in [(1 .. n) \X D -> D]
    <3>1. ASSUME NEW z \in (1 .. n) \X D
          PROVE  (IF z[1] + 1 \in 1 .. n THEN z[2] \o ss[z[1] + 1] ELSE z[2]) \in D
      <4>1. z[2] \in Seq(T)
        OBVIOUS
      <4>2. ASSUME z[1] + 1 \in 1 .. n PROVE z[2] \o ss[z[1] + 1] \in Seq(T)
        <5>1. ss[z[1] + 1] \in Seq(T)
          BY <1>1, <4>2
        <5> QED BY <4>1, <5>1, ConcatProperties
      <4> QED BY <4>1, <4>2
    <3> QED BY <3>1
  <2>4. ss[1] \in D
    BY <1>1, <2>2
  <2>5. \E f : Is(f)
    <3>1. PICK f : Climbs(f, n, D, ss[1], G)
      <4> HIDE DEF D, G, n
      <4> QED BY <1>1, <2>3, <2>4, Recursion
    <3>2. ASSUME NEW i \in 1 .. n
          PROVE  f[i] = FlattenStep(f, ss, i)
      <4>1. CASE i = 1
        BY <1>1, <3>1, <4>1 DEF Climbs, FlattenStep
      <4>2. CASE i # 1
        <5>1. i - 1 \in 1 .. n - 1 /\ i - 1 \in 1 .. n /\ (i - 1) + 1 = i
          BY <1>1, <4>2, SMT
        <5>2. f[i] = G[<<i - 1, f[i - 1]>>] /\ f[i - 1] \in D
          BY <3>1, <5>1 DEF Climbs
        <5>3. f[i] = f[i - 1] \o ss[i]
          BY <5>1, <5>2
        <5> QED BY <4>2, <5>3 DEF FlattenStep
      <4> QED BY <4>1, <4>2
    <3> QED BY <3>1, <3>2 DEF Climbs
  <2>6. Is(g)
    <3> HIDE DEF Is
    <3> QED BY <2>5
  <2>7. g[1] = ss[1] /\ \A k \in 1 .. n - 1 : g[k + 1] = g[k] \o ss[k + 1]
    <3>1. \A i \in 1 .. n : g[i] = FlattenStep(g, ss, i)
      <4> HIDE DEF g
      <4> QED BY <2>6
    <3>2. \A k \in 1 .. n - 1 : k + 1 \in 1 .. n /\ k + 1 # 1 /\ (k + 1) - 1 = k
      BY <1>1, SMT
    <3> HIDE DEF g
    <3> QED BY <2>2, <3>1, <3>2 DEF FlattenStep
  <2> HIDE DEF g, n, D, G
  <2> DEFINE Q == {k \in Nat : k + 1 \in 1 .. n =>
                     /\ g[k + 1] \in Seq(T)
                     /\ \A x : x \in Seqs!ToSet(g[k + 1]) <=> \E i \in 1 .. k + 1 : x \in Seqs!ToSet(ss[i])}
  <2>8. 0 \in Q
    <3>1. 0 + 1 = 1 /\ 0 \in Nat /\ 1 .. 1 = {1}
      BY SMT
    <3> QED BY <1>1, <2>2, <2>7, <3>1
  <2>9. ASSUME NEW k \in 0 .. n - 1, k \in Q PROVE k + 1 \in Q
    <3>1. k \in Nat /\ k + 1 \in Nat /\ k + 1 \in 1 .. n
      BY <1>1, SMT
    <3> SUFFICES ASSUME (k + 1) + 1 \in 1 .. n
                 PROVE  /\ g[(k + 1) + 1] \in Seq(T)
                        /\ \A x : x \in Seqs!ToSet(g[(k + 1) + 1]) <=> \E i \in 1 .. (k + 1) + 1 : x \in Seqs!ToSet(ss[i])
      BY <3>1
    <3>2. k + 1 \in 1 .. n - 1
      BY <1>1, <3>1, SMT
    <3> DEFINE m == k + 1
    <3>3. g[m] \in Seq(T) /\ \A x : x \in Seqs!ToSet(g[m]) <=> \E i \in 1 .. m : x \in Seqs!ToSet(ss[i])
      BY <2>9, <3>1
    <3>4. m \in 1 .. n - 1 /\ m \in Nat /\ m + 1 \in 1 .. n
      BY <3>1, <3>2
    <3> HIDE DEF m
    <3>5. g[m + 1] = g[m] \o ss[m + 1] /\ ss[m + 1] \in Seq(T)
      BY <1>1, <2>7, <3>4
    <3>6. g[m + 1] \in Seq(T) /\ Seqs!ToSet(g[m + 1]) = Seqs!ToSet(g[m]) \cup Seqs!ToSet(ss[m + 1])
      BY <3>3, <3>5, ConcatElements
    <3>7. \A i : i \in 1 .. m + 1 <=> i \in 1 .. m \/ i = m + 1
      BY <3>4, SMT
    <3>8. \A x : x \in Seqs!ToSet(g[m + 1]) <=> \E i \in 1 .. m + 1 : x \in Seqs!ToSet(ss[i])
      BY <3>3, <3>6, <3>7
    <3> QED BY <3>6, <3>8 DEF m
  <2>10. n - 1 \in 0 .. n /\ n - 1 \in Nat /\ (n - 1) + 1 = n
    BY <1>1, <1>3, SMT
  <2>11. n - 1 \in Q
    <3> HIDE DEF Q
    <3> QED BY <1>1, <2>8, <2>9, <2>10, UpTo
  <2> DEFINE l == n - 1
  <2>12. l \in Q /\ l + 1 = n
    BY <2>10, <2>11
  <2> HIDE DEF l
  <2>13. g[n] \in Seq(T) /\ \A x : x \in Seqs!ToSet(g[n]) <=> \E i \in 1 .. n : x \in Seqs!ToSet(ss[i])
    BY <2>2, <2>12
  <2> QED BY <1>1, <2>1, <2>13
<1> QED BY <1>2, <1>3

-----------------------------------------------------------------------------
(* The paths the search goes through, and the quotes along them.           *)

(* The simple paths from a to b over at most two of the hubs U.            *)
Through(a, b, U) ==
  {<<a, b>>} \cup {<<a, h, b>> : h \in U}
    \cup {p \in {<<a, h, k, b>> : h \in U, k \in U} : p[2] # p[3]}

(* The candidates of the search are exactly those paths.                   *)
LEMMA CandidatesAre ==
  ASSUME Hubs \in Seq(Nat), NEW tIn, NEW tOut, RoutedAddress(tIn) \in Nat, RoutedAddress(tOut) \in Nat
  PROVE  LET a == RoutedAddress(tIn)
             b == RoutedAddress(tOut)
             cs == Candidates(tIn, tOut)
         IN  /\ cs \in Seq(Seq(Nat))
             /\ a # b => Seqs!ToSet(cs) = Through(a, b, Seqs!ToSet(Hubs) \ {a, b})
             /\ a = b => Seqs!ToSet(cs) = {}
<1> DEFINE a == RoutedAddress(tIn)
           b == RoutedAddress(tOut)
           cs == Candidates(tIn, tOut)
           hubs == UsableHubs(tIn, tOut)
           I == DOMAIN hubs
           one == [i \in I |-> <<a, hubs[i], b>>]
           inner(i) == [j \in I |-> <<a, hubs[i], hubs[j], b>>]
           ss == [i \in I |-> inner(i)]
           two == Seqs!FlattenSeq(ss)
           back == {<<a, hubs[i], hubs[i], b>> : i \in I}
           T == Seq(Nat)
           U == Seqs!ToSet(Hubs) \ {a, b}
           pairs == {p \in {<<a, h, k, b>> : h \in U, k \in U} : p[2] # p[3]}
<1>1. hubs \in Seq(Nat) /\ Seqs!ToSet(hubs) = U
  BY WithoutPicks DEF UsableHubs
<1>2. a \in Nat /\ b \in Nat
  OBVIOUS
<1>3. cs = IF a = b THEN <<>> ELSE <<<<a, b>>>> \o one \o Without(two, back)
  BY DEF Candidates
<1> HIDE DEF a, b, cs, hubs
<1>4. Len(hubs) \in Nat /\ I = 1 .. Len(hubs) /\ \A i \in I : hubs[i] \in Nat
  BY <1>1, LenProperties, ElementOfSeq
<1>5. /\ <<a, b>> \in T
      /\ \A h \in Nat : <<a, h, b>> \in T
      /\ \A h \in Nat, k \in Nat : <<a, h, k, b>> \in T
  BY <1>2
<1> HIDE DEF T
<1>6. \A F \in [I -> T] : F \in Seq(T)
  BY <1>4, SeqDef
<1>7. one \in Seq(T) /\ Seqs!ToSet(one) = {<<a, h, b>> : h \in U}
  <2>1. one \in [I -> T]
    BY <1>4, <1>5
  <2>2. Seqs!ToSet(one) = {<<a, hubs[i], b>> : i \in I}
    BY DEF Seqs!ToSet
  <2>3. {<<a, hubs[i], b>> : i \in I} = {<<a, h, b>> : h \in U}
    <3>1. U = {hubs[i] : i \in I}
      BY <1>1 DEF Seqs!ToSet
    <3> HIDE DEF U
    <3> QED BY <3>1
  <2> QED BY <1>6, <2>1, <2>2, <2>3
<1>8. ss \in Seq(Seq(T))
  <2>1. ASSUME NEW i \in I
        PROVE  inner(i) \in Seq(T)
    <3> DEFINE f == inner(i)
    <3>1. f \in [I -> T]
      BY <1>4, <1>5
    <3> HIDE DEF f
    <3>2. f \in Seq(T)
      BY <1>6, <3>1
    <3> QED BY <3>2 DEF f
  <2>2. ss \in [I -> Seq(T)]
    BY <2>1
  <2> DEFINE V == Seq(T)
             n == Len(hubs)
  <2>3. n \in Nat /\ ss \in [1 .. n -> V]
    BY <1>4, <2>2
  <2> HIDE DEF ss, V, n
  <2>4. ss \in Seq(V)
    BY <2>3, SeqDef
  <2> QED BY <2>4 DEF V
<1>9. two \in Seq(T) /\ \A x : x \in Seqs!ToSet(two) <=> \E i \in I : x \in Seqs!ToSet(inner(i))
  <2>1. DOMAIN ss = I /\ \A i \in I : ss[i] = inner(i)
    OBVIOUS
  <2> HIDE DEF ss, inner, I
  <2> QED BY <1>8, <2>1, FlattenElements
<1>10. \A x : x \in Seqs!ToSet(two) <=> \E h \in U, k \in U : x = <<a, h, k, b>>
  <2>1. \A i \in I : Seqs!ToSet(inner(i)) = {<<a, hubs[i], hubs[j], b>> : j \in I}
    BY DEF Seqs!ToSet
  <2>2. U = {hubs[i] : i \in I}
    BY <1>1 DEF Seqs!ToSet
  <2> HIDE DEF U, inner, two
  <2> QED BY <1>9, <2>1, <2>2
<1>11. Without(two, back) \in Seq(T) /\ Seqs!ToSet(Without(two, back)) = Seqs!ToSet(two) \ back
  <2> HIDE DEF two, back
  <2> QED BY <1>9, WithoutPicks
<1>12. Seqs!ToSet(two) \ back = pairs
  <2>1. \A x : x \in back <=> \E h \in U : x = <<a, h, h, b>>
    <3>1. U = {hubs[i] : i \in I}
      BY <1>1 DEF Seqs!ToSet
    <3> HIDE DEF U
    <3> QED BY <3>1
  <2> HIDE DEF U, two, back
  <2>2. \A h \in U, k \in U : /\ <<a, h, k, b>>[2] = h /\ <<a, h, k, b>>[3] = k
                              /\ (\E l \in U : <<a, h, k, b>> = <<a, l, l, b>>) <=> h = k
    OBVIOUS
  <2>3. \A h \in U, k \in U : <<a, h, k, b>> \in back <=> h = k
    BY <2>1, <2>2
  <2> QED BY <1>10, <2>2, <2>3
<1>13. <<<<a, b>>>> \in Seq(T) /\ Seqs!ToSet(<<<<a, b>>>>) = {<<a, b>>}
  <2> DEFINE d == <<a, b>>
  <2>1. d \in T
    BY <1>5
  <2> HIDE DEF d
  <2>2. <<d>> \in Seq(T) /\ DOMAIN <<d>> = {1} /\ <<d>>[1] = d
    BY <2>1
  <2>3. Seqs!ToSet(<<d>>) = {d}
    BY <2>2 DEF Seqs!ToSet
  <2> QED BY <2>2, <2>3 DEF d
<1> HIDE DEF U, two, back, one, pairs
<1> DEFINE direct == <<<<a, b>>>>
           rest == Without(two, back)
<1>14. direct \in Seq(T) /\ Seqs!ToSet(direct) = {<<a, b>>}
  BY <1>13
<1>15. /\ rest \in Seq(T)
       /\ Seqs!ToSet(rest) = pairs
  BY <1>11, <1>12, Zenon
<1>16. cs = IF a = b THEN <<>> ELSE direct \o one \o rest
  BY <1>3, Zenon
<1> HIDE DEF direct, rest
<1>17. direct \o one \in Seq(T) /\ Seqs!ToSet(direct \o one) = Seqs!ToSet(direct) \cup Seqs!ToSet(one)
  BY <1>7, <1>14, ConcatElements
<1> DEFINE front == direct \o one
<1>18. front \in Seq(T) /\ Seqs!ToSet(front) = Seqs!ToSet(direct) \cup Seqs!ToSet(one)
  BY <1>17
<1>19. cs = IF a = b THEN <<>> ELSE front \o rest
  BY <1>16
<1> HIDE DEF front
<1>20. front \o rest \in Seq(T) /\ Seqs!ToSet(front \o rest) = Seqs!ToSet(front) \cup Seqs!ToSet(rest)
  BY <1>15, <1>18, ConcatElements
<1>21. <<>> \in Seq(T) /\ Seqs!ToSet(<<>>) = {}
  <2>1. DOMAIN <<>> = {}
    BY EmptySeq
  <2> QED BY <2>1, EmptySeq DEF Seqs!ToSet
<1>22. cs \in Seq(T) /\ (a = b => Seqs!ToSet(cs) = {})
  BY <1>19, <1>20, <1>21
<1>23. a # b => Seqs!ToSet(cs) = Through(a, b, U)
  BY <1>7, <1>14, <1>15, <1>18, <1>19, <1>20 DEF Through, pairs
<1> QED BY <1>22, <1>23 DEF T, a, b, cs, U

(* Every hop of a path whose pairs are known has reserves.                 *)
LEMMA HopType ==
  ASSUME NEW ps, ps \in [DOMAIN ps -> Pool], NEW path, Pairs(path) \subseteq DOMAIN ps,
         NEW i \in 1 .. Len(path) - 1
  PROVE  /\ ComputePairAddress(path[i], path[i + 1]) \in DOMAIN ps
         /\ Hop(ps, path, i).reserveIn \in Nat /\ Hop(ps, path, i).reserveOut \in Nat
<1> DEFINE p == ComputePairAddress(path[i], path[i + 1])
<1>1. p \in DOMAIN ps
  BY DEF Pairs
<1>2. ps[p] \in Pool
  BY <1>1
<1> HIDE DEF p
<1>3. /\ Oriented(ps[p], path[i]).reserveIn \in Nat
      /\ Oriented(ps[p], path[i]).reserveOut \in Nat
  BY <1>2 DEF Oriented, Pool
<1> QED BY <1>1, <1>3 DEF Hop, p

(* What amm.ts computes is an amount.                                      *)
LEMMA SdkAmountsType ==
  ASSUME NEW x \in Nat, NEW ri \in Nat, NEW ro \in Nat
  PROVE  AmountOut(x, ri, ro) \in Nat /\ AmountIn(x, ri, ro) \in Nat
<1>1. AmountOut(x, ri, ro) \in Nat
  <2>1. CASE x > 0 /\ ri > 0 /\ ro > 0
    <3>1. GetAmountOut(x, ri, ro) \in 0 .. ro - 1
      <4>1. x \in Nat \ {0} /\ ri \in Nat \ {0} /\ ro \in Nat \ {0}
        BY <2>1, SMT
      <4> QED BY <4>1, AmountOutBelowReserve
    <3>2. \A y \in 0 .. ro - 1 : y \in Nat
      BY SMT
    <3> QED BY <2>1, <3>1, <3>2 DEF AmountOut
  <2> QED BY <2>1 DEF AmountOut
<1>2. AmountIn(x, ri, ro) \in Nat
  <2>1. CASE x > 0 /\ ri > 0 /\ ro > x
    <3>1. GetAmountIn(x, ri, ro) \in Nat \ {0}
      <4>1. x < ro
        BY <2>1, SMT
      <4> QED BY <4>1, AmountInType
    <3> QED BY <2>1, <3>1 DEF AmountIn
  <2> QED BY <2>1 DEF AmountIn
<1> QED BY <1>1, <1>2

(* One hop of a quote, forwards and backwards.                             *)
InStep(f, ps, path, amount, i) ==
  IF i = 1 THEN [amount |-> amount, num |-> amount, den |-> 1]
  ELSE LET hop == Hop(ps, path, i - 1)
           before == f[i - 1]
       IN  [amount |-> AmountOut(before.amount, hop.reserveIn, hop.reserveOut),
            num |-> before.num * hop.reserveOut, den |-> before.den * hop.reserveIn]

OutStep(f, ps, path, amount, i) ==
  IF i = Len(path) THEN [amount |-> amount, num |-> amount, den |-> 1]
  ELSE LET hop == Hop(ps, path, i)
           after == f[i + 1]
       IN  [amount |-> AmountIn(after.amount, hop.reserveIn, hop.reserveOut),
            num |-> after.num * hop.reserveIn, den |-> after.den * hop.reserveOut]

LEMMA QuoteInIs ==
  ASSUME NEW ps, NEW path, NEW amount
  PROVE  LET f == CHOOSE f : f = [i \in 1 .. Len(path) |-> InStep(f, ps, path, amount, i)]
             q == QuoteExactIn(ps, path, amount)
         IN  q.path = path /\ q.amountIn = amount /\ q.amountOut = f[Len(path)].amount
BY DEF QuoteExactIn, InStep

LEMMA QuoteOutIs ==
  ASSUME NEW ps, NEW path, NEW amount
  PROVE  LET f == CHOOSE f : f = [i \in 1 .. Len(path) |-> OutStep(f, ps, path, amount, i)]
             q == QuoteExactOut(ps, path, amount)
         IN  q.path = path /\ q.amountOut = amount /\ q.amountIn = f[1].amount
BY DEF QuoteExactOut, OutStep

(* The amounts a quote goes through.                                       *)
QuotedIn(c, ps, path, amount) ==
  /\ c \in [1 .. Len(path) -> Nat] /\ c[1] = amount
  /\ \A i \in 1 .. Len(path) - 1 :
       c[i + 1] = AmountOut(c[i], Hop(ps, path, i).reserveIn, Hop(ps, path, i).reserveOut)

QuotedOut(c, ps, path, amount) ==
  /\ c \in [1 .. Len(path) -> Nat] /\ c[Len(path)] = amount
  /\ \A i \in 1 .. Len(path) - 1 :
       c[i] = AmountIn(c[i + 1], Hop(ps, path, i).reserveIn, Hop(ps, path, i).reserveOut)

(* A quote goes from hop to hop as the SDK computes each.                  *)
LEMMA QuoteInFollows ==
  ASSUME NEW ps, ps \in [DOMAIN ps -> Pool], NEW path, Len(path) \in Nat, Len(path) >= 1,
         Pairs(path) \subseteq DOMAIN ps, NEW amount \in Nat
  PROVE  LET q == QuoteExactIn(ps, path, amount)
         IN  /\ q.path = path /\ q.amountIn = amount
             /\ \E c : QuotedIn(c, ps, path, amount) /\ q.amountOut = c[Len(path)]
<1> DEFINE n == Len(path)
           Is(f) == f = [i \in 1 .. n |-> InStep(f, ps, path, amount, i)]
           D == [amount : Nat, num : Nat, den : Nat]
           b == [amount |-> amount, num |-> amount, den |-> 1]
           go(i, d) == [amount |-> AmountOut(d.amount, Hop(ps, path, i).reserveIn, Hop(ps, path, i).reserveOut),
                        num |-> d.num * Hop(ps, path, i).reserveOut,
                        den |-> d.den * Hop(ps, path, i).reserveIn]
           G == [z \in (1 .. n) \X D |-> IF z[1] \in 1 .. n - 1 THEN go(z[1], z[2]) ELSE z[2]]
           g == CHOOSE f : Is(f)
           q == QuoteExactIn(ps, path, amount)
<1>1. n \in Nat /\ 1 \in 1 .. n /\ n \in 1 .. n
  BY SMT
<1>2. q.path = path /\ q.amountIn = amount /\ q.amountOut = g[n].amount
  BY QuoteInIs
<1>3. b \in D
  OBVIOUS
<1>4. ASSUME NEW i \in 1 .. n - 1, NEW d \in D
      PROVE  go(i, d) \in D
  <2> DEFINE ri == Hop(ps, path, i).reserveIn
             ro == Hop(ps, path, i).reserveOut
  <2>1. ri \in Nat /\ ro \in Nat
    BY HopType
  <2> HIDE DEF ri, ro
  <2>2. d.amount \in Nat /\ d.num \in Nat /\ d.den \in Nat
    OBVIOUS
  <2>3. AmountOut(d.amount, ri, ro) \in Nat
    BY <2>1, <2>2, SdkAmountsType
  <2>4. d.num * ro \in Nat /\ d.den * ri \in Nat
    BY <2>1, <2>2, SMT
  <2> QED BY <2>3, <2>4 DEF ri, ro
<1>5. G \in [(1 .. n) \X D -> D]
  <2>1. ASSUME NEW z \in (1 .. n) \X D
        PROVE  (IF z[1] \in 1 .. n - 1 THEN go(z[1], z[2]) ELSE z[2]) \in D
    <3>1. z[2] \in D
      BY DEF D
    <3> HIDE DEF go, D
    <3> QED BY <1>4, <3>1
  <2> HIDE DEF go, D
  <2> QED BY <2>1
<1>6. \E f : Is(f)
  <2>1. PICK f : Climbs(f, n, D, b, G)
    <3> HIDE DEF D, G, n, b
    <3> QED BY <1>1, <1>3, <1>5, Recursion
  <2>2. ASSUME NEW i \in 1 .. n
        PROVE  f[i] = InStep(f, ps, path, amount, i)
    <3>1. CASE i = 1
      BY <1>1, <2>1, <3>1 DEF Climbs, InStep
    <3>2. CASE i # 1
      <4> DEFINE j == i - 1
      <4>1. j \in 1 .. n - 1 /\ j \in 1 .. n /\ j + 1 = i
        BY <1>1, <3>2, SMT
      <4> HIDE DEF j
      <4>2. f[j + 1] = G[<<j, f[j]>>] /\ f[j] \in D
        BY <2>1, <4>1 DEF Climbs
      <4>3. G[<<j, f[j]>>] = go(j, f[j])
        <5> HIDE DEF go, D
        <5> QED BY <4>1, <4>2
      <4>4. InStep(f, ps, path, amount, i) = go(j, f[j])
        BY <3>2 DEF InStep, j
      <4> QED BY <4>1, <4>2, <4>3, <4>4
    <3> QED BY <3>1, <3>2
  <2> QED BY <2>1, <2>2 DEF Climbs
<1>7. Is(g)
  <2> HIDE DEF Is
  <2> QED BY <1>6
<1>8. DOMAIN g = 1 .. n /\ \A i \in 1 .. n : g[i] = InStep(g, ps, path, amount, i)
  <2> HIDE DEF g
  <2> QED BY <1>7
<1> HIDE DEF g
<1>9. g[1] = b
  BY <1>1, <1>8 DEF InStep
<1>10. ASSUME NEW i \in 1 .. n - 1
       PROVE  g[i + 1] = go(i, g[i])
  <2>1. i + 1 \in 1 .. n /\ i + 1 # 1 /\ (i + 1) - 1 = i
    BY <1>1, SMT
  <2>2. g[i + 1] = InStep(g, ps, path, amount, i + 1)
    BY <1>8, <2>1
  <2> DEFINE k == i + 1
  <2>3. k # 1 /\ k - 1 = i
    BY <2>1
  <2> HIDE DEF k
  <2>4. InStep(g, ps, path, amount, k) = go(i, g[i])
    BY <2>3 DEF InStep
  <2> QED BY <2>2, <2>4 DEF k
<1>11. \A i \in 1 .. n : g[i] \in D
  <2>1. g[1] \in D
    BY <1>3, <1>9
  <2>2. \A i \in 1 .. n - 1 : g[i] \in D => g[i + 1] \in D
    <3> HIDE DEF D, go
    <3> QED BY <1>4, <1>10
  <2> HIDE DEF D, n
  <2> QED BY <1>1, <2>1, <2>2, StaysIn
<1> DEFINE c == [i \in 1 .. n |-> g[i].amount]
<1>12. QuotedIn(c, ps, path, amount)
  <2>1. c \in [1 .. n -> Nat]
    BY <1>11
  <2>2. c[1] = amount
    BY <1>1, <1>9
  <2>3. ASSUME NEW i \in 1 .. n - 1
        PROVE  c[i + 1] = AmountOut(c[i], Hop(ps, path, i).reserveIn, Hop(ps, path, i).reserveOut)
    <3>1. i \in 1 .. n /\ i + 1 \in 1 .. n
      BY <1>1, SMT
    <3>2. c[i] = g[i].amount /\ c[i + 1] = g[i + 1].amount
      BY <3>1
    <3> HIDE DEF c
    <3>3. g[i + 1] = go(i, g[i])
      BY <1>10
    <3>4. go(i, g[i]).amount = AmountOut(g[i].amount, Hop(ps, path, i).reserveIn, Hop(ps, path, i).reserveOut)
      OBVIOUS
    <3> HIDE DEF go
    <3> QED BY <3>2, <3>3, <3>4
  <2> QED BY <2>1, <2>2, <2>3 DEF QuotedIn
<1>13. q.amountOut = c[n]
  BY <1>1, <1>2
<1> HIDE DEF c, q
<1>14. \E d : QuotedIn(d, ps, path, amount) /\ q.amountOut = d[Len(path)]
  BY <1>12, <1>13
<1> QED BY <1>2, <1>14, Zenon DEF q

LEMMA QuoteOutFollows ==
  ASSUME NEW ps, ps \in [DOMAIN ps -> Pool], NEW path, Len(path) \in Nat, Len(path) >= 1,
         Pairs(path) \subseteq DOMAIN ps, NEW amount \in Nat
  PROVE  LET q == QuoteExactOut(ps, path, amount)
         IN  /\ q.path = path /\ q.amountOut = amount
             /\ \E c : QuotedOut(c, ps, path, amount) /\ q.amountIn = c[1]
<1> DEFINE n == Len(path)
           Is(f) == f = [i \in 1 .. n |-> OutStep(f, ps, path, amount, i)]
           D == [amount : Nat, num : Nat, den : Nat]
           b == [amount |-> amount, num |-> amount, den |-> 1]
           go(i, d) == [amount |-> AmountIn(d.amount, Hop(ps, path, i).reserveIn, Hop(ps, path, i).reserveOut),
                        num |-> d.num * Hop(ps, path, i).reserveIn,
                        den |-> d.den * Hop(ps, path, i).reserveOut]
           G == [z \in (1 .. n) \X D |-> IF z[1] \in 1 .. n - 1 THEN go(z[1], z[2]) ELSE z[2]]
           g == CHOOSE f : Is(f)
           q == QuoteExactOut(ps, path, amount)
<1>1. n \in Nat /\ n >= 1 /\ 1 \in 1 .. n /\ n \in 1 .. n
  BY SMT
<1>2. q.path = path /\ q.amountOut = amount /\ q.amountIn = g[1].amount
  BY QuoteOutIs
<1>3. b \in D
  OBVIOUS
<1>4. ASSUME NEW i \in 1 .. n - 1, NEW d \in D
      PROVE  go(i, d) \in D
  <2> DEFINE ri == Hop(ps, path, i).reserveIn
             ro == Hop(ps, path, i).reserveOut
  <2>1. ri \in Nat /\ ro \in Nat
    BY HopType
  <2> HIDE DEF ri, ro
  <2>2. d.amount \in Nat /\ d.num \in Nat /\ d.den \in Nat
    OBVIOUS
  <2>3. AmountIn(d.amount, ri, ro) \in Nat
    BY <2>1, <2>2, SdkAmountsType
  <2>4. d.num * ri \in Nat /\ d.den * ro \in Nat
    BY <2>1, <2>2, SMT
  <2> QED BY <2>3, <2>4 DEF ri, ro
<1>5. G \in [(1 .. n) \X D -> D]
  <2>1. ASSUME NEW z \in (1 .. n) \X D
        PROVE  (IF z[1] \in 1 .. n - 1 THEN go(z[1], z[2]) ELSE z[2]) \in D
    <3>1. z[2] \in D
      BY DEF D
    <3> HIDE DEF go, D
    <3> QED BY <1>4, <3>1
  <2> HIDE DEF go, D
  <2> QED BY <2>1
<1>6. \E f : Is(f)
  <2>1. PICK f : Descends(f, n, D, b, G)
    <3> HIDE DEF D, G, n, b
    <3> QED BY <1>1, <1>3, <1>5, RecursionDown
  <2>2. ASSUME NEW i \in 1 .. n
        PROVE  f[i] = OutStep(f, ps, path, amount, i)
    <3>1. CASE i = n
      BY <1>1, <2>1, <3>1 DEF Descends, OutStep
    <3>2. CASE i # n
      <4>1. i \in 1 .. n - 1 /\ i + 1 \in 1 .. n
        BY <1>1, <3>2, SMT
      <4>2. f[i] = G[<<i, f[i + 1]>>] /\ f[i + 1] \in D
        BY <2>1, <4>1 DEF Descends
      <4>3. G[<<i, f[i + 1]>>] = go(i, f[i + 1])
        <5> HIDE DEF go, D
        <5> QED BY <4>1, <4>2
      <4>4. OutStep(f, ps, path, amount, i) = go(i, f[i + 1])
        BY <3>2 DEF OutStep
      <4> QED BY <4>1, <4>2, <4>3, <4>4
    <3> QED BY <3>1, <3>2
  <2> QED BY <2>1, <2>2 DEF Descends
<1>7. Is(g)
  <2> HIDE DEF Is
  <2> QED BY <1>6
<1>8. DOMAIN g = 1 .. n /\ \A i \in 1 .. n : g[i] = OutStep(g, ps, path, amount, i)
  <2> HIDE DEF g
  <2> QED BY <1>7
<1> HIDE DEF g
<1>9. g[n] = b
  BY <1>1, <1>8 DEF OutStep
<1>10. ASSUME NEW i \in 1 .. n - 1
       PROVE  g[i] = go(i, g[i + 1])
  <2>1. i \in 1 .. n /\ i # n
    BY <1>1, SMT
  <2> QED BY <1>8, <2>1 DEF OutStep
<1>11. \A i \in 1 .. n : g[i] \in D
  <2> DEFINE h == [i \in 1 .. n |-> g[(n + 1) - i]]
  <2>1. h[1] \in D
    <3>1. (n + 1) - 1 = n
      BY <1>1, SMT
    <3> QED BY <1>1, <1>3, <1>9, <3>1
  <2>2. ASSUME NEW i \in 1 .. n - 1, h[i] \in D
        PROVE  h[i + 1] \in D
    <3> DEFINE j == (n + 1) - (i + 1)
    <3>1. j \in 1 .. n - 1 /\ j + 1 = (n + 1) - i /\ i \in 1 .. n /\ i + 1 \in 1 .. n
      BY <1>1, SMT
    <3> HIDE DEF j
    <3>2. h[i] = g[j + 1] /\ h[i + 1] = g[j]
      BY <3>1 DEF j
    <3> HIDE DEF D, go, h
    <3>3. g[j] = go(j, g[j + 1])
      BY <1>10, <3>1
    <3> QED BY <1>4, <2>2, <3>1, <3>2, <3>3
  <2>3. \A i \in 1 .. n : h[i] \in D
    <3> HIDE DEF D, n, h
    <3> QED BY <1>1, <2>1, <2>2, StaysIn
  <2>4. \A i \in 1 .. n : (n + 1) - i \in 1 .. n /\ (n + 1) - ((n + 1) - i) = i
    BY <1>1, SMT
  <2>5. \A i \in 1 .. n : g[i] = h[(n + 1) - i]
    BY <2>4
  <2> HIDE DEF h, D
  <2> QED BY <2>3, <2>4, <2>5
<1> DEFINE c == [i \in 1 .. n |-> g[i].amount]
<1>12. QuotedOut(c, ps, path, amount)
  <2>1. c \in [1 .. n -> Nat]
    BY <1>11
  <2>2. c[n] = amount
    BY <1>1, <1>9
  <2>3. ASSUME NEW i \in 1 .. n - 1
        PROVE  c[i] = AmountIn(c[i + 1], Hop(ps, path, i).reserveIn, Hop(ps, path, i).reserveOut)
    <3>1. i \in 1 .. n /\ i + 1 \in 1 .. n
      BY <1>1, SMT
    <3>2. c[i] = g[i].amount /\ c[i + 1] = g[i + 1].amount
      BY <3>1
    <3> HIDE DEF c
    <3>3. g[i] = go(i, g[i + 1])
      BY <1>10
    <3>4. go(i, g[i + 1]).amount = AmountIn(g[i + 1].amount, Hop(ps, path, i).reserveIn, Hop(ps, path, i).reserveOut)
      OBVIOUS
    <3> HIDE DEF go
    <3> QED BY <3>2, <3>3, <3>4
  <2> QED BY <2>1, <2>2, <2>3 DEF QuotedOut
<1>13. q.amountIn = c[1]
  BY <1>1, <1>2
<1> HIDE DEF c, q
<1>14. \E d : QuotedOut(d, ps, path, amount) /\ q.amountIn = d[1]
  BY <1>12, <1>13
<1> QED BY <1>2, <1>14, Zenon DEF q

-----------------------------------------------------------------------------
(* The amounts the router computes.                                        *)

(* What the formula of getAmountOut gives is in the pool.                  *)
LEMMA AmountOutInPool ==
  ASSUME NEW x \in Nat \ {0}, NEW ri \in Nat, NEW ro \in Nat
  PROVE  GetAmountOut(x, ri, ro) \in Nat /\ GetAmountOut(x, ri, ro) <= ro
<1> DEFINE fee == x * FeeKept
           den == ri * FeeBase + fee
           out == (fee * ro) \div den
<1>1. fee \in Nat /\ den \in Nat /\ den > 0 /\ fee <= den
  BY SMT DEF FeeKept, FeeBase, FeeCut
<1>2. GetAmountOut(x, ri, ro) = out
  BY DEF GetAmountOut
<1> HIDE DEF fee, den
<1>3. fee * ro \in Nat /\ fee * ro <= den * ro /\ den * ro = ro * den
  BY <1>1, MulMonotone, SMT
<1>4. out \in Nat /\ out * den <= fee * ro
  BY <1>1, <1>3, DivBounds
<1> HIDE DEF out
<1>5. out * den <= ro * den
  <2>1. out * den \in Nat /\ ro * den \in Nat
    BY <1>1, <1>4, SMT
  <2> QED BY <1>3, <1>4, <2>1, SMT
<1>6. out <= ro
  BY <1>1, <1>4, <1>5, MulCancel
<1> QED BY <1>2, <1>4, <1>6

(* The amounts the router computes on the pools as they are.               *)
ChainOutStep(f, path, x, i) ==
  IF i = 1 THEN x
  ELSE LET hop == OnChain(path, i - 1)
       IN  IF f[i - 1] = 0 THEN 0 ELSE GetAmountOut(f[i - 1], hop.reserveIn, hop.reserveOut)

ChainInStep(f, path, x, i) ==
  IF i = Len(path) THEN x
  ELSE LET hop == OnChain(path, i)
       IN  IF f[i + 1] \in 1 .. hop.reserveOut - 1
           THEN GetAmountIn(f[i + 1], hop.reserveIn, hop.reserveOut)
           ELSE 0

RoutedOut(c, path, x) ==
  /\ c \in [1 .. Len(path) -> Nat] /\ c[1] = x
  /\ \A i \in 1 .. Len(path) - 1 :
       c[i + 1] = IF c[i] = 0 THEN 0
                  ELSE GetAmountOut(c[i], Hop(pools, path, i).reserveIn, Hop(pools, path, i).reserveOut)

RoutedIn(c, path, x) ==
  /\ c \in [1 .. Len(path) -> Nat] /\ c[Len(path)] = x
  /\ \A i \in 1 .. Len(path) - 1 :
       c[i] = IF c[i + 1] \in 1 .. Hop(pools, path, i).reserveOut - 1
              THEN GetAmountIn(c[i + 1], Hop(pools, path, i).reserveIn, Hop(pools, path, i).reserveOut)
              ELSE 0

LEMMA AmountsOutIs ==
  ASSUME NEW path, NEW x
  PROVE  AmountsOut(path, x) = CHOOSE f : f = [i \in 1 .. Len(path) |-> ChainOutStep(f, path, x, i)]
BY DEF AmountsOut, ChainOutStep

LEMMA AmountsInIs ==
  ASSUME NEW path, NEW x
  PROVE  AmountsIn(path, x) = CHOOSE f : f = [i \in 1 .. Len(path) |-> ChainInStep(f, path, x, i)]
BY DEF AmountsIn, ChainInStep

LEMMA HopIsOnChain ==
  ASSUME NEW path, NEW i
  PROVE  OnChain(path, i) = Hop(pools, path, i)
BY DEF OnChain, Hop

(* The router's amounts follow each other from the first, or the last.     *)
LEMMA AmountsOutFollow ==
  ASSUME pools \in [DOMAIN pools -> Pool], NEW path, Len(path) \in Nat, Len(path) >= 1,
         Pairs(path) \subseteq DOMAIN pools, NEW x \in Nat
  PROVE  RoutedOut(AmountsOut(path, x), path, x)
<1> DEFINE n == Len(path)
           Is(f) == f = [i \in 1 .. n |-> ChainOutStep(f, path, x, i)]
           ri(i) == Hop(pools, path, i).reserveIn
           ro(i) == Hop(pools, path, i).reserveOut
           go(i, d) == IF d = 0 THEN 0 ELSE GetAmountOut(d, ri(i), ro(i))
           G == [z \in (1 .. n) \X Nat |-> IF z[1] \in 1 .. n - 1 THEN go(z[1], z[2]) ELSE z[2]]
           g == CHOOSE f : Is(f)
<1>1. n \in Nat /\ 1 \in 1 .. n /\ n \in 1 .. n
  BY SMT
<1>2. AmountsOut(path, x) = g
  BY AmountsOutIs
<1>3. ASSUME NEW i \in 1 .. n - 1, NEW d \in Nat
      PROVE  go(i, d) \in Nat
  <2>1. ri(i) \in Nat /\ ro(i) \in Nat
    BY HopType
  <2> HIDE DEF ri, ro
  <2>2. CASE d = 0
    BY <2>2
  <2>3. CASE d # 0
    BY <2>1, <2>3, AmountOutInPool
  <2> QED BY <2>2, <2>3
<1>4. G \in [(1 .. n) \X Nat -> Nat]
  <2>1. ASSUME NEW z \in (1 .. n) \X Nat
        PROVE  (IF z[1] \in 1 .. n - 1 THEN go(z[1], z[2]) ELSE z[2]) \in Nat
    <3>1. z[2] \in Nat
      OBVIOUS
    <3> HIDE DEF go
    <3> QED BY <1>3, <3>1
  <2> HIDE DEF go
  <2> QED BY <2>1
<1>5. \A f, i : i # 1 => ChainOutStep(f, path, x, i) = go(i - 1, f[i - 1])
  BY HopIsOnChain DEF ChainOutStep
<1>6. \E f : Is(f)
  <2>1. PICK f : Climbs(f, n, Nat, x, G)
    <3> HIDE DEF G, n
    <3> QED BY <1>1, <1>4, Recursion
  <2>2. ASSUME NEW i \in 1 .. n
        PROVE  f[i] = ChainOutStep(f, path, x, i)
    <3>1. CASE i = 1
      BY <1>1, <2>1, <3>1 DEF Climbs, ChainOutStep
    <3>2. CASE i # 1
      <4>1. i - 1 \in 1 .. n - 1 /\ i - 1 \in 1 .. n /\ (i - 1) + 1 = i
        BY <1>1, <3>2, SMT
      <4>2. ChainOutStep(f, path, x, i) = go(i - 1, f[i - 1])
        BY <1>5, <3>2
      <4> DEFINE j == i - 1
      <4>3. j \in 1 .. n - 1 /\ j \in 1 .. n /\ j + 1 = i /\ ChainOutStep(f, path, x, i) = go(j, f[j])
        BY <4>1, <4>2
      <4> HIDE DEF j
      <4>4. f[j + 1] = G[<<j, f[j]>>] /\ f[j] \in Nat
        BY <2>1, <4>3 DEF Climbs
      <4>5. G[<<j, f[j]>>] = go(j, f[j])
        <5> HIDE DEF go
        <5> QED BY <4>3, <4>4
      <4> HIDE DEF go, G
      <4> QED BY <4>3, <4>4, <4>5
    <3> QED BY <3>1, <3>2
  <2> QED BY <2>1, <2>2 DEF Climbs
<1>7. Is(g)
  <2> HIDE DEF Is
  <2> QED BY <1>6
<1>8. g = [i \in 1 .. n |-> ChainOutStep(g, path, x, i)]
  <2> HIDE DEF g
  <2> QED BY <1>7
<1> HIDE DEF g
<1>9. g[1] = x
  BY <1>1, <1>8 DEF ChainOutStep
<1>10. ASSUME NEW i \in 1 .. n - 1
       PROVE  g[i + 1] = go(i, g[i])
  <2> DEFINE k == i + 1
  <2>1. k \in 1 .. n /\ k # 1 /\ k - 1 = i
    BY <1>1, SMT
  <2> HIDE DEF k
  <2>2. g[k] = ChainOutStep(g, path, x, k)
    BY <1>8, <2>1
  <2> HIDE DEF go
  <2>3. g[k] = go(i, g[i])
    BY <1>5, <2>1, <2>2
  <2> QED BY <2>3 DEF k
<1>11. \A i \in 1 .. n : g[i] \in Nat
  <2>1. g[1] \in Nat
    BY <1>9
  <2> HIDE DEF go
  <2>2. \A i \in 1 .. n - 1 : g[i] \in Nat => g[i + 1] \in Nat
    BY <1>3, <1>10
  <2> HIDE DEF n
  <2> QED BY <1>1, <2>1, <2>2, StaysIn
<1>12. g \in [1 .. n -> Nat]
  BY <1>8, <1>11
<1>13. RoutedOut(g, path, x)
  BY <1>9, <1>10, <1>12 DEF RoutedOut
<1> QED BY <1>2, <1>13

LEMMA AmountsInFollow ==
  ASSUME pools \in [DOMAIN pools -> Pool], NEW path, Len(path) \in Nat, Len(path) >= 1,
         Pairs(path) \subseteq DOMAIN pools, NEW x \in Nat
  PROVE  RoutedIn(AmountsIn(path, x), path, x)
<1> DEFINE n == Len(path)
           Is(f) == f = [i \in 1 .. n |-> ChainInStep(f, path, x, i)]
           ri(i) == Hop(pools, path, i).reserveIn
           ro(i) == Hop(pools, path, i).reserveOut
           go(i, d) == IF d \in 1 .. ro(i) - 1 THEN GetAmountIn(d, ri(i), ro(i)) ELSE 0
           G == [z \in (1 .. n) \X Nat |-> IF z[1] \in 1 .. n - 1 THEN go(z[1], z[2]) ELSE z[2]]
           g == CHOOSE f : Is(f)
<1>1. n \in Nat /\ 1 \in 1 .. n /\ n \in 1 .. n /\ n >= 1
  BY SMT
<1>2. AmountsIn(path, x) = g
  BY AmountsInIs
<1>3. ASSUME NEW i \in 1 .. n - 1, NEW d \in Nat
      PROVE  go(i, d) \in Nat
  <2>1. ri(i) \in Nat /\ ro(i) \in Nat
    BY HopType
  <2> HIDE DEF ri, ro
  <2>2. CASE d \notin 1 .. ro(i) - 1
    BY <2>2
  <2>3. CASE d \in 1 .. ro(i) - 1
    <3>1. d < ro(i)
      BY <2>1, <2>3, SMT
    <3> QED BY <2>1, <2>3, <3>1, AmountInType
  <2> QED BY <2>2, <2>3
<1>4. G \in [(1 .. n) \X Nat -> Nat]
  <2>1. ASSUME NEW z \in (1 .. n) \X Nat
        PROVE  (IF z[1] \in 1 .. n - 1 THEN go(z[1], z[2]) ELSE z[2]) \in Nat
    <3>1. z[2] \in Nat
      OBVIOUS
    <3> HIDE DEF go
    <3> QED BY <1>3, <3>1
  <2> HIDE DEF go
  <2> QED BY <2>1
<1>5. \A f, i : i # n => ChainInStep(f, path, x, i) = go(i, f[i + 1])
  BY HopIsOnChain DEF ChainInStep
<1>6. \E f : Is(f)
  <2>1. PICK f : Descends(f, n, Nat, x, G)
    <3> HIDE DEF G, n
    <3> QED BY <1>1, <1>4, RecursionDown
  <2>2. ASSUME NEW i \in 1 .. n
        PROVE  f[i] = ChainInStep(f, path, x, i)
    <3>1. CASE i = n
      BY <1>1, <2>1, <3>1 DEF Descends, ChainInStep
    <3>2. CASE i # n
      <4>1. i \in 1 .. n - 1 /\ i + 1 \in 1 .. n
        BY <1>1, <3>2, SMT
      <4>2. ChainInStep(f, path, x, i) = go(i, f[i + 1])
        BY <1>5, <3>2
      <4>3. f[i] = G[<<i, f[i + 1]>>] /\ f[i + 1] \in Nat
        BY <2>1, <4>1 DEF Descends
      <4>4. G[<<i, f[i + 1]>>] = go(i, f[i + 1])
        <5> HIDE DEF go
        <5> QED BY <4>1, <4>3
      <4> HIDE DEF go, G
      <4> QED BY <4>2, <4>3, <4>4
    <3> QED BY <3>1, <3>2
  <2> QED BY <2>1, <2>2 DEF Descends
<1>7. Is(g)
  <2> HIDE DEF Is
  <2> QED BY <1>6
<1>8. g = [i \in 1 .. n |-> ChainInStep(g, path, x, i)]
  <2> HIDE DEF g
  <2> QED BY <1>7
<1> HIDE DEF g
<1>9. g[n] = x
  BY <1>1, <1>8 DEF ChainInStep
<1>10. ASSUME NEW i \in 1 .. n - 1
       PROVE  g[i] = go(i, g[i + 1])
  <2>1. i \in 1 .. n /\ i # n
    BY <1>1, SMT
  <2>2. g[i] = ChainInStep(g, path, x, i)
    BY <1>8, <2>1
  <2> HIDE DEF go
  <2> QED BY <1>5, <2>1, <2>2
<1>11. \A i \in 1 .. n : g[i] \in Nat
  <2> DEFINE h == [i \in 1 .. n |-> g[(n + 1) - i]]
  <2>1. h[1] \in Nat
    <3>1. (n + 1) - 1 = n
      BY <1>1, SMT
    <3> QED BY <1>1, <1>9, <3>1
  <2>2. ASSUME NEW i \in 1 .. n - 1, h[i] \in Nat
        PROVE  h[i + 1] \in Nat
    <3> DEFINE j == (n + 1) - (i + 1)
    <3>1. j \in 1 .. n - 1 /\ j + 1 = (n + 1) - i /\ i \in 1 .. n /\ i + 1 \in 1 .. n
      BY <1>1, SMT
    <3> HIDE DEF j
    <3>2. h[i] = g[j + 1] /\ h[i + 1] = g[j]
      BY <3>1 DEF j
    <3> HIDE DEF go, h
    <3>3. g[j] = go(j, g[j + 1])
      BY <1>10, <3>1
    <3> QED BY <1>3, <2>2, <3>1, <3>2, <3>3
  <2>3. \A i \in 1 .. n : h[i] \in Nat
    <3> HIDE DEF n, h
    <3> QED BY <1>1, <2>1, <2>2, StaysIn
  <2>4. \A i \in 1 .. n : (n + 1) - i \in 1 .. n /\ (n + 1) - ((n + 1) - i) = i
    BY <1>1, SMT
  <2>5. \A i \in 1 .. n : g[i] = h[(n + 1) - i]
    BY <2>4
  <2> HIDE DEF h
  <2> QED BY <2>3, <2>4, <2>5
<1>12. g \in [1 .. n -> Nat]
  BY <1>8, <1>11
<1>13. RoutedIn(g, path, x)
  BY <1>9, <1>10, <1>12 DEF RoutedIn
<1> QED BY <1>2, <1>13

(* Where the reading is still true, the router computes what was quoted.   *)
StillTrue(ps, path) ==
  \A p \in Pairs(path) : ps[p] = pools[p] /\ ps[p].reserve0 > 0 /\ ps[p].reserve1 > 0

LEMMA HopStillTrue ==
  ASSUME NEW ps, ps \in [DOMAIN ps -> Pool], NEW path, Pairs(path) \subseteq DOMAIN ps,
         StillTrue(ps, path), NEW i \in 1 .. Len(path) - 1
  PROVE  /\ Hop(ps, path, i) = Hop(pools, path, i)
         /\ Hop(ps, path, i).reserveIn \in Nat /\ Hop(ps, path, i).reserveIn > 0
         /\ Hop(ps, path, i).reserveOut \in Nat /\ Hop(ps, path, i).reserveOut > 0
<1> DEFINE p == ComputePairAddress(path[i], path[i + 1])
<1>1. p \in Pairs(path)
  BY DEF Pairs
<1> HIDE DEF p
<1>2. ps[p] = pools[p] /\ ps[p].reserve0 > 0 /\ ps[p].reserve1 > 0 /\ ps[p] \in Pool
  BY <1>1 DEF StillTrue
<1>3. /\ Oriented(ps[p], path[i]).reserveIn \in Nat /\ Oriented(ps[p], path[i]).reserveIn > 0
      /\ Oriented(ps[p], path[i]).reserveOut \in Nat /\ Oriented(ps[p], path[i]).reserveOut > 0
  BY <1>2 DEF Oriented, Pool
<1>4. Hop(ps, path, i) = Oriented(ps[p], path[i]) /\ Hop(pools, path, i) = Oriented(pools[p], path[i])
  BY DEF Hop, p
<1> QED BY <1>2, <1>3, <1>4

LEMMA SameOut ==
  ASSUME NEW ps, ps \in [DOMAIN ps -> Pool], NEW path, Len(path) \in Nat, Len(path) >= 1,
         Pairs(path) \subseteq DOMAIN ps, StillTrue(ps, path), NEW x,
         NEW c, QuotedIn(c, ps, path, x), NEW d, RoutedOut(d, path, x)
  PROVE  d[1] = c[1] /\ d[Len(path)] = c[Len(path)]
<1> DEFINE n == Len(path)
           S == {k \in Nat : k + 1 \in 1 .. n => d[k + 1] = c[k + 1]}
<1>1. 0 \in S /\ c[1] = x /\ d[1] = x
  <2>1. 0 + 1 = 1
    BY SMT
  <2> QED BY <2>1 DEF QuotedIn, RoutedOut
<1>2. ASSUME NEW k \in 0 .. n - 1, k \in S PROVE k + 1 \in S
  <2> SUFFICES ASSUME (k + 1) + 1 \in 1 .. n PROVE d[(k + 1) + 1] = c[(k + 1) + 1]
    BY SMT
  <2> DEFINE i == k + 1
  <2>1. i \in 1 .. n - 1 /\ i \in 1 .. n /\ k \in Nat
    BY SMT
  <2>2. d[i] = c[i]
    BY <1>2, <2>1
  <2> HIDE DEF i
  <2> DEFINE a == Hop(ps, path, i).reserveIn
             b == Hop(ps, path, i).reserveOut
  <2>3. Hop(ps, path, i) = Hop(pools, path, i) /\ a \in Nat /\ a > 0 /\ b \in Nat /\ b > 0
    BY <2>1, HopStillTrue
  <2>4. c[i + 1] = AmountOut(c[i], a, b) /\ c[i] \in Nat
    BY <2>1 DEF QuotedIn
  <2>5. d[i + 1] = IF d[i] = 0 THEN 0 ELSE GetAmountOut(d[i], a, b)
    BY <2>1, <2>3 DEF RoutedOut
  <2> HIDE DEF a, b
  <2>6. d[i + 1] = c[i + 1]
    BY <2>2, <2>3, <2>4, <2>5 DEF AmountOut
  <2> QED BY <2>6 DEF i
<1>3. \A k \in 0 .. n : k \in S
  <2> HIDE DEF S
  <2> QED BY <1>1, <1>2, UpTo
<1>4. n - 1 \in 0 .. n /\ (n - 1) + 1 = n /\ n \in 1 .. n
  BY SMT
<1> QED BY <1>1, <1>3, <1>4

LEMMA SameIn ==
  ASSUME NEW ps, ps \in [DOMAIN ps -> Pool], NEW path, Len(path) \in Nat, Len(path) >= 1,
         Pairs(path) \subseteq DOMAIN ps, StillTrue(ps, path), NEW x,
         NEW c, QuotedOut(c, ps, path, x), NEW d, RoutedIn(d, path, x)
  PROVE  d[1] = c[1] /\ d[Len(path)] = c[Len(path)]
<1> DEFINE n == Len(path)
           S == {k \in Nat : n - k \in 1 .. n => d[n - k] = c[n - k]}
<1>1. 0 \in S /\ c[n] = x /\ d[n] = x
  <2>1. n - 0 = n
    BY SMT
  <2> QED BY <2>1 DEF QuotedOut, RoutedIn
<1>2. ASSUME NEW k \in 0 .. n - 1, k \in S PROVE k + 1 \in S
  <2> SUFFICES ASSUME n - (k + 1) \in 1 .. n PROVE d[n - (k + 1)] = c[n - (k + 1)]
    BY SMT
  <2> DEFINE i == n - (k + 1)
  <2>1. i \in 1 .. n - 1 /\ i + 1 \in 1 .. n /\ i + 1 = n - k
    BY SMT
  <2>2. d[i + 1] = c[i + 1]
    BY <1>2, <2>1
  <2> HIDE DEF i
  <2> DEFINE a == Hop(ps, path, i).reserveIn
             b == Hop(ps, path, i).reserveOut
  <2>3. Hop(ps, path, i) = Hop(pools, path, i) /\ a \in Nat /\ a > 0 /\ b \in Nat /\ b > 0
    BY <2>1, HopStillTrue
  <2>4. c[i] = AmountIn(c[i + 1], a, b) /\ c[i + 1] \in Nat
    BY <2>1 DEF QuotedOut
  <2>5. d[i] = IF d[i + 1] \in 1 .. b - 1 THEN GetAmountIn(d[i + 1], a, b) ELSE 0
    BY <2>1, <2>3 DEF RoutedIn
  <2> HIDE DEF a, b
  <2>6. c[i + 1] \in 1 .. b - 1 <=> c[i + 1] > 0 /\ b > c[i + 1]
    BY <2>3, <2>4, SMT
  <2>7. d[i] = c[i]
    BY <2>2, <2>3, <2>4, <2>5, <2>6 DEF AmountIn
  <2> QED BY <2>7 DEF i
<1>3. \A k \in 0 .. n : k \in S
  <2> HIDE DEF S
  <2> QED BY <1>1, <1>2, UpTo
<1>4. n - 1 \in 0 .. n /\ n - (n - 1) = 1 /\ 1 \in 1 .. n /\ n - 1 \in Nat
  BY SMT
<1> DEFINE k == n - 1
<1>5. k \in S /\ n - k = 1 /\ 1 \in 1 .. n
  <2> HIDE DEF S
  <2> QED BY <1>3, <1>4
<1> HIDE DEF k
<1>6. d[1] = c[1]
  BY <1>5
<1> QED BY <1>1, <1>6

-----------------------------------------------------------------------------
(* The choice of the best quote.                                           *)

(* What a quote says of a path, whichever side was typed.                  *)
IsDeal(q, path, side, amount) ==
  /\ q.path = path /\ q.amountIn \in Nat /\ q.amountOut \in Nat
  /\ side = "in" => q.amountIn = amount
  /\ side # "in" => q.amountOut = amount

LEMMA DealType ==
  ASSUME NEW ps, ps \in [DOMAIN ps -> Pool], NEW path, Len(path) \in Nat, Len(path) >= 1,
         Pairs(path) \subseteq DOMAIN ps, NEW side, NEW amount \in Nat
  PROVE  IsDeal(QuoteAlong(ps, path, side, amount), path, side, amount)
<1> DEFINE q == QuoteAlong(ps, path, side, amount)
<1>1. Len(path) \in 1 .. Len(path) /\ 1 \in 1 .. Len(path)
  BY SMT
<1>2. CASE side = "in"
  <2>1. q = QuoteExactIn(ps, path, amount)
    BY <1>2 DEF QuoteAlong
  <2> HIDE DEF q
  <2>2. q.path = path /\ q.amountIn = amount
    BY <2>1, QuoteInFollows
  <2>3. PICK c : QuotedIn(c, ps, path, amount) /\ q.amountOut = c[Len(path)]
    BY <2>1, QuoteInFollows
  <2>4. q.amountOut \in Nat
    BY <1>1, <2>3 DEF QuotedIn
  <2> QED BY <1>2, <2>2, <2>4 DEF q, IsDeal
<1>3. CASE side # "in"
  <2>1. q = QuoteExactOut(ps, path, amount)
    BY <1>3 DEF QuoteAlong
  <2> HIDE DEF q
  <2>2. q.path = path /\ q.amountOut = amount
    BY <2>1, QuoteOutFollows
  <2>3. PICK c : QuotedOut(c, ps, path, amount) /\ q.amountIn = c[1]
    BY <2>1, QuoteOutFollows
  <2>4. q.amountIn \in Nat
    BY <1>1, <2>3 DEF QuotedOut
  <2> QED BY <1>3, <2>2, <2>4 DEF q, IsDeal
<1> QED BY <1>2, <1>3

(* A candidate has a hop at least.                                         *)
LEMMA CandidatePath ==
  ASSUME Hubs \in Seq(Nat), NEW tIn, NEW tOut, RoutedAddress(tIn) \in Nat, RoutedAddress(tOut) \in Nat,
         NEW p \in Seqs!ToSet(Candidates(tIn, tOut))
  PROVE  Len(p) \in Nat /\ Len(p) >= 1
<1> DEFINE a == RoutedAddress(tIn)
           b == RoutedAddress(tOut)
           U == Seqs!ToSet(Hubs) \ {a, b}
<1>1. p \in Through(a, b, U)
  BY CandidatesAre
<1> HIDE DEF a, b, U
<1>2. p = <<a, b>> \/ (\E h \in U : p = <<a, h, b>>) \/ (\E h \in U, k \in U : p = <<a, h, k, b>>)
  BY <1>1 DEF Through
<1>3. Len(<<a, b>>) = 2 /\ \A h, k : Len(<<a, h, b>>) = 3 /\ Len(<<a, h, k, b>>) = 4
  OBVIOUS
<1>4. Len(p) \in {2, 3, 4}
  BY <1>2, <1>3
<1>5. \A n \in {2, 3, 4} : n \in Nat /\ n >= 1
  BY SMT
<1> QED BY <1>4, <1>5

(* The search as a fold: the best so far, or the next path's.              *)
Keep(ps, side, amount, best, path) ==
  IF ~Usable(ps, path, side, amount) THEN best
  ELSE LET route == QuoteAlong(ps, path, side, amount)
       IN  IF best = NoRoute \/ Better(side, route, best) THEN route ELSE best

KeepStep(f, s, ps, side, amount, cs) ==
  IF s = {} THEN NoRoute
  ELSE LET x == Seqs!Max(s) IN Keep(ps, side, amount, f[s \ {x}], cs[x])

KeepFold(I, ps, side, amount, cs) ==
  CHOOSE f : f = [s \in SUBSET I |-> KeepStep(f, s, ps, side, amount, cs)]

LEMMA BestRouteIs ==
  ASSUME NEW ps, NEW tIn, NEW tOut, NEW side, NEW amount, NEW cs, cs = Candidates(tIn, tOut),
         NEW I, I = DOMAIN cs
  PROVE  BestRoute(ps, tIn, tOut, side, amount) =
           KeepFold(I, ps, side, amount, cs)[I]
BY DEF KeepFold, BestRoute, Seqs!FoldLeft, Seqs!MapThenFoldSet, KeepStep, Keep

(* The first of the best of a row of deals q, of which u are usable.       *)
BestOf(r, k, u, q, side) ==
  /\ (\A i \in 1 .. k : ~u[i]) => r = NoRoute
  /\ (\E i \in 1 .. k : u[i]) => /\ \E i \in 1 .. k : u[i] /\ r = q[i]
                                 /\ \A i \in 1 .. k : u[i] => ~Better(side, q[i], r)

LEMMA KeepsBest ==
  ASSUME NEW k \in Nat, NEW u, NEW q, NEW side, NEW r,
         \A i \in 1 .. k + 1 : u[i] => /\ q[i].amountIn \in Nat /\ q[i].amountOut \in Nat
                                       /\ q[i] # NoRoute,
         BestOf(r, k, u, q, side)
  PROVE  BestOf(IF ~u[k + 1] THEN r
                ELSE IF r = NoRoute \/ Better(side, q[k + 1], r) THEN q[k + 1] ELSE r,
                k + 1, u, q, side)
<1> DEFINE m == k + 1
<1>1. /\ \A i : i \in 1 .. m <=> i \in 1 .. k \/ i = m
      /\ m \in 1 .. m
  BY SMT
<1> HIDE DEF m
<1>2. \A i \in 1 .. m : u[i] => /\ q[i].amountIn \in Nat /\ q[i].amountOut \in Nat
                                /\ q[i] # NoRoute
  BY DEF m
<1>3. \A i \in 1 .. m, j \in 1 .. m :
        u[i] /\ u[j] => /\ ~Better(side, q[i], q[i])
                        /\ Better(side, q[i], q[j]) => ~Better(side, q[j], q[i])
  BY <1>2 DEF Better
<1>4. \A i \in 1 .. m, j \in 1 .. m, l \in 1 .. m :
        u[i] /\ u[j] /\ u[l] /\ Better(side, q[j], q[l]) /\ ~Better(side, q[i], q[l])
          => ~Better(side, q[i], q[j])
  BY <1>2 DEF Better
<1>5. CASE ~u[m]
  <2>1. BestOf(r, m, u, q, side)
    BY <1>1, <1>5 DEF BestOf
  <2> QED BY <1>5, <2>1 DEF m
<1>6. CASE u[m] /\ \A i \in 1 .. k : ~u[i]
  <2>1. r = NoRoute
    BY <1>6 DEF BestOf
  <2>2. BestOf(q[m], m, u, q, side)
    BY <1>1, <1>3, <1>6 DEF BestOf
  <2> QED BY <1>6, <2>1, <2>2 DEF m
<1>7. CASE u[m] /\ \E i \in 1 .. k : u[i]
  <2>1. PICK l \in 1 .. k : u[l] /\ r = q[l]
    BY <1>7 DEF BestOf
  <2>2. \A i \in 1 .. k : u[i] => ~Better(side, q[i], r)
    BY <1>7 DEF BestOf
  <2>3. r # NoRoute /\ l \in 1 .. m
    BY <1>1, <1>2, <2>1
  <2>4. CASE Better(side, q[m], r)
    <3>1. \A i \in 1 .. m : u[i] => ~Better(side, q[i], q[m])
      BY <1>1, <1>3, <1>4, <1>7, <2>1, <2>2, <2>3, <2>4
    <3>2. BestOf(q[m], m, u, q, side)
      BY <1>1, <1>7, <3>1 DEF BestOf
    <3> QED BY <1>7, <2>4, <3>2 DEF m
  <2>5. CASE ~Better(side, q[m], r)
    <3>1. BestOf(r, m, u, q, side)
      BY <1>1, <1>7, <2>1, <2>2, <2>3, <2>5 DEF BestOf
    <3> QED BY <1>7, <2>3, <2>5, <3>1 DEF m
  <2> QED BY <2>4, <2>5
<1> QED BY <1>5, <1>6, <1>7

(* The search gives the first of the best of the usable candidates.        *)
LEMMA BestRouteFound ==
  ASSUME Hubs \in Seq(Nat), NEW tIn, NEW tOut, RoutedAddress(tIn) \in Nat, RoutedAddress(tOut) \in Nat,
         NEW ps, ps \in [DOMAIN ps -> Pool], NEW side, NEW amount \in Nat
  PROVE  LET r == BestRoute(ps, tIn, tOut, side, amount)
             offers == {p \in Seqs!ToSet(Candidates(tIn, tOut)) : Usable(ps, p, side, amount)}
         IN  /\ offers = {} => r = NoRoute
             /\ offers # {} => /\ \E p \in offers : r = QuoteAlong(ps, p, side, amount)
                               /\ \A p \in offers : ~Better(side, QuoteAlong(ps, p, side, amount), r)
<1> DEFINE cs == Candidates(tIn, tOut)
           n == Len(cs)
           Is(f) == f = [s \in SUBSET (1 .. n) |-> KeepStep(f, s, ps, side, amount, cs)]
           u == [i \in 1 .. n |-> Usable(ps, cs[i], side, amount)]
           q == [i \in 1 .. n |-> QuoteAlong(ps, cs[i], side, amount)]
           D == {NoRoute} \cup {q[i] : i \in 1 .. n}
           keep(i, best) == IF ~u[i] THEN best
                            ELSE IF best = NoRoute \/ Better(side, q[i], best) THEN q[i] ELSE best
           G == [z \in (1 .. n) \X D |-> keep(z[1], z[2])]
           g == CHOOSE f : Is(f)
           r == BestRoute(ps, tIn, tOut, side, amount)
<1>1. cs \in Seq(Seq(Nat))
  BY CandidatesAre
<1>2. n \in Nat /\ DOMAIN cs = 1 .. n
  <2> HIDE DEF cs
  <2> QED BY <1>1, LenProperties
<1>3. r = g[1 .. n]
  <2> HIDE DEF cs
  <2>1. cs = Candidates(tIn, tOut)
    BY DEF cs
  <2> DEFINE I == 1 .. n
  <2>2. I = DOMAIN cs
    BY <1>2
  <2> HIDE DEF I
  <2>3. BestRoute(ps, tIn, tOut, side, amount) =
           KeepFold(I, ps, side, amount, cs)[I]
    BY <2>1, <2>2, BestRouteIs
  <2> QED BY <2>3 DEF I, KeepFold
<1>4. Seqs!ToSet(cs) = {cs[i] : i \in 1 .. n}
  BY <1>2 DEF Seqs!ToSet
<1>5. \A i \in 1 .. n : Len(cs[i]) \in Nat /\ Len(cs[i]) >= 1
  <2> SUFFICES ASSUME NEW i \in 1 .. n PROVE Len(cs[i]) \in Nat /\ Len(cs[i]) >= 1
    OBVIOUS
  <2> DEFINE p == cs[i]
  <2>1. p \in Seqs!ToSet(Candidates(tIn, tOut))
    BY <1>4
  <2> HIDE DEF p
  <2>2. Len(p) \in Nat /\ Len(p) >= 1
    BY <2>1, CandidatePath
  <2> QED BY <2>2 DEF p
<1> HIDE DEF cs, r
<1>6. \A i \in 1 .. n : u[i] => q[i].amountIn \in Nat /\ q[i].amountOut \in Nat /\ q[i] # NoRoute
  <2> SUFFICES ASSUME NEW i \in 1 .. n, u[i]
               PROVE  q[i].amountIn \in Nat /\ q[i].amountOut \in Nat /\ q[i] # NoRoute
    OBVIOUS
  <2> DEFINE d == QuoteAlong(ps, cs[i], side, amount)
  <2>1. Pairs(cs[i]) \subseteq DOMAIN ps /\ d.amountIn > 0
    BY DEF Usable
  <2>2. d.amountIn \in Nat /\ d.amountOut \in Nat
    <3> DEFINE p == cs[i]
    <3>1. Len(p) \in Nat /\ Len(p) >= 1 /\ Pairs(p) \subseteq DOMAIN ps
      BY <1>5, <2>1
    <3> HIDE DEF p
    <3>2. QuoteAlong(ps, p, side, amount).amountIn \in Nat /\ QuoteAlong(ps, p, side, amount).amountOut \in Nat
      BY <3>1, DealType DEF IsDeal
    <3> QED BY <3>2 DEF p
  <2>3. q[i] = d
    OBVIOUS
  <2> HIDE DEF d, q
  <2>4. d # NoRoute
    BY <2>1, <2>2 DEF NoRoute
  <2> QED BY <2>2, <2>3, <2>4
<1>7. \A i \in 1 .. n : \A best : Keep(ps, side, amount, best, cs[i]) = keep(i, best)
  BY DEF Keep
<1> HIDE DEF u, q
<1>8. G \in [(1 .. n) \X D -> D]
  <2>1. ASSUME NEW z \in (1 .. n) \X D
        PROVE  keep(z[1], z[2]) \in D
    <3>1. z[1] \in 1 .. n /\ z[2] \in D /\ q[z[1]] \in D
      OBVIOUS
    <3> HIDE DEF D
    <3> QED BY <3>1
  <2> HIDE DEF keep, D
  <2> QED BY <2>1
<1>9. NoRoute \in D
  OBVIOUS
<1> HIDE DEF D
<1>10. \E f : Is(f)
  <2>1. PICK f : Folds(f, n, D, NoRoute, G)
    <3> HIDE DEF G, n
    <3> QED BY <1>2, <1>8, <1>9, FoldExists
  <2>2. ASSUME NEW t \in SUBSET (1 .. n)
        PROVE  f[t] = KeepStep(f, t, ps, side, amount, cs)
    <3>1. CASE t = {}
      BY <2>1, <3>1 DEF Folds, KeepStep
    <3>2. CASE t # {}
      <4> DEFINE x == Seqs!Max(t)
      <4>1. x \in t /\ x \in 1 .. n /\ t \ {x} \in SUBSET (1 .. n)
        <5>1. x \in t
          <6> HIDE DEF n
          <6> QED BY <1>2, <3>2, MaxIn
        <5> QED BY <5>1
      <4>2. f[t] = G[<<x, f[t \ {x}]>>] /\ f[t \ {x}] \in D
        BY <2>1, <3>2, <4>1 DEF Folds
      <4>3. KeepStep(f, t, ps, side, amount, cs) = Keep(ps, side, amount, f[t \ {x}], cs[x])
        BY <3>2 DEF KeepStep
      <4> HIDE DEF x, keep
      <4>4. G[<<x, f[t \ {x}]>>] = keep(x, f[t \ {x}])
        BY <4>1, <4>2
      <4> HIDE DEF G
      <4> QED BY <1>7, <4>1, <4>2, <4>3, <4>4
    <3> QED BY <3>1, <3>2
  <2> QED BY <2>1, <2>2 DEF Folds
<1>11. Is(g)
  <2> HIDE DEF Is
  <2> QED BY <1>10
<1>12. \A t \in SUBSET (1 .. n) : g[t] = KeepStep(g, t, ps, side, amount, cs)
  <2> HIDE DEF g
  <2> QED BY <1>11
<1> HIDE DEF g, n, G
<1> DEFINE Q == {k \in Nat : k <= n => BestOf(g[1 .. k], k, u, q, side)}
<1>13. 0 \in Q
  <2>1. 1 .. 0 = {} /\ {} \in SUBSET (1 .. n) /\ 0 \in Nat /\ \A i \in 1 .. 0 : FALSE
    BY SMT
  <2>2. g[1 .. 0] = NoRoute
    BY <1>12, <2>1 DEF KeepStep
  <2>3. BestOf(NoRoute, 0, u, q, side)
    BY <2>1 DEF BestOf
  <2> QED BY <2>1, <2>2, <2>3
<1>14. ASSUME NEW k \in 0 .. n - 1, k \in Q PROVE k + 1 \in Q
  <2>1. /\ 1 .. k + 1 \in SUBSET (1 .. n) /\ 1 .. k + 1 # {} /\ k + 1 \in 1 .. n
        /\ Seqs!Max(1 .. k + 1) = k + 1
        /\ (1 .. k + 1) \ {k + 1} = 1 .. k
        /\ k \in Nat
    BY <1>2, Segments
  <2>2. k <= n /\ k + 1 \in Nat
    BY <1>2, <2>1, SMT
  <2>3. BestOf(g[1 .. k], k, u, q, side)
    BY <1>14, <2>2
  <2> DEFINE best == g[1 .. k]
  <2>4. g[1 .. k + 1] = Keep(ps, side, amount, best, cs[k + 1])
    BY <1>12, <2>1 DEF KeepStep
  <2> HIDE DEF best
  <2>5. g[1 .. k + 1] = keep(k + 1, best)
    <3> HIDE DEF keep
    <3> QED BY <1>7, <2>1, <2>4
  <2>6. BestOf(best, k, u, q, side)
    BY <2>3 DEF best
  <2>7. \A i \in 1 .. k + 1 : u[i] => /\ q[i].amountIn \in Nat /\ q[i].amountOut \in Nat
                                      /\ q[i] # NoRoute
    BY <1>6, <2>1
  <2>8. BestOf(keep(k + 1, best), k + 1, u, q, side)
    BY <2>1, <2>6, <2>7, KeepsBest
  <2> QED BY <2>2, <2>5, <2>8
<1>15. \A k \in 0 .. n : k \in Q
  <2> HIDE DEF Q
  <2> QED BY <1>2, <1>13, <1>14, UpTo
<1>16. n \in 0 .. n /\ n <= n
  BY <1>2, SMT
<1>17. BestOf(r, n, u, q, side)
  BY <1>3, <1>15, <1>16
<1> DEFINE offers == {p \in Seqs!ToSet(cs) : Usable(ps, p, side, amount)}
<1>18. \A i \in 1 .. n : (u[i] <=> Usable(ps, cs[i], side, amount)) /\ q[i] = QuoteAlong(ps, cs[i], side, amount)
  BY DEF u, q
<1>19. \A p : p \in offers <=> \E i \in 1 .. n : u[i] /\ p = cs[i]
  BY <1>4, <1>18
<1>20. offers = {} => r = NoRoute
  BY <1>17, <1>19 DEF BestOf
<1>21. ASSUME offers # {}
       PROVE  /\ \E p \in offers : r = QuoteAlong(ps, p, side, amount)
              /\ \A p \in offers : ~Better(side, QuoteAlong(ps, p, side, amount), r)
  <2>1. \E i \in 1 .. n : u[i]
    BY <1>19, <1>21
  <2>2. PICK i \in 1 .. n : u[i] /\ r = q[i]
    BY <1>17, <2>1 DEF BestOf
  <2>3. \A j \in 1 .. n : u[j] => ~Better(side, q[j], r)
    BY <1>17, <2>1 DEF BestOf
  <2>4. cs[i] \in offers /\ r = QuoteAlong(ps, cs[i], side, amount)
    BY <1>18, <1>19, <2>2
  <2>5. ASSUME NEW p \in offers
        PROVE  ~Better(side, QuoteAlong(ps, p, side, amount), r)
    <3>1. PICK j \in 1 .. n : u[j] /\ p = cs[j]
      BY <1>19
    <3> QED BY <1>18, <2>3, <3>1
  <2> QED BY <2>4, <2>5
<1> QED BY <1>20, <1>21 DEF cs, r

-----------------------------------------------------------------------------
(* The invariant behind the amounts, and what the card shows under it.     *)

(* What every request asks for, on the pools there are.                    *)
AskedOn(r, known) ==
  /\ {"kind", "amount", "quote", "status", "noticed", "paid", "got", "from", "to"} \subseteq DOMAIN r
  /\ r.kind \in {"approve", "swap"}
  /\ r.amount \in Nat /\ r.quote.maxSold \in Nat
  /\ r.kind = "approve" => r.from \in Erc20 /\ r.amount = r.quote.maxSold
  /\ r.kind = "swap" =>
       /\ {"side", "limit", "value"} \subseteq DOMAIN r
       /\ r.from \in Token /\ r.to \in Token
       /\ Len(r.quote.route.path) \in Nat /\ Len(r.quote.route.path) >= 1
       /\ Pairs(r.quote.route.path) \subseteq known
       /\ r.value = r.quote.maxSold
       /\ IF r.side = "in"
          THEN r.amount = r.quote.maxSold /\ r.limit = r.quote.minReceived
          ELSE r.amount = r.quote.minReceived /\ r.limit = r.quote.maxSold

(* A mined swap kept to what was shown when it was asked for.              *)
Honoured(r) ==
  r.kind = "swap" /\ r.status = "mined" =>
    r.paid <= r.quote.maxSold /\ r.got >= r.quote.minReceived

(* The conjuncts of the invariant, one for each part of the state.         *)
ChainTyped ==
  /\ pools \in [DOMAIN pools -> Pool]
  /\ wallet \in [Token -> Nat] /\ allowance \in [Erc20 -> Nat]

CardTyped ==
  /\ tokenIn \in Token /\ tokenOut \in Token
  /\ typed \in [side : {"in", "out"}, value : Amounts]

SeenTyped ==
  /\ seenPools \in [DOMAIN seenPools -> Pool] /\ DOMAIN seenPools \subseteq DOMAIN pools
  /\ \A p \in DOMAIN seenPools : seenPools[p].reserve0 > 0 /\ seenPools[p].reserve1 > 0

RequestsHold ==
  /\ IsSequence
  /\ \A i \in DOMAIN requests : AskedOn(requests[i], DOMAIN pools) /\ Honoured(requests[i])

SlotsHold ==
  /\ queue \in Seq(DOMAIN requests)
  /\ swap \in 0 .. Len(requests) /\ (swap # 0 => requests[swap].kind = "swap")
  /\ approval \in 0 .. Len(requests) /\ (approval # 0 => requests[approval].kind = "approve")

(* The inductive invariant behind the amounts.                             *)
FormInv ==
  /\ ChainTyped /\ CardTyped /\ SeenTyped /\ RequestsHold /\ SlotsHold /\ ExposureIsOneTrade

LEMMA Routed ==
  ASSUME NEW t \in Token
  PROVE  RoutedAddress(t) \in Nat
BY SwapFormAssumption DEF RoutedAddress

LEMMA ValueType ==
  ASSUME CardTyped
  PROVE  typed.value \in Nat /\ typed.side \in {"in", "out"} /\ typed.value \in Amounts
BY SwapFormAssumption DEF CardTyped

(* The paths of SimplePaths are those the search goes through.             *)
LEMMA SimplePathsAre ==
  ASSUME CardTyped
  PROVE  SimplePaths = Seqs!ToSet(Candidates(tokenIn, tokenOut))
<1> DEFINE a == RoutedAddress(tokenIn)
           b == RoutedAddress(tokenOut)
           hubs == {Hubs[i] : i \in DOMAIN Hubs}
           all == {<<a, b>>} \cup {<<a, h, b>> : h \in hubs} \cup {<<a, h, k, b>> : h \in hubs, k \in hubs}
           simple(p) == \A i, j \in DOMAIN p : i # j => p[i] # p[j]
           cs == Candidates(tokenIn, tokenOut)
<1>1. a \in Nat /\ b \in Nat /\ Hubs \in Seq(Nat)
  BY Routed, SwapFormAssumption DEF CardTyped
<1>2. /\ a # b => Seqs!ToSet(cs) = Through(a, b, hubs \ {a, b})
      /\ a = b => Seqs!ToSet(cs) = {}
  <2>1. hubs = Seqs!ToSet(Hubs)
    BY DEF Seqs!ToSet
  <2> QED BY <1>1, <2>1, CandidatesAre
<1>3. SimplePaths = {p \in all : simple(p)}
  BY DEF SimplePaths
<1> HIDE DEF cs, a, b, hubs
<1>4. simple(<<a, b>>) <=> a # b
  <2>1. DOMAIN <<a, b>> = {1, 2} /\ <<a, b>>[1] = a /\ <<a, b>>[2] = b
    OBVIOUS
  <2> QED BY <2>1
<1>5. \A h : simple(<<a, h, b>>) <=> a # b /\ h # a /\ h # b
  <2> SUFFICES ASSUME NEW h PROVE simple(<<a, h, b>>) <=> a # b /\ h # a /\ h # b
    OBVIOUS
  <2> DEFINE p == <<a, h, b>>
  <2>1. DOMAIN p = {1, 2, 3} /\ p[1] = a /\ p[2] = h /\ p[3] = b
    OBVIOUS
  <2> HIDE DEF p
  <2>2. simple(p) <=> a # b /\ h # a /\ h # b
    BY <2>1
  <2> QED BY <2>2 DEF p
<1>6. \A h, k : simple(<<a, h, k, b>>) <=> a # b /\ h # a /\ h # b /\ k # a /\ k # b /\ h # k
  <2> SUFFICES ASSUME NEW h, NEW k
               PROVE  simple(<<a, h, k, b>>) <=> a # b /\ h # a /\ h # b /\ k # a /\ k # b /\ h # k
    OBVIOUS
  <2> DEFINE p == <<a, h, k, b>>
  <2>1. DOMAIN p = {1, 2, 3, 4} /\ p[1] = a /\ p[2] = h /\ p[3] = k /\ p[4] = b
    OBVIOUS
  <2> HIDE DEF p
  <2>2. simple(p) <=> a # b /\ h # a /\ h # b /\ k # a /\ k # b /\ h # k
    BY <2>1
  <2> QED BY <2>2 DEF p
<1> HIDE DEF simple
<1>7. \A h, k : <<a, h, k, b>>[2] = h /\ <<a, h, k, b>>[3] = k
  OBVIOUS
<1>8. CASE a = b
  <2>1. \A p \in all : ~simple(p)
    BY <1>4, <1>5, <1>6, <1>8
  <2> HIDE DEF all
  <2> QED BY <1>2, <1>3, <1>8, <2>1 DEF cs
<1>9. CASE a # b
  <2> DEFINE U == hubs \ {a, b}
  <2>1. \A p : p \in Through(a, b, U)
               <=> \/ p = <<a, b>>
                   \/ \E h \in U : p = <<a, h, b>>
                   \/ \E h \in U, k \in U : p = <<a, h, k, b>> /\ h # k
    <3> HIDE DEF U
    <3> QED BY <1>7 DEF Through
  <2>2. \A p : p \in all /\ simple(p)
               <=> \/ p = <<a, b>>
                   \/ \E h \in U : p = <<a, h, b>>
                   \/ \E h \in U, k \in U : p = <<a, h, k, b>> /\ h # k
    BY <1>4, <1>5, <1>6, <1>9
  <2> HIDE DEF U, all
  <2>3. SimplePaths = Through(a, b, U)
    BY <1>3, <2>1, <2>2
  <2> QED BY <1>2, <1>9, <2>3 DEF U, cs
<1> QED BY <1>8, <1>9 DEF cs

(* A route that is shown is the deal of a path over pools that were read.  *)
LEMMA RouteIsDeal ==
  ASSUME CardTyped, SeenTyped, Route # NoRoute
  PROVE  /\ Len(Route.path) \in Nat /\ Len(Route.path) >= 1
         /\ Pairs(Route.path) \subseteq DOMAIN seenPools
         /\ Route = QuoteAlong(seenPools, Route.path, typed.side, typed.value)
         /\ Route.amountIn \in Nat /\ Route.amountOut \in Nat
         /\ typed.side = "in" => Route.amountIn = typed.value
         /\ typed.side # "in" => Route.amountOut = typed.value
<1> DEFINE side == typed.side
           x == typed.value
           offers == {p \in Seqs!ToSet(Candidates(tokenIn, tokenOut)) : Usable(seenPools, p, side, x)}
           r == Route
<1>1. x \in Nat /\ RoutedAddress(tokenIn) \in Nat /\ RoutedAddress(tokenOut) \in Nat
      /\ Hubs \in Seq(Nat) /\ seenPools \in [DOMAIN seenPools -> Pool]
  BY ValueType, Routed, SwapFormAssumption DEF CardTyped, SeenTyped
<1>2. r = BestRoute(seenPools, tokenIn, tokenOut, side, x)
  BY DEF Route
<1> HIDE DEF r, x, side
<1>3. r # NoRoute
  BY DEF r
<1>4. PICK p \in Seqs!ToSet(Candidates(tokenIn, tokenOut)) :
        Usable(seenPools, p, side, x) /\ r = QuoteAlong(seenPools, p, side, x)
  <2>1. offers = {} => r = NoRoute
    BY <1>1, <1>2, BestRouteFound
  <2>2. offers # {} => \E p \in offers : r = QuoteAlong(seenPools, p, side, x)
    BY <1>1, <1>2, BestRouteFound
  <2> QED BY <1>3, <2>1, <2>2
<1>5. Len(p) \in Nat /\ Len(p) >= 1
  BY <1>1, CandidatePath
<1>6. Pairs(p) \subseteq DOMAIN seenPools
  BY <1>4 DEF Usable
<1>7. /\ r.path = p /\ r.amountIn \in Nat /\ r.amountOut \in Nat
      /\ side = "in" => r.amountIn = x
      /\ side # "in" => r.amountOut = x
  <2> DEFINE q == QuoteAlong(seenPools, p, side, x)
  <2>1. IsDeal(q, p, side, x)
    BY <1>1, <1>5, <1>6, DealType
  <2>2. r = q
    BY <1>4
  <2> HIDE DEF q
  <2> QED BY <2>1, <2>2 DEF IsDeal
<1> QED BY <1>4, <1>5, <1>6, <1>7 DEF r, x, side

(* RouteIsBest: no path over what was read is better than the one shown.   *)
LEMMA BestIsShown ==
  ASSUME CardTyped, SeenTyped
  PROVE  RouteIsBest
<1> SUFFICES ASSUME typed.value > 0
             PROVE  LET deals == {QuoteAlong(seenPools, p, typed.side, typed.value) :
                                    p \in {q \in SimplePaths : Usable(seenPools, q, typed.side, typed.value)}}
                    IN  IF deals = {} THEN Route = NoRoute
                        ELSE /\ Route \in deals
                             /\ \A d \in deals : IF typed.side = "in" THEN d.amountOut <= Route.amountOut
                                                ELSE d.amountIn >= Route.amountIn
  BY DEF RouteIsBest
<1> DEFINE side == typed.side
           x == typed.value
           offers == {p \in Seqs!ToSet(Candidates(tokenIn, tokenOut)) : Usable(seenPools, p, side, x)}
           offer(p) == QuoteAlong(seenPools, p, side, x)
           deals == {offer(p) : p \in {q \in SimplePaths : Usable(seenPools, q, side, x)}}
           r == Route
<1>1. x \in Nat /\ RoutedAddress(tokenIn) \in Nat /\ RoutedAddress(tokenOut) \in Nat
      /\ Hubs \in Seq(Nat) /\ seenPools \in [DOMAIN seenPools -> Pool]
  BY ValueType, Routed, SwapFormAssumption DEF CardTyped, SeenTyped
<1>2. r = BestRoute(seenPools, tokenIn, tokenOut, side, x)
  BY DEF Route
<1> HIDE DEF x, side, r
<1>3. deals = {offer(p) : p \in offers}
  BY SimplePathsAre
<1>4. offers = {} => r = NoRoute
  BY <1>1, <1>2, BestRouteFound
<1>5. offers # {} => /\ \E p \in offers : r = offer(p)
                     /\ \A p \in offers : ~Better(side, offer(p), r)
  BY <1>1, <1>2, BestRouteFound
<1>6. \A p \in offers : offer(p).amountIn \in Nat /\ offer(p).amountOut \in Nat
  <2> SUFFICES ASSUME NEW p \in offers
               PROVE  offer(p).amountIn \in Nat /\ offer(p).amountOut \in Nat
    OBVIOUS
  <2>1. Len(p) \in Nat /\ Len(p) >= 1 /\ Pairs(p) \subseteq DOMAIN seenPools
    <3>1. Len(p) \in Nat /\ Len(p) >= 1
      BY <1>1, CandidatePath
    <3> QED BY <3>1 DEF Usable
  <2> QED BY <1>1, <2>1, DealType DEF IsDeal
<1> HIDE DEF offers, offer, deals
<1>7. CASE deals = {}
  BY <1>3, <1>4, <1>7 DEF deals, offer, side, x, r
<1>8. CASE deals # {}
  <2>1. offers # {}
    BY <1>3, <1>8
  <2>2. PICK p \in offers : r = offer(p)
    BY <1>5, <2>1
  <2>3. r \in deals /\ r.amountIn \in Nat /\ r.amountOut \in Nat
    BY <1>3, <1>6, <2>2
  <2>4. ASSUME NEW d \in deals
        PROVE  IF side = "in" THEN d.amountOut <= r.amountOut ELSE d.amountIn >= r.amountIn
    <3>1. PICK q \in offers : d = offer(q)
      BY <1>3
    <3>2. d.amountIn \in Nat /\ d.amountOut \in Nat /\ ~Better(side, d, r)
      BY <1>5, <1>6, <2>1, <3>1
    <3> QED BY <2>3, <3>2 DEF Better
  <2> QED BY <1>8, <2>3, <2>4 DEF deals, offer, side, x, r
<1> QED BY <1>7, <1>8

(* FreshQuoteIsExact: the router computes what the card shows while the    *)
(* reading is true.                                                        *)
LEMMA ExactWhileTrue ==
  ASSUME ChainTyped, CardTyped, SeenTyped
  PROVE  FreshQuoteIsExact
<1> DEFINE path == Route.path
           x == typed.value
           amounts == AmountsAlong(path, typed.side, x)
<1> SUFFICES ASSUME Route # NoRoute, \A p \in Pairs(path) : seenPools[p] = pools[p]
             PROVE  amounts[1] = Route.amountIn /\ amounts[Len(amounts)] = Route.amountOut
  BY DEF FreshQuoteIsExact, HasQuote
<1> DEFINE r == Route
           n == Len(path)
<1>1. /\ n \in Nat /\ n >= 1 /\ Pairs(path) \subseteq DOMAIN seenPools
      /\ r = QuoteAlong(seenPools, path, typed.side, x)
      /\ seenPools \in [DOMAIN seenPools -> Pool] /\ pools \in [DOMAIN pools -> Pool]
      /\ Pairs(path) \subseteq DOMAIN pools
  BY RouteIsDeal DEF SeenTyped, ChainTyped
<1>2. StillTrue(seenPools, path) /\ x \in Nat
  BY <1>1, ValueType DEF StillTrue, SeenTyped
<1> HIDE DEF r, path, x, n
<1>3. \A c \in [1 .. n -> Nat] : Len(c) = n
  <2> SUFFICES ASSUME NEW c \in [1 .. n -> Nat] PROVE Len(c) = n
    OBVIOUS
  <2>1. c \in Seq(Nat)
    BY <1>1, SeqDef
  <2> QED BY <1>1, <2>1, LenProperties
<1>4. CASE typed.side = "in"
  <2>1. r = QuoteExactIn(seenPools, path, x) /\ amounts = AmountsOut(path, x)
    BY <1>1, <1>4 DEF QuoteAlong, AmountsAlong
  <2>2. r.amountIn = x
    BY <1>1, <1>2, <2>1, QuoteInFollows DEF n
  <2>3. PICK c : QuotedIn(c, seenPools, path, x) /\ r.amountOut = c[n]
    BY <1>1, <1>2, <2>1, QuoteInFollows DEF n
  <2> HIDE DEF amounts
  <2>4. RoutedOut(amounts, path, x)
    BY <1>1, <1>2, <2>1, AmountsOutFollow DEF n
  <2>5. amounts[1] = c[1] /\ amounts[n] = c[n]
    BY <1>1, <1>2, <2>3, <2>4, SameOut DEF n
  <2>6. c[1] = x /\ Len(amounts) = n
    BY <1>3, <2>3, <2>4 DEF QuotedIn, RoutedOut, n
  <2> QED BY <2>2, <2>3, <2>5, <2>6 DEF amounts, r, path, x
<1>5. CASE typed.side # "in"
  <2>1. r = QuoteExactOut(seenPools, path, x) /\ amounts = AmountsIn(path, x)
    BY <1>1, <1>5 DEF QuoteAlong, AmountsAlong
  <2>2. r.amountOut = x
    BY <1>1, <1>2, <2>1, QuoteOutFollows DEF n
  <2>3. PICK c : QuotedOut(c, seenPools, path, x) /\ r.amountIn = c[1]
    BY <1>1, <1>2, <2>1, QuoteOutFollows DEF n
  <2> HIDE DEF amounts
  <2>4. RoutedIn(amounts, path, x)
    BY <1>1, <1>2, <2>1, AmountsInFollow DEF n
  <2>5. amounts[1] = c[1] /\ amounts[n] = c[n]
    BY <1>1, <1>2, <2>3, <2>4, SameIn DEF n
  <2>6. c[n] = x /\ Len(amounts) = n
    BY <1>3, <2>3, <2>4 DEF QuotedOut, RoutedIn, n
  <2> QED BY <2>2, <2>3, <2>5, <2>6 DEF amounts, r, path, x
<1> QED BY <1>4, <1>5

-----------------------------------------------------------------------------
(* The steps.                                                              *)

(* What a request carries along once it is asked.                          *)
Carries(q, r) ==
  DOMAIN q = DOMAIN r /\ \A f \in DOMAIN r \ {"status", "noticed", "paid", "got"} : q[f] = r[f]

Carried ==
  /\ IsSequence' /\ Len(requests') = Len(requests)
  /\ \A j \in DOMAIN requests : Carries(requests'[j], requests[j]) /\ Honoured(requests'[j])

LEMMA AskedStays ==
  ASSUME NEW known, NEW r, AskedOn(r, known), NEW q, Carries(q, r)
  PROVE  AskedOn(q, known) /\ q.kind = r.kind /\ q.from = r.from /\ q.quote = r.quote
<1>1. /\ {"kind", "amount", "quote", "status", "noticed", "paid", "got", "from", "to"} \subseteq DOMAIN r
      /\ r.kind = "swap" => {"side", "limit", "value"} \subseteq DOMAIN r
  BY DEF AskedOn
<1>2. /\ q.kind = r.kind /\ q.amount = r.amount /\ q.quote = r.quote
      /\ q.from = r.from /\ q.to = r.to
  BY <1>1 DEF Carries
<1>3. r.kind = "swap" => q.side = r.side /\ q.limit = r.limit /\ q.value = r.value
  BY <1>1 DEF Carries
<1>4. DOMAIN q = DOMAIN r
  BY DEF Carries
<1> QED BY <1>2, <1>3, <1>4 DEF AskedOn

LEMMA CarriedDomain ==
  ASSUME IsSequence, IsSequence', Len(requests') = Len(requests)
  PROVE  /\ Len(requests) \in Nat /\ DOMAIN requests = 1 .. Len(requests)
         /\ DOMAIN requests' = DOMAIN requests
<1>1. Len(requests) \in Nat /\ DOMAIN requests = 1 .. Len(requests)
  BY RequestsLength
<1>2. DOMAIN requests' = 1 .. Len(requests')
  BY LenProperties DEF IsSequence
<1> QED BY <1>1, <1>2

LEMMA CarriedStep ==
  ASSUME RequestsHold, SlotsHold, Carried, DOMAIN pools' = DOMAIN pools,
         queue' \in Seq(DOMAIN requests), swap' \in {0, swap}, approval' = approval
  PROVE  RequestsHold' /\ SlotsHold'
<1>1. /\ Len(requests) \in Nat /\ DOMAIN requests = 1 .. Len(requests)
      /\ DOMAIN requests' = DOMAIN requests /\ Len(requests') = Len(requests)
  BY CarriedDomain DEF RequestsHold, Carried
<1>2. \A j \in DOMAIN requests : /\ AskedOn(requests'[j], DOMAIN pools)
                                 /\ requests'[j].kind = requests[j].kind
                                 /\ Honoured(requests'[j])
  BY AskedStays DEF RequestsHold, Carried
<1>3. RequestsHold'
  BY <1>1, <1>2 DEF RequestsHold, Carried
<1>4. \A i \in 0 .. Len(requests) : i # 0 => i \in DOMAIN requests
  BY <1>1, SMT
<1>5. SlotsHold'
  <2>1. queue' \in Seq(DOMAIN requests')
    BY <1>1
  <2>2. swap' \in 0 .. Len(requests') /\ (swap' # 0 => requests'[swap'].kind = "swap")
    <3>1. 0 \in 0 .. Len(requests)
      BY <1>1, SMT
    <3> QED BY <1>1, <1>2, <1>4, <3>1 DEF SlotsHold
  <2>3. approval' \in 0 .. Len(requests') /\ (approval' # 0 => requests'[approval'].kind = "approve")
    BY <1>1, <1>2, <1>4 DEF SlotsHold
  <2> QED BY <2>1, <2>2, <2>3 DEF SlotsHold
<1> QED BY <1>3, <1>5

(* Nobody may take more than before: an allowance only fell.               *)
LEMMA CarriedExposure ==
  ASSUME RequestsHold, Carried, ExposureIsOneTrade,
         ChainTyped, \A t \in Erc20 : allowance'[t] \in Nat /\ allowance'[t] <= allowance[t]
  PROVE  ExposureIsOneTrade'
<1>1. DOMAIN requests' = DOMAIN requests
  BY CarriedDomain DEF RequestsHold, Carried
<1>2. \A j \in DOMAIN requests : /\ requests'[j].kind = requests[j].kind
                                 /\ requests'[j].from = requests[j].from
                                 /\ requests'[j].quote = requests[j].quote
                                 /\ requests[j].quote.maxSold \in Nat
  BY AskedStays DEF RequestsHold, Carried, AskedOn
<1>3. ASSUME NEW t \in Erc20, allowance'[t] > 0
      PROVE  \E i \in DOMAIN requests : /\ requests'[i].kind = "approve" /\ requests'[i].from = t
                                        /\ allowance'[t] <= requests'[i].quote.maxSold
  <2>1. allowance[t] \in Nat /\ allowance'[t] \in Nat /\ allowance'[t] <= allowance[t]
    BY DEF ChainTyped
  <2>2. allowance[t] > 0
    BY <1>3, <2>1, SMT
  <2>3. PICK i \in DOMAIN requests : /\ requests[i].kind = "approve" /\ requests[i].from = t
                                     /\ allowance[t] <= requests[i].quote.maxSold
    BY <2>2 DEF ExposureIsOneTrade
  <2>4. allowance'[t] <= requests[i].quote.maxSold
    BY <1>2, <2>1, <2>3, SMT
  <2> QED BY <1>2, <2>3, <2>4
<1> QED BY <1>1, <1>3 DEF ExposureIsOneTrade

LEMMA UnchangedCarried ==
  ASSUME RequestsHold, UNCHANGED requests
  PROVE  Carried
BY DEF RequestsHold, Carried, Carries, IsSequence, Honoured

(* A request whose status or notice changes: no swap is mined by that.     *)
LEMMA StatusCarried ==
  ASSUME RequestsHold, NEW i, NEW v, v # "mined" \/ requests[i].kind = "approve",
         requests' = [requests EXCEPT ![i].status = v]
  PROVE  Carried
<1> DEFINE q == [requests[i] EXCEPT !.status = v]
<1>1. requests' = [requests EXCEPT ![i] = q]
  OBVIOUS
<1>2. ASSUME i \in DOMAIN requests PROVE Carries(q, requests[i]) /\ Honoured(q)
  <2>1. AskedOn(requests[i], DOMAIN pools)
    BY <1>2 DEF RequestsHold
  <2>2. q.status = v /\ q.kind = requests[i].kind
    BY <2>1 DEF AskedOn
  <2> QED BY <2>2 DEF Carries, Honoured
<1> HIDE DEF q
<1>3. /\ IsSequence' /\ Len(requests') = Len(requests)
      /\ \A j \in DOMAIN requests : requests'[j] = IF j = i THEN q ELSE requests[j]
  BY <1>1, OneRequest DEF RequestsHold
<1>4. \A j \in DOMAIN requests : Carries(requests[j], requests[j]) /\ Honoured(requests[j])
  BY DEF RequestsHold, Carries
<1> QED BY <1>2, <1>3, <1>4 DEF Carried

LEMMA NoticeCarried ==
  ASSUME RequestsHold, NEW i, NEW v, requests' = [requests EXCEPT ![i].noticed = v]
  PROVE  Carried
<1> DEFINE q == [requests[i] EXCEPT !.noticed = v]
<1>1. requests' = [requests EXCEPT ![i] = q]
  OBVIOUS
<1>2. ASSUME i \in DOMAIN requests PROVE Carries(q, requests[i]) /\ Honoured(q)
  <2>1. AskedOn(requests[i], DOMAIN pools) /\ Honoured(requests[i])
    BY <1>2 DEF RequestsHold
  <2>2. /\ q.status = requests[i].status /\ q.kind = requests[i].kind
        /\ q.paid = requests[i].paid /\ q.got = requests[i].got /\ q.quote = requests[i].quote
    BY <2>1 DEF AskedOn
  <2>3. Carries(q, requests[i])
    BY DEF Carries
  <2> HIDE DEF q
  <2> QED BY <2>1, <2>2, <2>3 DEF Honoured
<1> HIDE DEF q
<1>3. /\ IsSequence' /\ Len(requests') = Len(requests)
      /\ \A j \in DOMAIN requests : requests'[j] = IF j = i THEN q ELSE requests[j]
  BY <1>1, OneRequest DEF RequestsHold
<1>4. \A j \in DOMAIN requests : Carries(requests[j], requests[j]) /\ Honoured(requests[j])
  BY DEF RequestsHold, Carries
<1> QED BY <1>2, <1>3, <1>4 DEF Carried

LEMMA MinedCarried ==
  ASSUME RequestsHold, NEW i \in DOMAIN requests, NEW a, NEW b,
         a <= requests[i].quote.maxSold /\ b >= requests[i].quote.minReceived,
         requests' = [requests EXCEPT ![i].status = "mined", ![i].paid = a, ![i].got = b]
  PROVE  Carried
<1> DEFINE q == [requests[i] EXCEPT !.status = "mined", !.paid = a, !.got = b]
<1>1. requests' = [requests EXCEPT ![i] = q]
  OBVIOUS
<1>2. Carries(q, requests[i]) /\ Honoured(q)
  <2>1. AskedOn(requests[i], DOMAIN pools)
    BY DEF RequestsHold
  <2>2. /\ q.paid = a /\ q.got = b /\ q.quote = requests[i].quote
    BY <2>1 DEF AskedOn
  <2>3. Carries(q, requests[i])
    BY DEF Carries
  <2> HIDE DEF q
  <2> QED BY <2>2, <2>3 DEF Honoured
<1> HIDE DEF q
<1>3. /\ IsSequence' /\ Len(requests') = Len(requests)
      /\ \A j \in DOMAIN requests : requests'[j] = IF j = i THEN q ELSE requests[j]
  BY <1>1, OneRequest DEF RequestsHold
<1>4. \A j \in DOMAIN requests : Carries(requests[j], requests[j]) /\ Honoured(requests[j])
  BY DEF RequestsHold, Carries
<1> QED BY <1>2, <1>3, <1>4 DEF Carried

(* What is asked for, with its slot.                                       *)
LEMMA AddedStep ==
  ASSUME FormInv, NEW r, Added(r), AskedOn(requests'[Len(requests) + 1], DOMAIN pools),
         UNCHANGED <<pools, allowance, queue>>,
         \/ requests'[Len(requests')].kind = "approve" /\ swap' = swap /\ approval' = Len(requests')
         \/ requests'[Len(requests')].kind = "swap" /\ approval' = approval /\ swap' = Len(requests')
  PROVE  RequestsHold' /\ SlotsHold' /\ ExposureIsOneTrade'
<1> DEFINE n == Len(requests) + 1
<1>1. /\ IsSequence /\ Len(requests) \in Nat /\ DOMAIN requests = 1 .. Len(requests)
  BY RequestsLength DEF FormInv, RequestsHold
<1>2. /\ IsSequence' /\ Len(requests') = n /\ DOMAIN requests' = 1 .. n
      /\ \A j \in DOMAIN requests : requests'[j] = requests[j]
      /\ requests'[n].status = "asked"
      /\ AskedOn(requests'[n], DOMAIN pools)
  BY <1>1, LenProperties DEF Added, IsSequence
<1>3. /\ \A i : i \in 1 .. n <=> i \in DOMAIN requests \/ i = n
      /\ \A i \in 0 .. Len(requests) : i \in 0 .. n /\ (i # 0 => i \in DOMAIN requests)
      /\ n \in 0 .. n
  BY <1>1, SMT
<1> HIDE DEF n
<1>4. RequestsHold'
  <2>1. Honoured(requests'[n])
    BY <1>2 DEF Honoured
  <2>2. \A i \in 1 .. n : AskedOn(requests'[i], DOMAIN pools) /\ Honoured(requests'[i])
    BY <1>2, <1>3, <2>1 DEF FormInv, RequestsHold
  <2> QED BY <1>2, <2>2 DEF RequestsHold
<1>5. SlotsHold'
  <2>1. queue' \in Seq(DOMAIN requests')
    <3>1. DOMAIN requests \subseteq DOMAIN requests'
      BY <1>2, <1>3
    <3> QED BY <3>1, SeqMonotonic DEF FormInv, SlotsHold
  <2>2. /\ swap' \in 0 .. Len(requests') /\ (swap' # 0 => requests'[swap'].kind = "swap")
        /\ approval' \in 0 .. Len(requests') /\ (approval' # 0 => requests'[approval'].kind = "approve")
    BY <1>2, <1>3 DEF FormInv, SlotsHold
  <2> QED BY <2>1, <2>2 DEF SlotsHold
<1>6. ExposureIsOneTrade'
  BY <1>2, <1>3 DEF FormInv, ExposureIsOneTrade
<1> QED BY <1>4, <1>5, <1>6

LEMMA EmptyFunction ==
  ASSUME NEW T
  PROVE  <<>> \in [DOMAIN <<>> -> T] /\ DOMAIN <<>> = {}
<1>1. <<>> \in Seq(T) /\ DOMAIN <<>> = {}
  BY EmptySeq
<1>2. <<>> \in [1 .. Len(<<>>) -> T] /\ DOMAIN <<>> = 1 .. Len(<<>>)
  BY <1>1, LenProperties
<1> QED BY <1>1, <1>2

LEMMA InitForm == Init => FormInv
<1> SUFFICES ASSUME Init PROVE FormInv
  OBVIOUS
<1>1. PICK o \in Openings : /\ pools = o.pools /\ wallet = o.wallet
                            /\ tokenIn = o.tokenIn /\ tokenOut = o.tokenOut
  BY DEF Init
<1>2. /\ requests = <<>> /\ queue = <<>> /\ swap = 0 /\ approval = 0 /\ seenPools = <<>>
      /\ typed = [side |-> "in", value |-> 0] /\ allowance = [t \in Erc20 |-> 0]
  BY DEF Init
<1>3. ChainTyped
  BY <1>1, <1>2, SwapFormAssumption DEF ChainTyped
<1>4. CardTyped
  BY <1>1, <1>2, SwapFormAssumption DEF CardTyped
<1>5. SeenTyped
  BY <1>2, EmptyFunction DEF SeenTyped
<1>6. DOMAIN requests = {} /\ IsSequence
  BY <1>2, EmptySeq DEF IsSequence
<1>7. RequestsHold
  BY <1>6 DEF RequestsHold
<1>8. SlotsHold
  <2>1. Len(requests) \in Nat
    BY <1>6, RequestsLength
  <2>2. 0 \in 0 .. Len(requests)
    BY <2>1, SMT
  <2>3. queue \in Seq(DOMAIN requests)
    BY <1>2, EmptySeq
  <2> QED BY <1>2, <2>2, <2>3 DEF SlotsHold
<1>9. ExposureIsOneTrade
  <2>1. \A t \in Erc20 : ~(allowance[t] > 0)
    BY <1>2, SMT
  <2> QED BY <2>1 DEF ExposureIsOneTrade
<1> QED BY <1>3, <1>4, <1>5, <1>7, <1>8, <1>9 DEF FormInv

(* A step that moves no funds and asks for nothing.                        *)
LEMMA NothingMoves ==
  ASSUME FormInv, Carried, UNCHANGED <<pools, wallet, allowance>>, queue' \in Seq(DOMAIN requests),
         swap' \in {0, swap}, approval' = approval, CardTyped', SeenTyped'
  PROVE  FormInv'
<1>1. RequestsHold' /\ SlotsHold'
  BY CarriedStep DEF FormInv
<1>2. ChainTyped'
  BY DEF FormInv, ChainTyped
<1>3. ExposureIsOneTrade'
  <2>1. \A t \in Erc20 : allowance'[t] \in Nat /\ allowance'[t] <= allowance[t]
    BY DEF FormInv, ChainTyped
  <2> QED BY <2>1, CarriedExposure DEF FormInv
<1> QED BY <1>1, <1>2, <1>3 DEF FormInv

LEMMA SameCard ==
  ASSUME FormInv, UNCHANGED <<tokenIn, tokenOut, typed>>
  PROVE  CardTyped'
BY DEF FormInv, CardTyped

LEMMA SameSeen ==
  ASSUME FormInv, UNCHANGED <<pools, seenPools>>
  PROVE  SeenTyped'
BY DEF FormInv, SeenTyped

LEMMA SameQueue ==
  ASSUME FormInv
  PROVE  /\ queue \in Seq(DOMAIN requests)
         /\ queue # <<>> => Head(queue) \in DOMAIN requests /\ Tail(queue) \in Seq(DOMAIN requests)
         /\ \A i \in DOMAIN requests : Append(queue, i) \in Seq(DOMAIN requests)
<1>1. queue \in Seq(DOMAIN requests)
  BY DEF FormInv, SlotsHold
<1> QED BY <1>1, HeadTailProperties, AppendProperties

(* What is shown, when it is asked for.                                    *)
LEMMA QuoteIsSound ==
  ASSUME FormInv, HasQuote, NEW quote, quote = QuoteOf(Route, typed.side)
  PROVE  /\ quote.maxSold \in Nat /\ quote.route = Route
         /\ Len(quote.route.path) \in Nat /\ Len(quote.route.path) >= 1
         /\ Pairs(quote.route.path) \subseteq DOMAIN pools
         /\ quote.route.amountIn \in Nat /\ quote.route.amountOut \in Nat
         /\ typed.side = "in" => quote.maxSold = quote.route.amountIn
         /\ typed.side # "in" => quote.minReceived = quote.route.amountOut
<1>1. Route # NoRoute /\ CardTyped /\ SeenTyped
  BY DEF HasQuote, FormInv
<1>2. /\ Len(Route.path) \in Nat /\ Len(Route.path) >= 1
      /\ Pairs(Route.path) \subseteq DOMAIN seenPools
      /\ Route.amountIn \in Nat /\ Route.amountOut \in Nat
  BY <1>1, RouteIsDeal
<1>3. Pairs(Route.path) \subseteq DOMAIN pools
  BY <1>1, <1>2 DEF SeenTyped
<1>4. typed.side \in {"in", "out"}
  BY <1>1, ValueType
<1>5. /\ quote.route = Route
      /\ quote.minReceived = IF typed.side = "in" THEN MinimumReceived(Route.amountOut, SlippageBps)
                                                 ELSE Route.amountOut
      /\ quote.maxSold = IF typed.side = "out" THEN MaximumSold(Route.amountIn, SlippageBps)
                                              ELSE Route.amountIn
  BY DEF QuoteOf
<1>6. MaximumSold(Route.amountIn, SlippageBps) \in Nat
  <2> DEFINE x == Route.amountIn
             y == Bps + SlippageBps
  <2>1. x \in Nat /\ y \in Nat
    <3>1. Bps = 10000 /\ SlippageBps \in 1 .. Bps - 1
      BY SwapFormAssumption DEF Bps
    <3>2. y \in Nat
      BY <3>1, SMT
    <3> QED BY <1>2, <3>2
  <2> HIDE DEF x, y
  <2>2. x * y \in Nat
    BY <2>1, SMT
  <2> DEFINE z == x * y
  <2>3. z \in Nat
    BY <2>2
  <2> HIDE DEF z
  <2>4. Bps \in Nat /\ Bps > 0
    BY SMT DEF Bps
  <2>5. z \div Bps \in Nat
    BY <2>3, <2>4, DivBounds
  <2> QED BY <2>5 DEF MaximumSold, x, y, z
<1> QED BY <1>2, <1>3, <1>4, <1>5, <1>6

(* Approve and Submit ask for what the card shows.                         *)
LEMMA ApproveForm ==
  ASSUME FormInv, Approve
  PROVE  FormInv'
<1> DEFINE quote == QuoteOf(Route, typed.side)
           r == [kind |-> "approve", amount |-> ApprovedAmount(quote), quote |-> quote]
           n == Len(requests) + 1
<1>1. /\ HasQuote /\ tokenIn # Native /\ Ask(r)
      /\ approval' = Len(requests')
      /\ UNCHANGED <<pools, wallet, allowance, queue, tokenIn, tokenOut, typed, seenPools, swap>>
  BY DEF Approve, NeedsApproval, chain, form, seen
<1>2. quote.maxSold \in Nat /\ ApprovedAmount(quote) = quote.maxSold
  BY <1>1, QuoteIsSound DEF ApprovedAmount
<1> HIDE DEF quote
<1>3. /\ DOMAIN r = {"kind", "amount", "quote"} /\ r.kind = "approve"
      /\ r.amount = quote.maxSold /\ r.quote = quote
  BY <1>2
<1> HIDE DEF r
<1>4. Added(r)
  <2>1. IsSequence
    BY DEF FormInv, RequestsHold
  <2>2. OwnFields \cap DOMAIN r = {}
    BY <1>3 DEF OwnFields
  <2> QED BY <1>1, <2>1, <2>2, AskedIsAdded
<1>5. /\ Len(requests') = n
      /\ requests'[n].kind = "approve" /\ requests'[n].amount = quote.maxSold
      /\ requests'[n].quote = quote /\ requests'[n].from = tokenIn
      /\ OwnFields \cup DOMAIN r \subseteq DOMAIN requests'[n]
  BY <1>3, <1>4 DEF Added
<1>6. AskedOn(requests'[n], DOMAIN pools)
  <2>1. tokenIn \in Erc20
    BY <1>1 DEF FormInv, CardTyped, Erc20
  <2>2. {"kind", "amount", "quote", "status", "noticed", "paid", "got", "from", "to"}
          \subseteq DOMAIN requests'[n]
    BY <1>3, <1>5 DEF OwnFields
  <2> HIDE DEF n
  <2> QED BY <1>2, <1>5, <2>1, <2>2 DEF AskedOn
<1>7. RequestsHold' /\ SlotsHold' /\ ExposureIsOneTrade'
  BY <1>1, <1>4, <1>5, <1>6, AddedStep
<1>8. ChainTyped' /\ CardTyped' /\ SeenTyped'
  BY <1>1, SameCard, SameSeen DEF FormInv, ChainTyped
<1> QED BY <1>7, <1>8 DEF FormInv

LEMMA SubmitForm ==
  ASSUME FormInv, Submit
  PROVE  FormInv'
<1> DEFINE quote == QuoteOf(Route, typed.side)
           told == CallArguments(quote, typed.side)
           r == [kind |-> "swap", side |-> typed.side, quote |-> quote,
                 amount |-> told.amount, limit |-> told.limit, value |-> told.value]
           n == Len(requests) + 1
<1>1. /\ HasQuote /\ Ask(r)
      /\ swap' = Len(requests')
      /\ UNCHANGED <<pools, wallet, allowance, queue, tokenIn, tokenOut, typed, seenPools, approval>>
  BY DEF Submit, chain, form, seen
<1>2. /\ quote.maxSold \in Nat
      /\ Len(quote.route.path) \in Nat /\ Len(quote.route.path) >= 1
      /\ Pairs(quote.route.path) \subseteq DOMAIN pools
      /\ quote.route.amountIn \in Nat /\ quote.route.amountOut \in Nat
      /\ typed.side = "in" => quote.maxSold = quote.route.amountIn
      /\ typed.side # "in" => quote.minReceived = quote.route.amountOut
  BY <1>1, QuoteIsSound
<1> HIDE DEF quote
<1>3. /\ told.amount \in Nat /\ told.value = quote.maxSold
      /\ IF typed.side = "in"
         THEN told.amount = quote.maxSold /\ told.limit = quote.minReceived
         ELSE told.amount = quote.minReceived /\ told.limit = quote.maxSold
  BY <1>2 DEF CallArguments
<1> HIDE DEF told
<1>4. /\ DOMAIN r = {"kind", "side", "quote", "amount", "limit", "value"} /\ r.kind = "swap"
      /\ r.side = typed.side /\ r.quote = quote
      /\ r.amount = told.amount /\ r.limit = told.limit /\ r.value = told.value
  OBVIOUS
<1> HIDE DEF r
<1>5. Added(r)
  <2>1. IsSequence
    BY DEF FormInv, RequestsHold
  <2>2. OwnFields \cap DOMAIN r = {}
    BY <1>4 DEF OwnFields
  <2> QED BY <1>1, <2>1, <2>2, AskedIsAdded
<1> DEFINE q == requests'[n]
<1>6. /\ Len(requests') = n
      /\ q.kind = "swap" /\ q.side = typed.side /\ q.quote = quote
      /\ q.amount = told.amount /\ q.limit = told.limit /\ q.value = told.value
      /\ q.from = tokenIn /\ q.to = tokenOut
      /\ OwnFields \cup DOMAIN r \subseteq DOMAIN q
  BY <1>4, <1>5 DEF Added
<1>7. AskedOn(q, DOMAIN pools)
  <2>1. tokenIn \in Token /\ tokenOut \in Token
    BY DEF FormInv, CardTyped
  <2>2. {"kind", "amount", "quote", "status", "noticed", "paid", "got", "from", "to", "side", "limit", "value"}
          \subseteq DOMAIN q
    BY <1>4, <1>6 DEF OwnFields
  <2> HIDE DEF q, n
  <2> QED BY <1>2, <1>3, <1>6, <2>1, <2>2 DEF AskedOn
<1>8. RequestsHold' /\ SlotsHold' /\ ExposureIsOneTrade'
  BY <1>1, <1>5, <1>6, <1>7, AddedStep
<1>9. ChainTyped' /\ CardTyped' /\ SeenTyped'
  BY <1>1, SameCard, SameSeen DEF FormInv, ChainTyped
<1> QED BY <1>8, <1>9 DEF FormInv

(* What the router moves for a swap within its limit: what was shown, and  *)
(* no more of a token than there is in the pool.                           *)
LEMMA ExecutedAmounts ==
  ASSUME ChainTyped, NEW r, AskedOn(r, DOMAIN pools), r.kind = "swap",
         NEW amounts, amounts = AmountsAlong(r.quote.route.path, r.side, r.amount),
         WithinLimit(r, amounts)
  PROVE  LET path == r.quote.route.path
         IN  /\ amounts \in [1 .. Len(path) -> Nat] /\ Len(amounts) = Len(path)
             /\ amounts[1] <= r.quote.maxSold /\ amounts[Len(amounts)] >= r.quote.minReceived
             /\ \A j \in 1 .. Len(path) - 1 : amounts[j + 1] <= Hop(pools, path, j).reserveOut
<1> DEFINE path == r.quote.route.path
           n == Len(path)
           x == r.amount
<1>1. /\ n \in Nat /\ n >= 1 /\ Pairs(path) \subseteq DOMAIN pools /\ x \in Nat
      /\ pools \in [DOMAIN pools -> Pool]
      /\ r.side = "in" => x = r.quote.maxSold /\ r.limit = r.quote.minReceived
      /\ r.side # "in" => x = r.quote.minReceived /\ r.limit = r.quote.maxSold
  BY DEF AskedOn, ChainTyped
<1>2. 1 \in 1 .. n /\ n \in 1 .. n /\ \A j \in 1 .. n - 1 : j \in 1 .. n /\ j + 1 \in 1 .. n
  BY <1>1, SMT
<1>3. amounts = AmountsAlong(path, r.side, x)
  OBVIOUS
<1> HIDE DEF path, x
<1>4. ASSUME amounts \in [1 .. n -> Nat] PROVE Len(amounts) = n
  <2>1. amounts \in Seq(Nat)
    BY <1>1, <1>4, SeqDef DEF n
  <2> QED BY <1>1, <1>4, <2>1, LenProperties DEF n
<1>5. ASSUME NEW j \in 1 .. n - 1
      PROVE  Hop(pools, path, j).reserveIn \in Nat /\ Hop(pools, path, j).reserveOut \in Nat
  BY <1>1, HopType DEF n
<1> HIDE DEF n
<1>6. CASE r.side = "in"
  <2>1. RoutedOut(amounts, path, x)
    <3>1. amounts = AmountsOut(path, x)
      BY <1>3, <1>6 DEF AmountsAlong
    <3>2. RoutedOut(AmountsOut(path, x), path, x)
      BY <1>1, AmountsOutFollow DEF n
    <3> QED BY <3>1, <3>2
  <2>2. amounts \in [1 .. n -> Nat] /\ amounts[1] = x
    BY <2>1 DEF RoutedOut, n
  <2>3. Len(amounts) = n
    BY <1>4, <2>2
  <2>4. amounts[Len(amounts)] >= r.quote.minReceived
    BY <1>1, <1>6 DEF WithinLimit
  <2>5. amounts[1] <= r.quote.maxSold
    BY <1>1, <1>6, <2>2
  <2>6. ASSUME NEW j \in 1 .. n - 1 PROVE amounts[j + 1] <= Hop(pools, path, j).reserveOut
    <3> DEFINE ri == Hop(pools, path, j).reserveIn
               ro == Hop(pools, path, j).reserveOut
               y == amounts[j]
    <3>1. ri \in Nat /\ ro \in Nat /\ y \in Nat
      BY <1>2, <1>5, <2>2
    <3>2. amounts[j + 1] = IF y = 0 THEN 0 ELSE GetAmountOut(y, ri, ro)
      BY <2>1 DEF RoutedOut, n
    <3> HIDE DEF y, ri, ro
    <3>3. CASE y = 0
      BY <3>1, <3>2, <3>3 DEF ro
    <3>4. CASE y # 0
      <4>1. GetAmountOut(y, ri, ro) <= ro
        BY <3>1, <3>4, AmountOutInPool
      <4> QED BY <3>2, <3>4, <4>1 DEF ro
    <3> QED BY <3>3, <3>4
  <2> QED BY <2>2, <2>3, <2>4, <2>5, <2>6 DEF n, path
<1>7. CASE r.side # "in"
  <2>1. RoutedIn(amounts, path, x)
    <3>1. amounts = AmountsIn(path, x)
      BY <1>3, <1>7 DEF AmountsAlong
    <3>2. RoutedIn(AmountsIn(path, x), path, x)
      BY <1>1, AmountsInFollow DEF n
    <3> QED BY <3>1, <3>2
  <2>2. amounts \in [1 .. n -> Nat] /\ amounts[n] = x
    BY <2>1 DEF RoutedIn, n
  <2>3. Len(amounts) = n
    BY <1>4, <2>2
  <2>4. amounts[Len(amounts)] >= r.quote.minReceived
    <3>1. amounts[Len(amounts)] = x /\ r.quote.minReceived = x
      BY <1>1, <1>7, <2>2, <2>3
    <3> QED BY <1>1, <3>1
  <2>5. amounts[1] <= r.quote.maxSold
    BY <1>1, <1>7 DEF WithinLimit
  <2>6. ASSUME NEW j \in 1 .. n - 1 PROVE amounts[j + 1] <= Hop(pools, path, j).reserveOut
    <3> DEFINE ri == Hop(pools, path, j).reserveIn
               ro == Hop(pools, path, j).reserveOut
               y == amounts[j + 1]
    <3>1. ro \in Nat /\ y \in Nat
      BY <1>2, <1>5, <2>2
    <3>2. amounts[j] > 0
      BY <1>2, <2>2 DEF WithinLimit
    <3>3. amounts[j] = IF y \in 1 .. ro - 1 THEN GetAmountIn(y, ri, ro) ELSE 0
      BY <2>1 DEF RoutedIn, n
    <3> HIDE DEF y, ri, ro
    <3>4. y \in 1 .. ro - 1
      <4>1. ASSUME y \notin 1 .. ro - 1 PROVE FALSE
        <5>1. amounts[j] = 0
          BY <3>3, <4>1
        <5> QED BY <3>2, <5>1
      <4> QED BY <4>1
    <3>5. y <= ro
      BY <3>1, <3>4, SMT
    <3> QED BY <3>5 DEF y, ro
  <2> QED BY <2>2, <2>3, <2>4, <2>5, <2>6 DEF n, path
<1> QED BY <1>6, <1>7

(* A trade leaves a pool with its reserves.                                *)
LEMMA MovedType ==
  ASSUME NEW pool \in Pool, NEW t, NEW a \in Nat, NEW b \in Nat, b <= Oriented(pool, t).reserveOut
  PROVE  Moved(pool, t, a, b) \in Pool
<1>1. /\ pool.token0 \in Nat /\ pool.reserve0 \in Nat /\ pool.reserve1 \in Nat
  BY DEF Pool
<1>2. CASE pool.token0 = t
  <2>1. b <= pool.reserve1
    BY <1>2 DEF Oriented
  <2>2. pool.reserve0 + a \in Nat /\ pool.reserve1 - b \in Nat
    BY <1>1, <2>1, SMT
  <2>3. Moved(pool, t, a, b) = [pool EXCEPT !.reserve0 = @ + a, !.reserve1 = @ - b]
    BY <1>2 DEF Moved
  <2> QED BY <2>2, <2>3 DEF Pool
<1>3. CASE pool.token0 # t
  <2>1. b <= pool.reserve0
    BY <1>3 DEF Oriented
  <2>2. pool.reserve1 + a \in Nat /\ pool.reserve0 - b \in Nat
    BY <1>1, <2>1, SMT
  <2>3. Moved(pool, t, a, b) = [pool EXCEPT !.reserve1 = @ + a, !.reserve0 = @ - b]
    BY <1>3 DEF Moved
  <2> QED BY <2>2, <2>3 DEF Pool
<1> QED BY <1>2, <1>3

LEMMA PoolsAfterType ==
  ASSUME ChainTyped, NEW path, Len(path) \in Nat, NEW amounts \in [1 .. Len(path) -> Nat],
         \A j \in 1 .. Len(path) - 1 : amounts[j + 1] <= Hop(pools, path, j).reserveOut
  PROVE  PoolsAfter(path, amounts) \in [DOMAIN pools -> Pool]
<1> DEFINE at(p, i) == ComputePairAddress(path[i], path[i + 1]) = p
           hop(p) == CHOOSE i \in 1 .. Len(path) - 1 : at(p, i)
           after(p) == IF p \notin Pairs(path) THEN pools[p]
                       ELSE Moved(pools[p], path[hop(p)], amounts[hop(p)], amounts[hop(p) + 1])
<1>1. \A j \in 1 .. Len(path) - 1 : j \in 1 .. Len(path) /\ j + 1 \in 1 .. Len(path)
  BY SMT
<1>2. ASSUME NEW p \in DOMAIN pools PROVE after(p) \in Pool
  <2>1. pools[p] \in Pool
    BY DEF ChainTyped
  <2>2. CASE p \in Pairs(path)
    <3> DEFINE i == hop(p)
    <3>1. \E j \in 1 .. Len(path) - 1 : at(p, j)
      BY <2>2 DEF Pairs
    <3>2. i \in 1 .. Len(path) - 1 /\ at(p, i)
      BY <3>1
    <3> HIDE DEF i
    <3>3. amounts[i] \in Nat /\ amounts[i + 1] \in Nat
      BY <1>1, <3>2
    <3>4. amounts[i + 1] <= Oriented(pools[p], path[i]).reserveOut
      BY <3>2 DEF Hop
    <3>5. Moved(pools[p], path[i], amounts[i], amounts[i + 1]) \in Pool
      BY <2>1, <3>3, <3>4, MovedType
    <3> QED BY <2>2, <3>5 DEF i
  <2> QED BY <2>1, <2>2
<1>3. PoolsAfter(path, amounts) = [p \in DOMAIN pools |-> after(p)]
  BY DEF PoolsAfter
<1> HIDE DEF after
<1> QED BY <1>2, <1>3

(* What a wallet holds after it paid and was paid.                         *)
LEMMA PaidType ==
  ASSUME NEW S, NEW f \in [S -> Nat], NEW x \in S, NEW y \in S, NEW a \in Nat, NEW b \in Nat, f[x] >= a
  PROVE  [f EXCEPT ![x] = @ - a, ![y] = @ + b] \in [S -> Nat]
<1>1. f[x] - a \in Nat
  BY SMT
<1>2. f[x] - a + b \in Nat /\ f[y] + b \in Nat
  BY <1>1, SMT
<1> QED BY <1>1, <1>2

(* A swap that executes pays from what the user has and approved.          *)
LEMMA ExecutesForm ==
  ASSUME FormInv, NEW i \in DOMAIN requests, requests[i].kind = "swap",
         NEW amounts, amounts = AmountsAlong(requests[i].quote.route.path, requests[i].side, requests[i].amount),
         WithinLimit(requests[i], amounts), CanPay(requests[i], amounts), Executes(i, amounts)
  PROVE  ChainTyped' /\ Carried /\ DOMAIN pools' = DOMAIN pools
         /\ \A t \in Erc20 : allowance'[t] \in Nat /\ allowance'[t] <= allowance[t]
<1> DEFINE r == requests[i]
           path == r.quote.route.path
           first == amounts[1]
           last == amounts[Len(amounts)]
<1>1. AskedOn(r, DOMAIN pools) /\ ChainTyped /\ RequestsHold
  BY DEF FormInv, RequestsHold
<1>2. /\ amounts \in [1 .. Len(path) -> Nat] /\ Len(amounts) = Len(path)
      /\ first <= r.quote.maxSold /\ last >= r.quote.minReceived
      /\ \A j \in 1 .. Len(path) - 1 : amounts[j + 1] <= Hop(pools, path, j).reserveOut
  BY <1>1, ExecutedAmounts
<1>3. /\ Len(path) \in Nat /\ Len(path) >= 1
      /\ r.from \in Token /\ r.to \in Token /\ r.value = r.quote.maxSold /\ r.quote.maxSold \in Nat
  BY <1>1 DEF AskedOn
<1>4. first \in Nat /\ last \in Nat
  <2>1. 1 \in 1 .. Len(path) /\ Len(path) \in 1 .. Len(path)
    BY <1>3, SMT
  <2> QED BY <1>2, <2>1
<1>5. /\ pools' = PoolsAfter(path, amounts)
      /\ wallet' = [wallet EXCEPT ![r.from] = @ - first, ![r.to] = @ + last]
      /\ allowance' = IF r.from = Native THEN allowance ELSE [allowance EXCEPT ![r.from] = @ - first]
      /\ requests' = [requests EXCEPT ![i].status = "mined", ![i].paid = first, ![i].got = last]
  BY DEF Executes
<1>6. Carried
  BY <1>1, <1>2, <1>5, MinedCarried
<1>7. /\ wallet[r.from] >= IF r.from = Native THEN r.value ELSE first
      /\ r.from # Native => allowance[r.from] >= first
  BY DEF CanPay
<1>8. pools' \in [DOMAIN pools -> Pool]
  BY <1>1, <1>2, <1>3, <1>5, PoolsAfterType
<1> HIDE DEF first, last, r, path
<1>9. wallet' \in [Token -> Nat]
  <2>1. wallet \in [Token -> Nat]
    BY <1>1 DEF ChainTyped
  <2>2. wallet[r.from] \in Nat /\ wallet[r.from] >= first
    <3>1. wallet[r.from] \in Nat
      BY <1>3, <2>1
    <3>2. CASE r.from = Native
      <4>1. wallet[r.from] >= r.value
        BY <1>7, <3>2
      <4> QED BY <1>2, <1>3, <1>4, <3>1, <4>1
    <3>3. CASE r.from # Native
      <4>1. (IF r.from = Native THEN r.value ELSE first) = first
        BY <3>3
      <4> QED BY <1>7, <3>1, <4>1
    <3> QED BY <3>1, <3>2, <3>3
  <2> QED BY <1>3, <1>4, <1>5, <2>1, <2>2, PaidType
<1>10. /\ allowance' \in [Erc20 -> Nat]
       /\ \A t \in Erc20 : allowance'[t] \in Nat /\ allowance'[t] <= allowance[t]
  <2>1. allowance \in [Erc20 -> Nat]
    BY <1>1 DEF ChainTyped
  <2>2. CASE r.from = Native
    BY <1>5, <2>1, <2>2
  <2>3. CASE r.from # Native
    <3>1. r.from \in Erc20
      BY <1>3, <2>3 DEF Erc20
    <3>2. allowance[r.from] \in Nat /\ allowance[r.from] >= first
      BY <1>7, <2>1, <2>3, <3>1
    <3>3. allowance[r.from] - first \in Nat /\ allowance[r.from] - first <= allowance[r.from]
      BY <1>4, <3>2, SMT
    <3>4. allowance' = [allowance EXCEPT ![r.from] = @ - first]
      BY <1>5, <2>3
    <3>5. \A t \in Erc20 : allowance'[t] = IF t = r.from THEN allowance[r.from] - first ELSE allowance[t]
      BY <2>1, <3>4
    <3>6. allowance' \in [Erc20 -> Nat]
      BY <2>1, <3>1, <3>3, <3>4
    <3> QED BY <2>1, <3>3, <3>5, <3>6
  <2> QED BY <2>2, <2>3
<1>11. ChainTyped' /\ DOMAIN pools' = DOMAIN pools
  BY <1>8, <1>9, <1>10 DEF ChainTyped
<1> QED BY <1>6, <1>10, <1>11

(* What the page has read stays readable, whatever happens to the chain.   *)
LEMMA SeenLasts ==
  ASSUME FormInv, UNCHANGED seenPools, DOMAIN pools' = DOMAIN pools
  PROVE  SeenTyped'
BY DEF FormInv, SeenTyped

(* The mined and the reverted swap.                                        *)
LEMMA MineSwapForm ==
  ASSUME FormInv, MineSwap
  PROVE  FormInv'
<1> DEFINE i == Head(queue)
           amounts == AmountsAlong(requests[i].quote.route.path, requests[i].side, requests[i].amount)
<1>1. /\ queue # <<>> /\ requests[i].kind = "swap" /\ queue' = Tail(queue)
      /\ UNCHANGED <<tokenIn, tokenOut, typed, seenPools, swap, approval>>
      /\ \/ WithinLimit(requests[i], amounts) /\ CanPay(requests[i], amounts) /\ Executes(i, amounts)
         \/ /\ requests' = [requests EXCEPT ![i].status = "reverted"]
            /\ UNCHANGED <<pools, wallet, allowance>>
  BY DEF MineSwap, form, seen, hooks
<1>2. i \in DOMAIN requests /\ queue' \in Seq(DOMAIN requests)
  BY <1>1, SameQueue
<1> DEFINE a == amounts
<1>3. a = AmountsAlong(requests[i].quote.route.path, requests[i].side, requests[i].amount)
  OBVIOUS
<1> HIDE DEF i, a
<1>4. CASE WithinLimit(requests[i], a) /\ CanPay(requests[i], a) /\ Executes(i, a)
  <2>1. /\ ChainTyped' /\ Carried /\ DOMAIN pools' = DOMAIN pools
        /\ \A t \in Erc20 : allowance'[t] \in Nat /\ allowance'[t] <= allowance[t]
    BY <1>1, <1>2, <1>3, <1>4, ExecutesForm
  <2>2. RequestsHold' /\ SlotsHold'
    BY <1>1, <1>2, <2>1, CarriedStep DEF FormInv
  <2>3. ExposureIsOneTrade'
    BY <2>1, CarriedExposure DEF FormInv
  <2>4. CardTyped' /\ SeenTyped'
    BY <1>1, <2>1, SameCard, SeenLasts
  <2> QED BY <2>1, <2>2, <2>3, <2>4 DEF FormInv
<1>5. CASE requests' = [requests EXCEPT ![i].status = "reverted"] /\ UNCHANGED <<pools, wallet, allowance>>
  <2>1. Carried
    BY <1>5, StatusCarried DEF FormInv
  <2>2. CardTyped' /\ SeenTyped'
    BY <1>1, <1>5, SameCard, SameSeen
  <2> QED BY <1>1, <1>2, <1>5, <2>1, <2>2, NothingMoves
<1> QED BY <1>1, <1>4, <1>5 DEF a

(* An approval lets the router take what the quote would have charged.     *)
LEMMA MineApprovalForm ==
  ASSUME FormInv, MineApproval
  PROVE  FormInv'
<1> DEFINE i == Head(queue)
           r == requests[i]
<1>1. /\ queue # <<>> /\ r.kind = "approve" /\ queue' = Tail(queue)
      /\ allowance' = [allowance EXCEPT ![r.from] = r.amount]
      /\ requests' = [requests EXCEPT ![i].status = "mined"]
      /\ UNCHANGED <<pools, wallet, tokenIn, tokenOut, typed, seenPools, swap, approval>>
  BY DEF MineApproval, form, seen, hooks
<1>2. i \in DOMAIN requests /\ queue' \in Seq(DOMAIN requests)
  BY <1>1, SameQueue
<1>3. AskedOn(r, DOMAIN pools)
  BY <1>2 DEF FormInv, RequestsHold
<1>4. r.from \in Erc20 /\ r.amount = r.quote.maxSold /\ r.quote.maxSold \in Nat
  BY <1>1, <1>3 DEF AskedOn
<1> HIDE DEF i
<1>5. Carried
  BY <1>1, StatusCarried DEF FormInv
<1>6. RequestsHold' /\ SlotsHold'
  BY <1>1, <1>2, <1>5, CarriedStep DEF FormInv
<1>7. /\ DOMAIN requests' = DOMAIN requests
      /\ \A j \in DOMAIN requests : /\ requests'[j].kind = requests[j].kind
                                    /\ requests'[j].from = requests[j].from
                                    /\ requests'[j].quote = requests[j].quote
  <2>1. DOMAIN requests' = DOMAIN requests
    BY <1>5, CarriedDomain DEF FormInv, RequestsHold, Carried
  <2> QED BY <1>5, <2>1, AskedStays DEF FormInv, RequestsHold, Carried
<1>8. allowance \in [Erc20 -> Nat]
  BY DEF FormInv, ChainTyped
<1> HIDE DEF r
<1>9. allowance' \in [Erc20 -> Nat] /\ allowance'[r.from] = r.quote.maxSold
      /\ \A t \in Erc20 : t # r.from => allowance'[t] = allowance[t]
  BY <1>1, <1>4, <1>8
<1>10. ExposureIsOneTrade'
  <2>1. ASSUME NEW t \in Erc20, allowance'[t] > 0
        PROVE  \E j \in DOMAIN requests : /\ requests'[j].kind = "approve" /\ requests'[j].from = t
                                          /\ allowance'[t] <= requests'[j].quote.maxSold
    <3>1. CASE t = r.from
      <4>1. /\ requests'[i].kind = "approve" /\ requests'[i].from = t
            /\ requests'[i].quote.maxSold = r.quote.maxSold
        BY <1>1, <1>2, <1>7, <3>1 DEF r
      <4>2. allowance'[t] <= r.quote.maxSold
        BY <1>4, <1>9, <3>1
      <4> QED BY <1>2, <4>1, <4>2
    <3>2. CASE t # r.from
      <4>1. allowance'[t] = allowance[t]
        BY <1>9, <3>2
      <4>2. PICK j \in DOMAIN requests : /\ requests[j].kind = "approve" /\ requests[j].from = t
                                         /\ allowance[t] <= requests[j].quote.maxSold
        BY <2>1, <4>1 DEF FormInv, ExposureIsOneTrade
      <4> QED BY <1>7, <4>1, <4>2
    <3> QED BY <3>1, <3>2
  <2> QED BY <1>7, <2>1 DEF ExposureIsOneTrade
<1>11. ChainTyped'
  BY <1>1, <1>9 DEF FormInv, ChainTyped
<1>12. CardTyped' /\ SeenTyped'
  BY <1>1, SameCard, SameSeen
<1> QED BY <1>6, <1>10, <1>11, <1>12 DEF FormInv

(* Other people's trades move reserves and nothing else.                   *)
LEMMA OthersTradeForm ==
  ASSUME FormInv, NEW t \in Trades, t.pair \in DOMAIN pools, OthersTrade(t.pair, t.token, t.amount)
  PROVE  FormInv'
<1> DEFINE p == t.pair
           hop == Oriented(pools[p], t.token)
           out == GetAmountOut(t.amount, hop.reserveIn, hop.reserveOut)
           pool == Moved(pools[p], t.token, t.amount, out)
<1>1. /\ pools' = [pools EXCEPT ![p] = pool]
      /\ UNCHANGED <<wallet, allowance, requests, queue, tokenIn, tokenOut, typed, seenPools, swap, approval>>
  BY DEF OthersTrade, walletApp, form, seen, hooks
<1>2. pools \in [DOMAIN pools -> Pool] /\ pools[p] \in Pool /\ t.amount \in Nat \ {0}
  BY SwapFormAssumption DEF FormInv, ChainTyped
<1>3. hop.reserveIn \in Nat /\ hop.reserveOut \in Nat
  <2> DEFINE q == pools[p]
  <2>1. q.reserve0 \in Nat /\ q.reserve1 \in Nat
    BY <1>2 DEF Pool
  <2> HIDE DEF q
  <2> QED BY <2>1 DEF Oriented, q
<1>4. out \in Nat /\ out <= hop.reserveOut
  BY <1>2, <1>3, AmountOutInPool
<1> HIDE DEF out
<1>5. pool \in Pool
  <2>1. t.amount \in Nat
    BY <1>2
  <2> QED BY <1>2, <1>4, <2>1, MovedType
<1> HIDE DEF pool
<1>6. pools' \in [DOMAIN pools -> Pool] /\ DOMAIN pools' = DOMAIN pools
  BY <1>1, <1>2, <1>5
<1>7. ChainTyped'
  BY <1>1, <1>6 DEF FormInv, ChainTyped
<1>8. Carried
  BY <1>1, UnchangedCarried DEF FormInv
<1>9. RequestsHold' /\ SlotsHold'
  <2>1. queue' \in Seq(DOMAIN requests)
    BY <1>1, SameQueue
  <2> QED BY <1>1, <1>6, <1>8, <2>1, CarriedStep DEF FormInv
<1>10. ExposureIsOneTrade'
  <2>1. \A u \in Erc20 : allowance'[u] \in Nat /\ allowance'[u] <= allowance[u]
    BY <1>1 DEF FormInv, ChainTyped
  <2> QED BY <1>8, <2>1, CarriedExposure DEF FormInv
<1>11. CardTyped' /\ SeenTyped'
  BY <1>1, <1>6, SameCard, SeenLasts
<1> QED BY <1>7, <1>9, <1>10, <1>11 DEF FormInv

(* What has been read is part of the chain, with a reserve on either side. *)
LEMMA AnsweredSeen ==
  ASSUME ChainTyped, NEW pairs, NEW failed
  PROVE  LET a == Answered(pools, pairs, failed)
         IN  /\ a \in [DOMAIN a -> Pool] /\ DOMAIN a \subseteq DOMAIN pools
             /\ \A p \in DOMAIN a : a[p].reserve0 > 0 /\ a[p].reserve1 > 0
BY DEF Answered, ChainTyped

LEMMA FormUserStep ==
  ASSUME FormInv, User
  PROVE  FormInv'
<1>1. ASSUME UNCHANGED <<pools, wallet, allowance, requests, queue>>
      PROVE  Carried /\ queue' \in Seq(DOMAIN requests) /\ UNCHANGED <<pools, wallet, allowance>>
  BY <1>1, UnchangedCarried, SameQueue DEF FormInv
<1>2. ASSUME NEW side \in {"in", "out"}, NEW value \in Amounts, TypeAmount(side, value)
      PROVE  FormInv'
  <2>1. /\ typed' = [side |-> side, value |-> value]
        /\ UNCHANGED <<pools, wallet, allowance, requests, queue, tokenIn, tokenOut, seenPools, swap, approval>>
    BY <1>2 DEF TypeAmount, chain, walletApp, seen, hooks
  <2>2. CardTyped'
    BY <2>1 DEF FormInv, CardTyped
  <2>3. SeenTyped'
    BY <2>1, SameSeen
  <2> QED BY <1>1, <2>1, <2>2, <2>3, NothingMoves
<1>3. CASE Flip
  <2>1. /\ tokenIn' = tokenOut /\ tokenOut' = tokenIn
        /\ typed' = [typed EXCEPT !.side = Opposite(@)] /\ swap' = 0 /\ seenPools' \in {<<>>, seenPools}
        /\ UNCHANGED <<pools, wallet, allowance, requests, queue, approval>>
    BY <1>3 DEF Flip, chain, walletApp
  <2>2. CardTyped'
    BY <2>1 DEF FormInv, CardTyped, Opposite
  <2>3. SeenTyped'
    BY <2>1, EmptyFunction DEF FormInv, SeenTyped
  <2> QED BY <1>1, <2>1, <2>2, <2>3, NothingMoves
<1>4. ASSUME NEW t \in Token, SelectTokenOut(t)
      PROVE  FormInv'
  <2>1. /\ tokenOut' = t /\ seenPools' = <<>>
        /\ UNCHANGED <<pools, wallet, allowance, requests, queue, tokenIn, typed, swap, approval>>
    BY <1>4 DEF SelectTokenOut, chain, walletApp, hooks
  <2>2. CardTyped'
    BY <2>1 DEF FormInv, CardTyped
  <2>3. SeenTyped'
    BY <2>1, EmptyFunction DEF SeenTyped
  <2> QED BY <1>1, <2>1, <2>2, <2>3, NothingMoves
<1>5. ASSUME NEW i \in DOMAIN requests, WalletConfirms(i) \/ WalletRefuses(i)
      PROVE  FormInv'
  <2>1. /\ UNCHANGED <<pools, wallet, allowance, tokenIn, tokenOut, typed, seenPools, swap, approval>>
        /\ queue' = queue \/ queue' = Append(queue, i)
    BY <1>5 DEF WalletConfirms, WalletRefuses, chain, form, seen, hooks
  <2>2. PICK v : v # "mined" /\ requests' = [requests EXCEPT ![i].status = v]
    BY <1>5 DEF WalletConfirms, WalletRefuses
  <2>3. Carried
    BY <2>2, StatusCarried DEF FormInv
  <2>4. queue' \in Seq(DOMAIN requests)
    BY <2>1, SameQueue
  <2>5. CardTyped' /\ SeenTyped'
    BY <2>1, SameCard, SameSeen
  <2> QED BY <2>1, <2>3, <2>4, <2>5, NothingMoves
<1>6. CASE SwitchNetwork
  <2>1. UNCHANGED <<pools, wallet, allowance, requests, queue, tokenIn, tokenOut, typed, seenPools, swap, approval>>
    BY <1>6 DEF SwitchNetwork, chain, form, seen, hooks
  <2>2. CardTyped' /\ SeenTyped'
    BY <2>1, SameCard, SameSeen
  <2> QED BY <1>1, <2>1, <2>2, NothingMoves
<1> QED BY <1>2, <1>3, <1>4, <1>5, <1>6, ApproveForm, SubmitForm DEF User

LEMMA FormPageStep ==
  ASSUME FormInv, Page
  PROVE  FormInv'
<1>1. UNCHANGED <<pools, wallet, allowance, queue, tokenIn, tokenOut, swap, approval>>
  BY DEF Page, ReadPools, ReadAllowance, ReadBalances, NoticeSwap, NoticeApproval,
         chain, walletApp, form, seen, hooks
<1>2. queue' \in Seq(DOMAIN requests)
  BY <1>1, SameQueue
<1>3. Carried
  <2>1. UNCHANGED requests \/ \E i, v : requests' = [requests EXCEPT ![i].noticed = v]
    BY DEF Page, ReadPools, ReadAllowance, ReadBalances, NoticeSwap, NoticeApproval, ReceiptSays, walletApp
  <2> QED BY <2>1, UnchangedCarried, NoticeCarried DEF FormInv
<1>4. CardTyped'
  <2>1. typed' = typed \/ typed' = [typed EXCEPT !.value = 0]
    BY DEF Page, ReadPools, ReadAllowance, ReadBalances, NoticeSwap, NoticeApproval, form
  <2> QED BY <1>1, <2>1, SwapFormAssumption DEF FormInv, CardTyped
<1>5. SeenTyped'
  <2>1. CASE UNCHANGED seenPools
    BY <1>1, <2>1, SameSeen
  <2>2. CASE \E pairs, failed : seenPools' = Answered(pools, pairs, failed)
    BY <1>1, <2>2, AnsweredSeen DEF FormInv, SeenTyped
  <2> QED BY <2>1, <2>2
          DEF Page, ReadPools, ReadAllowance, ReadBalances, NoticeSwap, NoticeApproval, seen
<1> QED BY <1>1, <1>2, <1>3, <1>4, <1>5, NothingMoves

LEMMA FormEnvironmentStep ==
  ASSUME FormInv, Environment
  PROVE  FormInv'
BY MineSwapForm, MineApprovalForm, OthersTradeForm DEF Environment

LEMMA NextForm == FormInv /\ [Next]_vars => FormInv'
<1> SUFFICES ASSUME FormInv, [Next]_vars PROVE FormInv'
  OBVIOUS
<1>1. CASE UNCHANGED vars
  <2>1. UNCHANGED <<pools, wallet, allowance, requests, queue, tokenIn, tokenOut, typed, seenPools, swap, approval>>
    BY <1>1 DEF vars, chain, walletApp, form, seen, hooks
  <2>2. CardTyped' /\ SeenTyped' /\ Carried /\ queue' \in Seq(DOMAIN requests)
    BY <2>1, SameCard, SameSeen, SameQueue, UnchangedCarried DEF FormInv
  <2> QED BY <2>1, <2>2, NothingMoves
<1> QED BY <1>1, FormUserStep, FormEnvironmentStep, FormPageStep DEF Next

LEMMA FormInvariance == Spec => []FormInv
BY InitForm, NextForm, PTL DEF Spec

(* amm.ts, submit() and the router together: whatever the pools did since  *)
(* the quote was shown, a swap that is mined paid no more and got no less  *)
(* than the card said when it was sent.                                    *)
THEOREM SwapsKeepToTheQuote == Spec => []StaleQuoteCostsOnlyGas
<1>1. FormInv => StaleQuoteCostsOnlyGas
  BY DEF FormInv, RequestsHold, Honoured, StaleQuoteCostsOnlyGas
<1> QED BY <1>1, FormInvariance, PTL

(* useAllowance: however often the user approves and trades, the router    *)
(* may take no more of a token than one shown quote would have charged.    *)
THEOREM AllowancesCoverOneTrade == Spec => []ExposureIsOneTrade
<1>1. FormInv => ExposureIsOneTrade
  BY DEF FormInv
<1> QED BY <1>1, FormInvariance, PTL

(* useSwapRoute and amm.ts: from whatever part of the pools was read, the  *)
(* card shows the best offer along the paths it considers, at the amounts  *)
(* the router would compute as long as the reading is true.                *)
THEOREM QuotesStaySound == Spec => []QuotesAreSound
<1>1. FormInv => TypeOK
  <2> SUFFICES ASSUME FormInv PROVE TypeOK
    OBVIOUS
  <2>1. /\ \A t \in Token : wallet[t] \in Nat
        /\ \A t \in Erc20 : allowance[t] \in Nat
    BY DEF FormInv, ChainTyped
  <2>2. typed.side \in {"in", "out"} /\ typed.value \in Amounts
    BY ValueType DEF FormInv
  <2> QED BY <2>1, <2>2 DEF FormInv, SeenTyped, SlotsHold, TypeOK
<1>2. FormInv => FreshQuoteIsExact /\ RouteIsBest
  BY ExactWhileTrue, BestIsShown DEF FormInv
<1>3. FormInv => QuotesAreSound
  BY <1>1, <1>2 DEF QuotesAreSound
<1> QED BY <1>3, FormInvariance, PTL
=============================================================================
