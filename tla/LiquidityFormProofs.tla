------------------------ MODULE LiquidityFormProofs -------------------------
(***************************************************************************)
(* The liquidity page sends what was signed, keeps to one call at a time,  *)
(* and has its deposits and withdrawals done within the limits it showed,  *)
(* however many requests, changes of mind and trades of others there are   *)
(* and whatever is read in between.                                        *)
(***************************************************************************)
EXTENDS LiquidityForm, AmmMathProofs, SequenceTheorems, TLAPS

IsSequence == requests \in Seq({requests[i] : i \in DOMAIN requests})

(* What every request carries; a removal also what it burns and what was   *)
(* signed.                                                                 *)
WellFormed(r) ==
  /\ {"kind", "status", "noticed", "turns"} \subseteq DOMAIN r
  /\ r.turns \in Nat
  /\ r.kind = "remove" => {"signed", "liquidity"} \subseteq DOMAIN r

Live(r) == r.status \in {"asked", "sent"}

RequestsInv ==
  /\ IsSequence /\ turns \in Nat
  /\ \A i \in DOMAIN requests :
       /\ WellFormed(requests[i]) /\ requests[i].turns <= turns
       /\ Live(requests[i]) => requests[i].noticed = "no"

(* A signature that is awaited is for the liquidity of its removal.        *)
SigningInv ==
  signing # NoCall =>
    /\ {"kind", "signed", "liquidity"} \subseteq DOMAIN signing
    /\ {"status", "noticed", "turns"} \cap DOMAIN signing = {}
    /\ signing.kind = "remove" /\ signing.signed # Unread /\ signing.signed = signing.liquidity

(* A call that is not over is the one the button waits for, or the user    *)
(* turned since, or a signed removal took its place.                       *)
WaitInv ==
  \A i \in DOMAIN requests :
    Outstanding(i) => \/ i = call
                      \/ requests[i].turns < turns
                      \/ SignedSince(i, Len(requests))

(* The inductive invariant.                                                *)
IInv == RequestsInv /\ SigningInv /\ WaitInv /\ PermitMatchesTheCall /\ OneCallInFlight

-----------------------------------------------------------------------------
LEMMA RequestsLength ==
  ASSUME IsSequence
  PROVE  Len(requests) \in Nat /\ DOMAIN requests = 1 .. Len(requests)
BY LenProperties DEF IsSequence

(* How a request may change once it was asked.                             *)
Follows(q, r) ==
  /\ WellFormed(q) /\ q.kind = r.kind /\ q.turns = r.turns
  /\ r.kind = "remove" => q.signed = r.signed /\ q.liquidity = r.liquidity
  /\ Live(q) => Live(r) /\ q.noticed = r.noticed

SameRequests ==
  /\ IsSequence' /\ Len(requests') = Len(requests)
  /\ \A j \in DOMAIN requests : Follows(requests'[j], requests[j])

(* A change of one request leaves the others, and adds none.               *)
LEMMA OneChanges ==
  ASSUME RequestsInv, NEW i, NEW q, requests' = [requests EXCEPT ![i] = q],
         i \in DOMAIN requests => Follows(q, requests[i])
  PROVE  SameRequests
<1> DEFINE S == {requests[j] : j \in DOMAIN requests} \cup {q}
<1>1. requests \in Seq(S) /\ IsSequence
  BY SeqMonotonic DEF RequestsInv, IsSequence
<1>2. Len(requests) \in Nat /\ DOMAIN requests = 1 .. Len(requests)
  BY <1>1, RequestsLength
<1>3. requests' \in [1 .. Len(requests) -> S]
  BY <1>2
<1>4. requests' \in Seq(S)
  BY <1>2, <1>3, SeqDef
<1>5. Len(requests') = Len(requests)
  BY <1>2, <1>3, <1>4, LenProperties
<1>6. IsSequence'
  <2> DEFINE T == {requests'[j] : j \in DOMAIN requests'}
  <2>1. requests' \in [1 .. Len(requests) -> T]
    BY <1>3
  <2>2. requests' \in Seq(T)
    <3> HIDE DEF T
    <3> QED BY <1>2, <2>1, SeqDef
  <2> QED BY <2>2 DEF IsSequence
<1>7. ASSUME NEW j \in DOMAIN requests
      PROVE  Follows(requests'[j], requests[j])
  <2>1. CASE j = i
    BY <2>1
  <2>2. CASE j # i
    <3>1. requests'[j] = requests[j]
      BY <2>2
    <3> QED BY <3>1 DEF RequestsInv, Follows
  <2> QED BY <2>1, <2>2
<1> QED BY <1>5, <1>6, <1>7 DEF SameRequests

LEMMA NoneChanges ==
  ASSUME RequestsInv, UNCHANGED requests
  PROVE  SameRequests
BY DEF RequestsInv, SameRequests, Follows, IsSequence

(* The invariant survives a step that asks for nothing.                    *)
LEMMA Keeping ==
  ASSUME IInv, SameRequests, turns' \in Nat, turns' >= turns, call' = call \/ turns' > turns,
         SigningInv'
  PROVE  IInv'
<1>1. Len(requests) \in Nat /\ DOMAIN requests = 1 .. Len(requests)
  BY RequestsLength DEF IInv, RequestsInv
<1>2. Len(requests') = Len(requests) /\ DOMAIN requests' = DOMAIN requests
  BY <1>1, LenProperties DEF SameRequests, IsSequence
<1>3. \A j \in DOMAIN requests : Follows(requests'[j], requests[j])
  BY DEF SameRequests
<1>4. \A j \in DOMAIN requests : Outstanding(j)' => Outstanding(j)
  BY <1>3 DEF Follows, Live, Outstanding
<1>5. \A i, j \in 0 .. Len(requests) : SignedSince(i, j) => SignedSince(i, j)'
  BY <1>1, <1>3 DEF SignedSince, Follows
<1>6. RequestsInv'
  <2>1. ASSUME NEW j \in DOMAIN requests
        PROVE  /\ WellFormed(requests'[j]) /\ requests'[j].turns <= turns'
               /\ Live(requests'[j]) => requests'[j].noticed = "no"
    <3>1. Follows(requests'[j], requests[j])
      BY <1>3
    <3>2. requests[j].turns <= turns /\ requests[j].turns \in Nat /\ turns \in Nat
      BY DEF IInv, RequestsInv, WellFormed
    <3>3. requests'[j].turns <= turns'
      BY <3>1, <3>2 DEF Follows
    <3> QED BY <3>1, <3>3 DEF Follows, IInv, RequestsInv
  <2> QED BY <1>2, <2>1 DEF RequestsInv, SameRequests
<1>7. WaitInv'
  <2>1. ASSUME NEW i \in DOMAIN requests, Outstanding(i)'
        PROVE  i = call' \/ requests'[i].turns < turns' \/ SignedSince(i, Len(requests))'
    <3>1. requests'[i].turns = requests[i].turns /\ Outstanding(i)
      BY <1>3, <1>4, <2>1 DEF Follows
    <3>2. requests[i].turns <= turns /\ requests[i].turns \in Nat /\ turns \in Nat
      BY DEF IInv, RequestsInv, WellFormed
    <3>3. i = call \/ requests[i].turns < turns \/ SignedSince(i, Len(requests))
      BY <3>1 DEF IInv, WaitInv
    <3>4. SignedSince(i, Len(requests)) => SignedSince(i, Len(requests))'
      BY <1>1, <1>2, <1>5 DEF SignedSince
    <3> QED BY <3>1, <3>2, <3>3, <3>4
  <2> QED BY <1>2, <2>1 DEF WaitInv
<1>8. PermitMatchesTheCall'
  BY <1>2, <1>3 DEF IInv, PermitMatchesTheCall, Follows
<1>9. OneCallInFlight'
  <2>1. ASSUME NEW i \in DOMAIN requests, NEW j \in DOMAIN requests, i < j,
               Outstanding(i)', Outstanding(j)'
        PROVE  requests'[i].turns # requests'[j].turns \/ SignedSince(i, j)'
    <3>1. requests[i].turns # requests[j].turns \/ SignedSince(i, j)
      BY <1>4, <2>1 DEF IInv, OneCallInFlight
    <3> QED BY <1>1, <1>3, <1>5, <3>1 DEF Follows
  <2> QED BY <1>2, <2>1 DEF OneCallInFlight
<1> QED BY <1>6, <1>7, <1>8, <1>9 DEF IInv

(* What is asked comes after all that was asked before, unanswered.        *)
Added(r) ==
  LET n == Len(requests) + 1
      q == requests'[n]
  IN  /\ IsSequence' /\ Len(requests') = n
      /\ \A j \in 1 .. Len(requests) : requests'[j] = requests[j]
      /\ {"status", "noticed", "gotA", "gotB", "turns"} \cup DOMAIN r \subseteq DOMAIN q
      /\ q.noticed = "no" /\ q.turns = turns
      /\ "status" \notin DOMAIN r => q.status = "asked"
      /\ \A f \in DOMAIN r : q[f] = r[f]

LEMMA AskedIsAdded ==
  ASSUME IsSequence, NEW r, requests' = Asked(r),
         {"status", "noticed", "turns"} \cap DOMAIN r = {}
  PROVE  Added(r)
<1> DEFINE fresh == [status |-> "asked", noticed |-> "no", gotA |-> 0, gotB |-> 0, turns |-> turns]
           q == [f \in DOMAIN r \cup DOMAIN fresh |-> IF f \in DOMAIN r THEN r[f] ELSE fresh[f]]
           S == {requests[j] : j \in DOMAIN requests} \cup {q}
           n == Len(requests) + 1
<1>1. Len(requests) \in Nat /\ DOMAIN requests = 1 .. Len(requests)
  BY RequestsLength
<1>2. requests' = Append(requests, q)
  BY DEF Asked
<1>3. /\ {"status", "noticed", "gotA", "gotB", "turns"} \cup DOMAIN r \subseteq DOMAIN q
      /\ q.noticed = "no" /\ q.turns = turns
      /\ "status" \notin DOMAIN r => q.status = "asked"
      /\ \A f \in DOMAIN r : q[f] = r[f]
  <2>1. DOMAIN fresh = {"status", "noticed", "gotA", "gotB", "turns"}
    OBVIOUS
  <2>2. fresh["noticed"] = "no" /\ fresh["turns"] = turns /\ fresh["status"] = "asked"
    OBVIOUS
  <2> HIDE DEF fresh
  <2> QED BY <2>1, <2>2
<1> HIDE DEF q
<1>4. requests \in Seq(S)
  BY SeqMonotonic DEF IsSequence
<1>5. /\ requests' \in Seq(S) /\ Len(requests') = n
      /\ requests'[n] = q
      /\ \A j \in 1 .. Len(requests) : requests'[j] = requests[j]
  <2>1. q \in S
    OBVIOUS
  <2> HIDE DEF S
  <2> QED BY <1>1, <1>2, <1>4, <2>1, AppendProperties
<1>6. IsSequence'
  <2> DEFINE T == {requests'[j] : j \in DOMAIN requests'}
  <2>1. requests' \in [1 .. n -> S] /\ n \in Nat
    <3> HIDE DEF S
    <3> QED BY <1>1, <1>5, LenProperties
  <2>2. requests' \in [1 .. n -> T]
    BY <2>1
  <2>3. requests' \in Seq(T)
    <3> HIDE DEF T, n
    <3> QED BY <2>1, <2>2, SeqDef
  <2> QED BY <2>3 DEF IsSequence
<1> QED BY <1>3, <1>5, <1>6 DEF Added

(* The invariant survives a request: an approval, a call asked for while   *)
(* the button waits for none, or a removal that was signed.                *)
LEMMA Asking ==
  ASSUME IInv, NEW r, Added(r), turns' = turns, SigningInv',
         "kind" \in DOMAIN r,
         r.kind = "remove" => /\ {"signed", "liquidity"} \subseteq DOMAIN r
                              /\ r.signed # Unread => r.signed = r.liquidity,
         \/ r.kind = "approve" /\ call' = call
         \/ ~Busy /\ call' = Len(requests')
         \/ r.kind = "remove" /\ r.signed # Unread /\ call' = Len(requests')
  PROVE  IInv'
<1> DEFINE n == Len(requests) + 1
<1>1. /\ Len(requests) \in Nat /\ DOMAIN requests = 1 .. Len(requests)
      /\ \A i \in DOMAIN requests : requests[i].turns \in Nat /\ requests[i].turns <= turns
      /\ turns \in Nat
  BY RequestsLength DEF IInv, RequestsInv, WellFormed
<1>2. /\ Len(requests') = n /\ DOMAIN requests' = 1 .. n
      /\ \A j \in DOMAIN requests : requests'[j] = requests[j]
  BY <1>1, LenProperties DEF Added, IsSequence
<1>3. /\ WellFormed(requests'[n]) /\ requests'[n].turns = turns
      /\ requests'[n].kind = r.kind /\ requests'[n].noticed = "no"
      /\ r.kind = "remove" => requests'[n].signed = r.signed /\ requests'[n].liquidity = r.liquidity
  BY <1>1 DEF Added, WellFormed
<1> HIDE DEF n
<1>4. n = Len(requests) + 1
  BY DEF n
<1>5. \A i \in DOMAIN requests : Outstanding(i)' <=> Outstanding(i)
  BY <1>2 DEF Outstanding
<1>6. \A i, j \in DOMAIN requests : SignedSince(i, j) => SignedSince(i, j)'
  BY <1>1, <1>2 DEF SignedSince
<1>7. \A i \in DOMAIN requests : SignedSince(i, Len(requests)) => SignedSince(i, Len(requests))'
  BY <1>1, <1>2, <1>4 DEF SignedSince
<1>8. \A i \in DOMAIN requests :
        r.kind = "remove" /\ r.signed # Unread => SignedSince(i, Len(requests))'
  BY <1>1, <1>2, <1>3, <1>4 DEF SignedSince
<1>9. ASSUME NEW i \in DOMAIN requests, Outstanding(i)
      PROVE  \/ r.kind = "approve" /\ call' = call /\ i = call
             \/ requests[i].turns < turns
             \/ SignedSince(i, Len(requests))'
  <2>1. ~Busy => i # call
    <3>1. requests[i].noticed = "no" /\ i # 0
      BY <1>1, <1>9 DEF Outstanding, Live, IInv, RequestsInv
    <3> QED BY <1>9, <3>1 DEF Busy, IsPending, IsLoading, Outstanding
  <2>2. i = call \/ requests[i].turns < turns \/ SignedSince(i, Len(requests))
    BY <1>9 DEF IInv, WaitInv
  <2> QED BY <1>7, <1>8, <2>1, <2>2
<1>10. RequestsInv'
  BY <1>1, <1>2, <1>3, <1>4 DEF IInv, RequestsInv, Added
<1>11. WaitInv'
  <2>1. ASSUME NEW i \in 1 .. n, Outstanding(i)'
        PROVE  i = call' \/ requests'[i].turns < turns' \/ SignedSince(i, Len(requests))'
    <3>1. CASE i \in DOMAIN requests
      BY <1>2, <1>5, <1>9, <2>1, <3>1
    <3>2. CASE i = n
      BY <1>2, <1>3, <2>1, <3>2 DEF Outstanding
    <3> QED BY <1>1, <1>4, <3>1, <3>2
  <2> QED BY <1>2, <2>1 DEF WaitInv
<1>12. PermitMatchesTheCall'
  <2>1. ASSUME NEW i \in 1 .. n, requests'[i].kind = "remove", requests'[i].signed # Unread
        PROVE  requests'[i].signed = requests'[i].liquidity
    <3>1. CASE i \in DOMAIN requests
      BY <1>2, <2>1, <3>1 DEF IInv, PermitMatchesTheCall
    <3>2. CASE i = n
      BY <1>3, <2>1, <3>2
    <3> QED BY <1>1, <1>4, <3>1, <3>2
  <2> QED BY <1>2, <2>1 DEF PermitMatchesTheCall
<1>13. OneCallInFlight'
  <2>1. ASSUME NEW i \in 1 .. n, NEW j \in 1 .. n, i < j, Outstanding(i)', Outstanding(j)'
        PROVE  requests'[i].turns # requests'[j].turns \/ SignedSince(i, j)'
    <3>1. i \in DOMAIN requests /\ requests'[i] = requests[i] /\ Outstanding(i)
      BY <1>1, <1>2, <1>4, <1>5, <2>1
    <3>2. CASE j \in DOMAIN requests
      BY <1>2, <1>5, <1>6, <2>1, <3>1, <3>2 DEF IInv, OneCallInFlight
    <3>3. CASE j = n
      <4>1. r.kind # "approve"
        BY <1>3, <2>1, <3>3 DEF Outstanding
      <4> QED BY <1>1, <1>2, <1>3, <1>9, <3>1, <3>3, <4>1
    <3> QED BY <1>1, <1>4, <3>2, <3>3
  <2> QED BY <1>2, <2>1 DEF OneCallInFlight
<1> QED BY <1>10, <1>11, <1>12, <1>13 DEF IInv

-----------------------------------------------------------------------------
(* What happens to a request after it was asked: it is sent, it is over,   *)
(* and the page notices.                                                   *)
LEMMA IsSent ==
  ASSUME RequestsInv, NEW i, requests[i].status = "asked",
         requests' = [requests EXCEPT ![i].status = "sent"]
  PROVE  SameRequests
<1> DEFINE q == [requests[i] EXCEPT !.status = "sent"]
<1>1. requests' = [requests EXCEPT ![i] = q]
  OBVIOUS
<1>2. ASSUME i \in DOMAIN requests
      PROVE  Follows(q, requests[i])
  BY <1>2 DEF RequestsInv, WellFormed, Follows, Live
<1> HIDE DEF q
<1> QED BY <1>1, <1>2, OneChanges

LEMMA IsOver ==
  ASSUME RequestsInv, NEW i, NEW v, v \notin {"asked", "sent"}, NEW a, NEW b,
         \/ requests' = [requests EXCEPT ![i].status = v]
         \/ requests' = [requests EXCEPT ![i].status = v, ![i].gotA = a, ![i].gotB = b]
  PROVE  SameRequests
<1>1. CASE requests' = [requests EXCEPT ![i].status = v]
  <2> DEFINE q == [requests[i] EXCEPT !.status = v]
  <2>1. requests' = [requests EXCEPT ![i] = q]
    BY <1>1
  <2>2. ASSUME i \in DOMAIN requests
        PROVE  Follows(q, requests[i])
    BY <2>2 DEF RequestsInv, WellFormed, Follows, Live
  <2> HIDE DEF q
  <2> QED BY <2>1, <2>2, OneChanges
<1>2. CASE requests' = [requests EXCEPT ![i].status = v, ![i].gotA = a, ![i].gotB = b]
  <2> DEFINE q == [requests[i] EXCEPT !.status = v, !.gotA = a, !.gotB = b]
  <2>1. requests' = [requests EXCEPT ![i] = q]
    BY <1>2
  <2>2. ASSUME i \in DOMAIN requests
        PROVE  Follows(q, requests[i])
    BY <2>2 DEF RequestsInv, WellFormed, Follows, Live
  <2> HIDE DEF q
  <2> QED BY <2>1, <2>2, OneChanges
<1> QED BY <1>1, <1>2

LEMMA IsNoticed ==
  ASSUME RequestsInv, NEW i, Settled(i), requests' = Noticed(i)
  PROVE  SameRequests
<1> DEFINE w == IF requests[i].status = "mined" THEN "success" ELSE "error"
           q == [requests[i] EXCEPT !.noticed = w]
<1>1. requests' = [requests EXCEPT ![i] = q]
  BY DEF Noticed
<1>2. ASSUME i \in DOMAIN requests
      PROVE  Follows(q, requests[i])
  BY <1>2 DEF RequestsInv, WellFormed, Follows, Live, Settled
<1> HIDE DEF q
<1> QED BY <1>1, <1>2, OneChanges

LEMMA InitIInv == Init => IInv
<1> SUFFICES ASSUME Init PROVE IInv
  OBVIOUS
<1>1. requests = <<>> /\ turns = 0 /\ signing = NoCall
  BY DEF Init
<1>2. IsSequence /\ DOMAIN requests = {}
  BY <1>1, EmptySeq DEF IsSequence
<1>3. RequestsInv
  BY <1>1, <1>2 DEF RequestsInv
<1>4. SigningInv /\ WaitInv /\ PermitMatchesTheCall /\ OneCallInFlight
  BY <1>1, <1>2 DEF SigningInv, WaitInv, PermitMatchesTheCall, OneCallInFlight
<1> QED BY <1>3, <1>4 DEF IInv

(* The user's own steps on the page.                                       *)
LEMMA FormStep ==
  ASSUME IInv,
         \/ \E v \in Amounts : TypeAmount(v)
         \/ \E v \in Percents : MoveSlider(v)
         \/ \E m \in {"add", "remove"} : SetMode(m)
         \/ TrySignatureAgain
  PROVE  IInv'
<1>1. UNCHANGED requests /\ UNCHANGED signing
  BY DEF TypeAmount, MoveSlider, SetMode, TrySignatureAgain, walletApp
<1>2. (turns' = turns /\ call' = call) \/ turns' = turns + 1
  BY DEF TypeAmount, MoveSlider, SetMode, TrySignatureAgain
<1>3. turns \in Nat
  BY DEF IInv, RequestsInv
<1>4. SigningInv'
  BY <1>1 DEF IInv, SigningInv
<1>5. SameRequests
  BY <1>1, NoneChanges DEF IInv
<1> QED BY <1>2, <1>3, <1>4, <1>5, Keeping

(* The removal that is about to be made, signed or not.                    *)
LEMMA Arguments ==
  /\ DOMAIN RemoveArguments = {"kind", "liquidity", "pool", "minA", "minB", "signed", "signedNonce"}
  /\ RemoveArguments.kind = "remove" /\ RemoveArguments.signed = Unread
  /\ RemoveArguments.liquidity = RemoveAmount
BY DEF RemoveArguments

LEMMA ApproveStep ==
  ASSUME IInv, NEW x \in Asset, Approve(x)
  PROVE  IInv'
<1> DEFINE r == [kind |-> "approve", asset |-> x, amount |-> Wanted(x)]
<1>1. requests' = Asked(r) /\ turns' = turns /\ signing' = signing /\ call' = call
  BY DEF Approve, form
<1>2. DOMAIN r = {"kind", "asset", "amount"} /\ r.kind = "approve"
  OBVIOUS
<1> HIDE DEF r
<1>3. Added(r)
  BY <1>1, <1>2, AskedIsAdded DEF IInv, RequestsInv
<1>4. SigningInv'
  BY <1>1 DEF IInv, SigningInv
<1> QED BY <1>1, <1>2, <1>3, <1>4, Asking

LEMMA AddLiquidityStep ==
  ASSUME IInv, AddLiquidity
  PROVE  IInv'
<1> DEFINE r == AddArguments
<1>1. requests' = Asked(r) /\ turns' = turns /\ signing' = signing /\ call' = Len(requests') /\ ~Busy
  BY DEF AddLiquidity, form
<1>2. DOMAIN r = {"kind", "pool", "amountA", "amountB", "minA", "minB"} /\ r.kind = "add"
  BY DEF AddArguments
<1> HIDE DEF r
<1>3. Added(r)
  BY <1>1, <1>2, AskedIsAdded DEF IInv, RequestsInv
<1>4. SigningInv'
  BY <1>1 DEF IInv, SigningInv
<1> QED BY <1>1, <1>2, <1>3, <1>4, Asking

LEMMA RemoveStep ==
  ASSUME IInv, Remove
  PROVE  IInv'
<1> DEFINE r == RemoveArguments
<1>1. requests' = Asked(r) /\ turns' = turns /\ signing' = signing /\ call' = Len(requests') /\ ~Busy
  BY DEF Remove, CanRemove, form
<1>2. /\ DOMAIN r = {"kind", "liquidity", "pool", "minA", "minB", "signed", "signedNonce"}
      /\ r.kind = "remove" /\ r.signed = Unread
  BY Arguments
<1> HIDE DEF r
<1>3. Added(r)
  BY <1>1, <1>2, AskedIsAdded DEF IInv, RequestsInv
<1>4. SigningInv'
  BY <1>1 DEF IInv, SigningInv
<1> QED BY <1>1, <1>2, <1>3, <1>4, Asking

LEMMA SignStep ==
  ASSUME IInv, Sign
  PROVE  IInv'
<1>1. /\ UNCHANGED requests /\ turns' = turns /\ call' = call /\ RemoveAmount > 0
      /\ signing' = [RemoveArguments EXCEPT !.signed = RemoveAmount, !.signedNonce = seenNonce]
  BY DEF Sign, CanRemove, walletApp, form
<1>2. RemoveAmount # Unread
  BY <1>1 DEF Unread
<1> HIDE DEF RemoveAmount, RemoveArguments
<1>3. SigningInv'
  BY <1>1, <1>2, Arguments DEF SigningInv
<1>4. SameRequests /\ turns \in Nat
  BY <1>1, NoneChanges DEF IInv, RequestsInv
<1> QED BY <1>1, <1>3, <1>4, Keeping

LEMMA WalletSignsStep ==
  ASSUME IInv, WalletSigns
  PROVE  IInv'
<1>1. /\ signing # NoCall /\ requests' = Asked(signing) /\ turns' = turns
      /\ signing' = NoCall /\ call' = Len(requests')
  BY DEF WalletSigns, Resumed, form
<1>2. /\ {"kind", "signed", "liquidity"} \subseteq DOMAIN signing
      /\ {"status", "noticed", "turns"} \cap DOMAIN signing = {}
      /\ signing.kind = "remove" /\ signing.signed # Unread /\ signing.signed = signing.liquidity
  BY <1>1 DEF IInv, SigningInv
<1>3. Added(signing)
  BY <1>1, <1>2, AskedIsAdded DEF IInv, RequestsInv
<1>4. SigningInv'
  BY <1>1 DEF SigningInv
<1> QED BY <1>1, <1>2, <1>3, <1>4, Asking

(* The wallet's answers otherwise, the chain's steps and the page's: they  *)
(* ask for nothing and turn nothing.                                       *)
LEMMA QuietStep ==
  ASSUME IInv, SameRequests, turns' = turns, call' = call, signing' \in {signing, NoCall}
  PROVE  IInv'
<1>1. SigningInv' /\ turns \in Nat
  BY DEF IInv, SigningInv, RequestsInv
<1> QED BY <1>1, Keeping

LEMMA WalletStep ==
  ASSUME IInv,
         \/ WalletRefusesSignature
         \/ \E i \in DOMAIN requests : WalletConfirms(i) \/ WalletRefuses(i)
  PROVE  IInv'
<1>1. CASE WalletRefusesSignature
  <2>1. SameRequests
    BY <1>1, NoneChanges DEF WalletRefusesSignature, walletApp, IInv
  <2> QED BY <1>1, <2>1, QuietStep DEF WalletRefusesSignature
<1>2. ASSUME NEW i, WalletConfirms(i)
      PROVE  IInv'
  <2>1. SameRequests
    BY <1>2, IsSent DEF WalletConfirms, IInv
  <2> QED BY <1>2, <2>1, QuietStep DEF WalletConfirms, form
<1>3. ASSUME NEW i, WalletRefuses(i)
      PROVE  IInv'
  <2>1. SameRequests
    BY <1>3, IsOver DEF WalletRefuses, IInv
  <2> QED BY <1>3, <2>1, QuietStep DEF WalletRefuses, form
<1> QED BY <1>1, <1>2, <1>3

LEMMA EnvironmentStep ==
  ASSUME IInv, Environment
  PROVE  IInv'
<1>1. turns' = turns /\ call' = call /\ signing' = signing
  BY DEF Environment, MineAdd, MineRemove, MineApproval, OthersAct, form
<1>2. CASE MineAdd
  <2> DEFINE i == Head(queue)
             s == Supplied(requests[i])
  <2>1. \/ requests' = [requests EXCEPT ![i].status = "reverted"]
        \/ requests' = [requests EXCEPT ![i].status = "mined", ![i].gotA = s.a, ![i].gotB = s.b]
    BY <1>2 DEF MineAdd, Fails
  <2> HIDE DEF i, s
  <2>2. SameRequests
    BY <2>1, IsOver DEF IInv
  <2> QED BY <1>1, <2>2, QuietStep
<1>3. CASE MineRemove
  <2> DEFINE i == Head(queue)
             a == (requests[i].liquidity * pool.reserve1) \div pool.totalSupply
             b == (requests[i].liquidity * pool.reserve0) \div pool.totalSupply
  <2>1. \/ requests' = [requests EXCEPT ![i].status = "reverted"]
        \/ requests' = [requests EXCEPT ![i].status = "mined", ![i].gotA = a, ![i].gotB = b]
    BY <1>3 DEF MineRemove, Fails
  <2> HIDE DEF i, a, b
  <2>2. SameRequests
    BY <2>1, IsOver DEF IInv
  <2> QED BY <1>1, <2>2, QuietStep
<1>4. CASE MineApproval
  <2> DEFINE i == Head(queue)
  <2>1. requests' = [requests EXCEPT ![i].status = "mined"]
    BY <1>4 DEF MineApproval
  <2> HIDE DEF i
  <2>2. SameRequests
    BY <2>1, IsOver DEF IInv
  <2> QED BY <1>1, <2>2, QuietStep
<1>5. CASE \E amount \in TradeAmounts : OthersAct(amount)
  <2>1. SameRequests
    BY <1>5, NoneChanges DEF OthersAct, walletApp, IInv
  <2> QED BY <1>1, <2>1, QuietStep
<1> QED BY <1>2, <1>3, <1>4, <1>5 DEF Environment

LEMMA PageStep ==
  ASSUME IInv, Page
  PROVE  IInv'
<1>1. turns' = turns /\ call' = call /\ signing' = signing
  BY DEF Page, ReadPool, ReadPoolFails, ReadPosition, ReadNonce, ReadAllowance, NoticeCall,
         NoticeApproval, form
<1>2. ASSUME NEW i, Settled(i), requests' = Noticed(i)
      PROVE  SameRequests
  BY <1>2, IsNoticed DEF IInv
<1>3. SameRequests
  <2>1. CASE UNCHANGED requests
    BY <2>1, NoneChanges DEF IInv
  <2>2. CASE NoticeCall
    BY <1>2, <2>2 DEF NoticeCall
  <2>3. CASE \E x \in Asset : NoticeApproval(x)
    BY <1>2, <2>3 DEF NoticeApproval
  <2>4. UNCHANGED requests \/ NoticeCall \/ \E x \in Asset : NoticeApproval(x)
    BY DEF Page, ReadPool, ReadPoolFails, ReadPosition, ReadNonce, ReadAllowance, walletApp
  <2> QED BY <2>1, <2>2, <2>3, <2>4
<1> QED BY <1>1, <1>3, QuietStep

LEMMA NextIInv == IInv /\ [Next]_vars => IInv'
<1> SUFFICES ASSUME IInv, [Next]_vars PROVE IInv'
  OBVIOUS
<1>1. CASE User
  BY <1>1, FormStep, ApproveStep, AddLiquidityStep, RemoveStep, SignStep, WalletSignsStep, WalletStep
     DEF User
<1>2. CASE Environment
  BY <1>2, EnvironmentStep
<1>3. CASE Page
  BY <1>3, PageStep
<1>4. CASE UNCHANGED vars
  <2>1. UNCHANGED requests /\ turns' = turns /\ call' = call /\ signing' = signing
    BY <1>4 DEF vars, walletApp, form
  <2>2. SameRequests
    BY <2>1, NoneChanges DEF IInv
  <2> QED BY <2>1, <2>2, QuietStep
<1> QED BY <1>1, <1>2, <1>3, <1>4 DEF Next

LEMMA Invariance == Spec => []IInv
BY InitIInv, NextIInv, PTL DEF Spec

(* removeLiquidity(): whatever is refreshed while the wallet is open, a    *)
(* permit goes with a call for the liquidity that was signed.              *)
THEOREM PermitAlwaysMatches == Spec => []PermitMatchesTheCall
<1>1. IInv => PermitMatchesTheCall
  BY DEF IInv
<1> QED BY <1>1, Invariance, PTL

(* The button: two calls are under way together only where the user        *)
(* changed mode, slider or mind in between, or a signature asked for       *)
(* before came late.                                                       *)
THEOREM CallsOneAtATime == Spec => []OneCallInFlight
<1>1. IInv => OneCallInFlight
  BY DEF IInv
<1> QED BY <1>1, Invariance, PTL
-----------------------------------------------------------------------------
(* The limits.  A removal carries minimums that are the tolerated share of *)
(* what the pool on show would have paid for its liquidity, a deposit that *)
(* was made from a pool those of the amounts it offers.                    *)

Marks == {"status", "noticed", "gotA", "gotB", "turns"}

RemovalSound(r) ==
  /\ {"kind", "liquidity", "pool", "minA", "minB", "signed", "signedNonce"} \subseteq DOMAIN r
  /\ r.kind = "remove" /\ r.pool \in Pool /\ r.liquidity \in Nat \ {0}
  /\ r.minA = WithSlippage((r.liquidity * r.pool.reserve1) \div r.pool.totalSupply)
  /\ r.minB = WithSlippage((r.liquidity * r.pool.reserve0) \div r.pool.totalSupply)

DepositSound(r) ==
  /\ {"kind", "pool", "amountA", "amountB", "minA", "minB"} \subseteq DOMAIN r
  /\ r.kind = "add" /\ r.amountA \in Nat \ {0} /\ r.amountB \in Nat
  /\ r.pool # NoPool => r.minA = WithSlippage(r.amountA) /\ r.minB = WithSlippage(r.amountB)

ApprovalSound(r) ==
  /\ {"kind", "asset", "amount"} \subseteq DOMAIN r
  /\ r.kind = "approve" /\ r.asset \in Asset /\ r.amount \in Nat \ {0}

AskedSoundly(r) == RemovalSound(r) \/ DepositSound(r) \/ ApprovalSound(r)

(* What was mined kept to the limits its request carries.                  *)
MinedWithin(r) ==
  r.status = "mined" =>
    /\ r.kind = "remove" => r.gotA >= r.minA /\ r.gotB >= r.minB
    /\ r.kind = "add" /\ r.pool # NoPool => /\ r.gotA \in r.minA .. r.amountA
                                            /\ r.gotB \in r.minB .. r.amountB

RequestsSound ==
  \A i \in DOMAIN requests :
    Marks \subseteq DOMAIN requests[i] /\ AskedSoundly(requests[i]) /\ MinedWithin(requests[i])

SigningSound == signing # NoCall => RemovalSound(signing) /\ Marks \cap DOMAIN signing = {}

(* The user's shares, and the minimum liquidity besides, are of the pool.  *)
PoolInv ==
  /\ lp \in Nat /\ nonce \in Nat /\ allowance \in [Asset -> Nat]
  /\ \/ pool = NoPool /\ lp = 0
     \/ pool \in Pool /\ pool.totalSupply >= lp + MINIMUM_LIQUIDITY

FormInv ==
  /\ mode \in {"add", "remove"} /\ input \in Amounts /\ percent \in 1 .. 100
  /\ permitFallback \in BOOLEAN

SeenInv == seenPool \in Pool \cup {NoPool} /\ seenLp \in Nat

PlacesInv ==
  /\ queue \in Seq(1 .. Len(requests))
  /\ call \in 0 .. Len(requests) /\ approval \in [Asset -> 0 .. Len(requests)]

LimitsInv == PoolInv /\ FormInv /\ SeenInv /\ PlacesInv /\ RequestsSound /\ SigningSound

-----------------------------------------------------------------------------
(* The page's arithmetic.                                                  *)

LEMMA WithSlippageType ==
  ASSUME NEW v \in Nat
  PROVE  WithSlippage(v) \in Nat /\ WithSlippage(v) <= v
<1>1. SlippageBps \in Nat /\ Bps - SlippageBps \in Nat /\ Bps - SlippageBps <= Bps /\ Bps = 10000
  BY LiquidityFormAssumption DEF Bps
<1> DEFINE k == Bps - SlippageBps
<1>2. v * k \in Nat /\ v * k <= v * Bps /\ v * Bps \in Nat
  <2>1. k \in Nat /\ k <= Bps /\ Bps \in Nat
    BY <1>1
  <2> HIDE DEF k
  <2> QED BY <2>1, MulMonotone, SMT
<1> HIDE DEF k
<1>3. (v * k) \div Bps \in Nat /\ ((v * k) \div Bps) * Bps <= v * k
  BY <1>1, <1>2, DivBounds
<1> DEFINE w == (v * k) \div Bps
<1>4. w <= v
  <2>1. w \in Nat /\ w * Bps <= v * Bps
    <3>1. w \in Nat /\ w * Bps \in Nat /\ w * Bps <= v * k
      BY <1>1, <1>3, SMT
    <3> HIDE DEF w
    <3> QED BY <1>2, <3>1, SMT
  <2> HIDE DEF w
  <2> QED BY <1>1, <2>1, MulCancel
<1> QED BY <1>3, <1>4 DEF WithSlippage, MinimumReceived, k

LEMMA RemoveAmountType ==
  ASSUME FormInv, SeenInv
  PROVE  RemoveAmount \in Nat
<1>1. Lp \in Nat /\ percent \in Nat
  BY DEF FormInv, SeenInv, Lp
<1>2. Lp * percent \in Nat
  BY <1>1, SMT
<1> QED BY <1>2, DivBounds DEF RemoveAmount

LEMMA AmountBType ==
  ASSUME FormInv, SeenInv
  PROVE  AmountB \in Nat
<1>1. input \in Nat
  BY LiquidityFormAssumption DEF FormInv
<1>2. CASE ~HasRatio \/ input = 0
  BY <1>1, <1>2 DEF AmountB, QuoteAmount
<1>3. CASE HasRatio
  <2>1. seenPool \in Pool
    BY <1>3 DEF HasRatio, SeenInv
  <2>2. seenPool.reserve0 \in Nat \ {0} /\ seenPool.reserve1 \in Nat \ {0} /\ seenPool.token0 = TokenB
    BY <2>1 DEF Pool
  <2>3. AmountB = QuoteAmount(input, seenPool.reserve1, seenPool.reserve0)
    BY <1>3, <2>2 DEF AmountB, OrientReserves, TokenA, TokenB
  <2>4. input * seenPool.reserve0 \in Nat
    BY <1>1, <2>2, SMT
  <2>5. (input * seenPool.reserve0) \div seenPool.reserve1 \in Nat
    BY <2>2, <2>4, DivBounds
  <2> QED BY <2>3, <2>5 DEF QuoteAmount, Quote
<1> QED BY <1>2, <1>3

(* What the button asks for, signed or not.                                *)
LEMMA RemovalIsSound ==
  ASSUME FormInv, SeenInv, CanRemove, NEW s, NEW n
  PROVE  /\ RemovalSound(RemoveArguments)
         /\ RemovalSound([RemoveArguments EXCEPT !.signed = s, !.signedNonce = n])
<1>1. seenPool \in Pool /\ RemoveAmount \in Nat \ {0} /\ seenPool # NoPool
  BY RemoveAmountType DEF SeenInv, CanRemove
<1>2. /\ seenPool.token0 = TokenB /\ seenPool.totalSupply # 0
  BY <1>1 DEF Pool
<1>3. /\ ExpectedOut.a = (RemoveAmount * seenPool.reserve1) \div seenPool.totalSupply
      /\ ExpectedOut.b = (RemoveAmount * seenPool.reserve0) \div seenPool.totalSupply
  BY <1>1, <1>2 DEF ExpectedOut, OrientReserves, TokenA, TokenB
<1> DEFINE r == [RemoveArguments EXCEPT !.signed = s, !.signedNonce = n]
<1> HIDE DEF RemoveAmount, ExpectedOut, WithSlippage
<1>4. RemovalSound(RemoveArguments)
  BY <1>1, <1>3 DEF RemovalSound, RemoveArguments
<1>5. /\ DOMAIN r = DOMAIN RemoveArguments
      /\ \A f \in DOMAIN RemoveArguments \ {"signed", "signedNonce"} : r[f] = RemoveArguments[f]
  BY Arguments DEF RemoveArguments
<1> HIDE DEF r
<1>6. RemovalSound(r)
  BY <1>4, <1>5, Arguments DEF RemovalSound
<1> QED BY <1>4, <1>6 DEF r

LEMMA DepositIsSound ==
  ASSUME FormInv, SeenInv, AddLiquidity
  PROVE  DepositSound(AddArguments)
<1>1. input \in Nat \ {0} /\ AmountB \in Nat
  BY AmountBType, LiquidityFormAssumption DEF FormInv, AddLiquidity
<1> HIDE DEF AmountB, WithSlippage, HasRatio
<1> QED BY <1>1 DEF DepositSound, AddArguments

LEMMA ApprovalIsSound ==
  ASSUME FormInv, SeenInv, NEW x \in Asset, NeedsApproval(x)
  PROVE  ApprovalSound([kind |-> "approve", asset |-> x, amount |-> Wanted(x)])
<1>1. Wanted(x) \in Nat /\ Wanted(x) > 0
  BY AmountBType, RemoveAmountType, LiquidityFormAssumption DEF FormInv, Wanted, NeedsApproval
<1> HIDE DEF Wanted
<1> QED BY <1>1 DEF ApprovalSound

-----------------------------------------------------------------------------
(* A request keeps what it was asked with.                                 *)
Carries(q, r) == DOMAIN r \subseteq DOMAIN q /\ \A f \in DOMAIN r \ Marks : q[f] = r[f]

LEMMA CarriedIsSound ==
  ASSUME NEW q, NEW r, Carries(q, r), AskedSoundly(r)
  PROVE  AskedSoundly(q)
<1>1. CASE RemovalSound(r)
  <2>1. RemovalSound(q)
    BY <1>1 DEF RemovalSound, Carries, Marks
  <2> QED BY <2>1 DEF AskedSoundly
<1>2. CASE DepositSound(r)
  <2>1. DepositSound(q)
    BY <1>2 DEF DepositSound, Carries, Marks
  <2> QED BY <2>1 DEF AskedSoundly
<1>3. CASE ApprovalSound(r)
  <2>1. ApprovalSound(q)
    BY <1>3 DEF ApprovalSound, Carries, Marks
  <2> QED BY <2>1 DEF AskedSoundly
<1> QED BY <1>1, <1>2, <1>3 DEF AskedSoundly

LEMMA OneStaysSound ==
  ASSUME IsSequence, RequestsSound, SameRequests, NEW i, NEW q, requests' = [requests EXCEPT ![i] = q],
         i \in DOMAIN requests => Carries(q, requests[i]) /\ MinedWithin(q)
  PROVE  RequestsSound'
<1> SUFFICES ASSUME NEW j \in DOMAIN requests
             PROVE  /\ Marks \subseteq DOMAIN requests'[j]
                    /\ AskedSoundly(requests'[j]) /\ MinedWithin(requests'[j])
  BY DEF RequestsSound
<1>1. Marks \subseteq DOMAIN requests[j] /\ AskedSoundly(requests[j]) /\ MinedWithin(requests[j])
  BY DEF RequestsSound
<1>2. CASE j = i
  BY <1>1, <1>2, CarriedIsSound DEF Carries
<1>3. CASE j # i
  BY <1>1, <1>3
<1> QED BY <1>2, <1>3

LEMMA AddedIsSound ==
  ASSUME IsSequence, RequestsSound, NEW r, Added(r), AskedSoundly(r), Marks \cap DOMAIN r = {}
  PROVE  RequestsSound'
<1> DEFINE n == Len(requests) + 1
<1>1. Len(requests) \in Nat /\ DOMAIN requests = 1 .. Len(requests) /\ DOMAIN requests' = 1 .. n
  BY RequestsLength, LenProperties DEF Added, IsSequence
<1>2. \A j \in 1 .. Len(requests) : requests'[j] = requests[j]
  BY DEF Added
<1>3. Marks \subseteq DOMAIN requests'[n] /\ Carries(requests'[n], r) /\ requests'[n].status = "asked"
  BY DEF Added, Carries, Marks
<1>4. AskedSoundly(requests'[n]) /\ MinedWithin(requests'[n])
  BY <1>3, CarriedIsSound DEF MinedWithin
<1> SUFFICES ASSUME NEW j \in 1 .. n
             PROVE  /\ Marks \subseteq DOMAIN requests'[j]
                    /\ AskedSoundly(requests'[j]) /\ MinedWithin(requests'[j])
  BY <1>1 DEF RequestsSound
<1>5. CASE j \in 1 .. Len(requests)
  BY <1>1, <1>2, <1>5 DEF RequestsSound
<1>6. CASE j = n
  BY <1>3, <1>4, <1>6
<1> QED BY <1>1, <1>5, <1>6

-----------------------------------------------------------------------------
(* The steps, one part of the invariant at a time.                         *)

LEMMA InitLimits == Init => LimitsInv
<1> SUFFICES ASSUME Init PROVE LimitsInv
  OBVIOUS
<1>1. PICK o \in Openings : /\ pool = o.pool /\ lp = o.lp /\ mode = o.mode
                            /\ allowance = [x \in Asset |-> IF x = "a" THEN o.approved ELSE 0]
  BY DEF Init
<1>2. PoolInv
  BY <1>1, LiquidityFormAssumption DEF PoolInv, Init
<1>3. FormInv /\ SeenInv
  <2>1. /\ input = 0 /\ percent = 50 /\ permitFallback = FALSE
        /\ seenPool = NoPool /\ seenLp = 0
    BY DEF Init
  <2>2. o.mode \in {"add", "remove"} /\ 0 \in Amounts
    BY LiquidityFormAssumption
  <2>3. SeenInv
    BY <2>1 DEF SeenInv
  <2>4. permitFallback \in BOOLEAN
    BY <2>1
  <2>5. mode \in {"add", "remove"}
    BY <1>1, <2>2
  <2>6. FormInv
    BY <2>1, <2>2, <2>4, <2>5, SMT DEF FormInv
  <2> QED BY <2>3, <2>6
<1>4. PlacesInv
  <2>1. requests = <<>> /\ queue = <<>> /\ call = 0 /\ approval = [x \in Asset |-> 0]
    BY DEF Init
  <2>2. Len(requests) = 0 /\ queue \in Seq(1 .. Len(requests))
    BY <2>1, EmptySeq
  <2> QED BY <2>1, <2>2 DEF PlacesInv
<1>5. RequestsSound /\ SigningSound
  BY EmptySeq DEF RequestsSound, SigningSound, Init
<1> QED BY <1>2, <1>3, <1>4, <1>5 DEF LimitsInv

LEMMA FormKept == FormInv /\ [Next]_vars => FormInv'
<1> SUFFICES ASSUME FormInv, [Next]_vars PROVE FormInv'
  OBVIOUS
<1>1. CASE User
  <2>1. ASSUME NEW v \in Amounts, TypeAmount(v) PROVE FormInv'
    BY <2>1 DEF TypeAmount, FormInv
  <2>2. ASSUME NEW v \in Percents, MoveSlider(v) PROVE FormInv'
    BY <2>2, LiquidityFormAssumption DEF MoveSlider, FormInv
  <2>3. ASSUME NEW m \in {"add", "remove"}, SetMode(m) PROVE FormInv'
    BY <2>3 DEF SetMode, FormInv
  <2>4. CASE TrySignatureAgain
    BY <2>4 DEF TrySignatureAgain, FormInv
  <2>5. CASE WalletRefusesSignature
    BY <2>5 DEF WalletRefusesSignature, FormInv
  <2>6. CASE UNCHANGED form
    BY <2>6 DEF form, FormInv
  <2> QED
    BY <1>1, <2>1, <2>2, <2>3, <2>4, <2>5, <2>6
       DEF User, Approve, AddLiquidity, Sign, Remove, WalletSigns, WalletConfirms, WalletRefuses
<1>2. CASE Environment
  BY <1>2 DEF Environment, MineAdd, MineRemove, MineApproval, OthersAct, form, FormInv
<1>3. CASE Page
  <2>1. CASE NoticeCall
    BY <2>1, LiquidityFormAssumption DEF NoticeCall, FormInv
  <2>2. CASE UNCHANGED form
    BY <2>2 DEF form, FormInv
  <2> QED
    BY <1>3, <2>1, <2>2
       DEF Page, ReadPool, ReadPoolFails, ReadPosition, ReadNonce, ReadAllowance, NoticeApproval
<1>4. CASE UNCHANGED vars
  BY <1>4 DEF vars, form, FormInv
<1> QED BY <1>1, <1>2, <1>3, <1>4 DEF Next

LEMMA SeenKept == PoolInv /\ SeenInv /\ [Next]_vars => SeenInv'
<1> SUFFICES ASSUME PoolInv, SeenInv, [Next]_vars PROVE SeenInv'
  OBVIOUS
<1>1. CASE UNCHANGED <<seenPool, seenLp>>
  BY <1>1 DEF SeenInv
<1>2. CASE User
  <2>1. UNCHANGED seen
    BY <1>2 DEF User, TypeAmount, MoveSlider, SetMode, TrySignatureAgain, Approve, AddLiquidity, Sign,
                Remove, WalletSigns, WalletRefusesSignature, WalletConfirms, WalletRefuses
  <2> QED BY <1>1, <2>1 DEF seen
<1>3. CASE Environment
  BY <1>1, <1>3 DEF Environment, MineAdd, MineRemove, MineApproval, OthersAct, seen
<1>4. CASE Page
  <2>1. CASE ReadPool
    BY <2>1 DEF ReadPool, SeenInv, PoolInv
  <2>2. CASE ReadPoolFails
    BY <2>2 DEF ReadPoolFails, SeenInv
  <2>3. CASE ReadPosition
    BY <2>3 DEF ReadPosition, SeenInv, PoolInv
  <2> QED
    BY <1>1, <1>4, <2>1, <2>2, <2>3 DEF Page, ReadNonce, ReadAllowance, NoticeCall, NoticeApproval, seen
<1>5. CASE UNCHANGED vars
  BY <1>1, <1>5 DEF vars, seen
<1> QED BY <1>2, <1>3, <1>4, <1>5 DEF Next

(* The queue, and the hooks, name requests that were made.                 *)
LEMMA PlacesStay ==
  ASSUME PlacesInv, NEW n \in Nat, n = Len(requests), Len(requests') \in Nat, Len(requests') >= n,
         \/ queue' = queue
         \/ queue # <<>> /\ queue' = Tail(queue)
         \/ \E i \in 1 .. n : queue' = Append(queue, i),
         call' = call \/ call' \in 0 .. Len(requests'),
         \/ approval' = approval
         \/ \E x \in Asset : approval' = [approval EXCEPT ![x] = Len(requests')]
  PROVE  PlacesInv'
<1> DEFINE S == 1 .. n
           T == 1 .. Len(requests')
<1>1. queue \in Seq(S)
  BY DEF PlacesInv
<1>2. queue' \in Seq(S)
  <2>1. CASE queue # <<>> /\ queue' = Tail(queue)
    <3> HIDE DEF S
    <3> QED BY <1>1, <2>1, HeadTailProperties
  <2>2. CASE \E i \in S : queue' = Append(queue, i)
    <3> HIDE DEF S
    <3> QED BY <1>1, <2>2, AppendProperties
  <2> QED BY <1>1, <2>1, <2>2
<1>3. S \subseteq T
  OBVIOUS
<1>4. queue' \in Seq(T)
  <2> HIDE DEF S, T
  <2> QED BY <1>2, <1>3, SeqMonotonic
<1>5. call' \in 0 .. Len(requests') /\ approval' \in [Asset -> 0 .. Len(requests')]
  BY DEF PlacesInv
<1> QED BY <1>4, <1>5 DEF PlacesInv

(* Every step leaves the requests sound: those that are there, and the one *)
(* it may add.                                                             *)
Sound ==
  /\ RequestsSound /\ SigningSound
  /\ IsSequence

Grown(d) == IsSequence' /\ Len(requests') = Len(requests) + d

LEMMA QuietIsSound ==
  ASSUME Sound, UNCHANGED requests, signing' \in {signing, NoCall}
  PROVE  RequestsSound' /\ SigningSound' /\ Grown(0)
<1>1. Len(requests) \in Nat
  BY RequestsLength DEF Sound
<1> QED BY <1>1 DEF Sound, RequestsSound, SigningSound, Grown, IsSequence

LEMMA AskingIsSound ==
  ASSUME Sound, NEW r, requests' = Asked(r), AskedSoundly(r), Marks \cap DOMAIN r = {},
         signing' \in {signing, NoCall}
  PROVE  RequestsSound' /\ SigningSound' /\ Grown(1)
<1>1. Added(r)
  BY AskedIsAdded DEF Sound, Marks
<1>2. RequestsSound'
  BY <1>1, AddedIsSound DEF Sound
<1>3. SigningSound'
  BY DEF Sound, SigningSound
<1> QED BY <1>1, <1>2, <1>3 DEF Grown, Added

LEMMA MovingIsSound ==
  ASSUME Sound, SameRequests, NEW i, NEW q, requests' = [requests EXCEPT ![i] = q],
         i \in DOMAIN requests => Carries(q, requests[i]) /\ MinedWithin(q),
         signing' = signing
  PROVE  RequestsSound' /\ SigningSound' /\ Grown(0)
<1>1. RequestsSound'
  BY OneStaysSound DEF Sound
<1>2. Grown(0)
  BY RequestsLength DEF Sound, SameRequests, Grown
<1>3. SigningSound'
  BY DEF Sound, SigningSound
<1> QED BY <1>1, <1>2, <1>3

(* The user and the wallet.                                                *)
LEMMA UserIsSound ==
  ASSUME IInv, Sound, FormInv, SeenInv, User
  PROVE  RequestsSound' /\ SigningSound' /\ (Grown(0) \/ Grown(1))
<1>1. CASE UNCHANGED requests /\ UNCHANGED signing
  BY <1>1, QuietIsSound
<1>2. ASSUME NEW x \in Asset, Approve(x)
      PROVE  RequestsSound' /\ SigningSound' /\ Grown(1)
  <2> DEFINE r == [kind |-> "approve", asset |-> x, amount |-> Wanted(x)]
  <2>1. requests' = Asked(r) /\ signing' = signing /\ NeedsApproval(x)
    BY <1>2 DEF Approve
  <2>2. AskedSoundly(r)
    BY <2>1, ApprovalIsSound DEF AskedSoundly
  <2>3. Marks \cap DOMAIN r = {}
    BY DEF Marks
  <2> HIDE DEF r
  <2> QED BY <2>1, <2>2, <2>3, AskingIsSound
<1>3. CASE AddLiquidity
  <2> DEFINE r == AddArguments
  <2>1. requests' = Asked(r) /\ signing' = signing
    BY <1>3 DEF AddLiquidity
  <2>2. AskedSoundly(r)
    BY <1>3, DepositIsSound DEF AskedSoundly
  <2>3. Marks \cap DOMAIN r = {}
    BY DEF Marks, AddArguments
  <2> HIDE DEF r
  <2> QED BY <2>1, <2>2, <2>3, AskingIsSound
<1>4. CASE Remove
  <2> DEFINE r == RemoveArguments
  <2>1. requests' = Asked(r) /\ signing' = signing /\ CanRemove
    BY <1>4 DEF Remove
  <2>2. AskedSoundly(r)
    BY <2>1, RemovalIsSound DEF AskedSoundly
  <2>3. Marks \cap DOMAIN r = {}
    BY Arguments DEF Marks
  <2> HIDE DEF r
  <2> QED BY <2>1, <2>2, <2>3, AskingIsSound
<1>5. CASE WalletSigns
  <2>1. requests' = Asked(signing) /\ signing' = NoCall /\ signing # NoCall
    BY <1>5 DEF WalletSigns, Resumed
  <2>2. AskedSoundly(signing) /\ Marks \cap DOMAIN signing = {}
    BY <2>1 DEF Sound, SigningSound, AskedSoundly
  <2> QED BY <2>1, <2>2, AskingIsSound
<1>6. CASE Sign
  <2> DEFINE r == [RemoveArguments EXCEPT !.signed = RemoveAmount, !.signedNonce = seenNonce]
  <2>1. UNCHANGED requests /\ signing' = r /\ CanRemove
    BY <1>6 DEF Sign, walletApp
  <2>2. RemovalSound(r)
    BY <2>1, RemovalIsSound
  <2>3. Marks \cap DOMAIN r = {}
    BY Arguments DEF Marks
  <2> HIDE DEF r
  <2>4. SigningSound'
    BY <2>1, <2>2, <2>3 DEF SigningSound
  <2>5. RequestsSound' /\ Grown(0)
    BY <2>1, RequestsLength DEF Sound, RequestsSound, Grown, IsSequence
  <2> QED BY <2>4, <2>5
<1>7. CASE WalletRefusesSignature
  BY <1>7, QuietIsSound DEF WalletRefusesSignature, walletApp
<1>8. ASSUME NEW i, NEW v \in {"sent", "refused"}, requests[i].status = "asked",
             requests' = [requests EXCEPT ![i].status = v], signing' = signing
      PROVE  RequestsSound' /\ SigningSound' /\ Grown(0)
  <2> DEFINE q == [requests[i] EXCEPT !.status = v]
  <2>1. requests' = [requests EXCEPT ![i] = q]
    BY <1>8
  <2>2. SameRequests
    BY <1>8, IsSent, IsOver DEF IInv
  <2>3. ASSUME i \in DOMAIN requests
        PROVE  Carries(q, requests[i]) /\ MinedWithin(q)
    <3>1. Marks \subseteq DOMAIN requests[i]
      BY <2>3 DEF Sound, RequestsSound
    <3>2. q.status = v
      BY <3>1 DEF Marks
    <3> QED BY <3>1, <3>2 DEF Carries, Marks, MinedWithin
  <2> HIDE DEF q
  <2> QED BY <1>8, <2>1, <2>2, <2>3, MovingIsSound
<1>9. CASE \E i \in DOMAIN requests : WalletConfirms(i) \/ WalletRefuses(i)
  BY <1>8, <1>9 DEF WalletConfirms, WalletRefuses
<1> QED
  BY <1>1, <1>2, <1>3, <1>4, <1>5, <1>6, <1>7, <1>9
     DEF User, TypeAmount, MoveSlider, SetMode, TrySignatureAgain, walletApp

(* The page.                                                               *)
LEMMA PageIsSound ==
  ASSUME IInv, Sound, Page
  PROVE  RequestsSound' /\ SigningSound' /\ Grown(0)
<1>1. CASE UNCHANGED requests /\ UNCHANGED signing
  BY <1>1, QuietIsSound
<1>2. ASSUME NEW i, Settled(i), requests' = Noticed(i), signing' = signing
      PROVE  RequestsSound' /\ SigningSound' /\ Grown(0)
  <2> DEFINE w == IF requests[i].status = "mined" THEN "success" ELSE "error"
             q == [requests[i] EXCEPT !.noticed = w]
  <2>1. requests' = [requests EXCEPT ![i] = q]
    BY <1>2 DEF Noticed
  <2>2. SameRequests
    BY <1>2, IsNoticed DEF IInv
  <2>3. ASSUME i \in DOMAIN requests
        PROVE  Carries(q, requests[i]) /\ MinedWithin(q)
    <3>1. MinedWithin(requests[i]) /\ AskedSoundly(requests[i])
      BY <2>3 DEF Sound, RequestsSound
    <3>2. DOMAIN q = DOMAIN requests[i] /\ \A f \in DOMAIN q \ {"noticed"} : q[f] = requests[i][f]
      OBVIOUS
    <3>3. Carries(q, requests[i])
      BY <3>2 DEF Carries, Marks
    <3>4. Marks \subseteq DOMAIN requests[i]
      BY <2>3 DEF Sound, RequestsSound
    <3> HIDE DEF q
    <3>5. MinedWithin(q)
      BY <3>1, <3>2, <3>4 DEF MinedWithin, Marks, AskedSoundly, RemovalSound, DepositSound, ApprovalSound
    <3> QED BY <3>3, <3>5
  <2> HIDE DEF q
  <2> QED BY <1>2, <2>1, <2>2, <2>3, MovingIsSound
<1>3. CASE NoticeCall
  BY <1>2, <1>3 DEF NoticeCall
<1>4. CASE \E x \in Asset : NoticeApproval(x)
  BY <1>2, <1>4 DEF NoticeApproval
<1> QED
  BY <1>1, <1>3, <1>4
     DEF Page, ReadPool, ReadPoolFails, ReadPosition, ReadNonce, ReadAllowance, walletApp

-----------------------------------------------------------------------------
(* The chain.                                                              *)

LEMMA HeadOfQueue ==
  ASSUME IInv, PlacesInv, queue # <<>>
  PROVE  Head(queue) \in DOMAIN requests
<1> DEFINE S == 1 .. Len(requests)
<1>1. queue \in Seq(S) /\ DOMAIN requests = S
  BY RequestsLength DEF IInv, RequestsInv, PlacesInv
<1> HIDE DEF S
<1> QED BY <1>1, HeadTailProperties

(* The router takes no more of either token than was offered.              *)
LEMMA SuppliedWithin ==
  ASSUME PoolInv, NEW r, DepositSound(r)
  PROVE  Supplied(r).a \in 0 .. r.amountA /\ Supplied(r).b \in 0 .. r.amountB
<1>1. r.amountA \in Nat /\ r.amountB \in Nat
  BY DEF DepositSound
<1>2. CASE pool = NoPool
  BY <1>1, <1>2 DEF Supplied
<1>3. CASE pool \in Pool
  <2> DEFINE r0 == pool.reserve0
             r1 == pool.reserve1
             b == Quote(r.amountA, r1, r0)
             a == Quote(r.amountB, r0, r1)
  <2>1. r0 \in Nat /\ r1 \in Nat /\ r0 > 0 /\ r1 > 0 /\ pool # NoPool
    BY <1>3, LiquidityFormAssumption DEF Pool
  <2>2. Supplied(r) = IF b <= r.amountB THEN [a |-> r.amountA, b |-> b] ELSE [a |-> a, b |-> r.amountB]
    BY <2>1 DEF Supplied
  <2> HIDE DEF r0, r1
  <2>3. a \in Nat /\ b \in Nat
    <3>1. r.amountA * r0 \in Nat /\ r.amountB * r1 \in Nat
      BY <1>1, <2>1, SMT
    <3> QED BY <2>1, <3>1, DivBounds DEF Quote
  <2>4. b > r.amountB => a <= r.amountA
    BY <1>1, <2>1, OptimalAmountNeverExceedsDesired
  <2> HIDE DEF a, b
  <2>5. CASE b <= r.amountB
    BY <1>1, <2>2, <2>3, <2>5
  <2>6. CASE b > r.amountB
    <3>1. Supplied(r) = [a |-> a, b |-> r.amountB]
      BY <1>1, <2>2, <2>3, <2>6
    <3> QED BY <1>1, <2>3, <2>4, <2>6, <3>1
  <2> QED BY <1>1, <2>3, <2>5, <2>6
<1> QED BY <1>2, <1>3 DEF PoolInv

LEMMA NewSharesType ==
  ASSUME PoolInv, NEW s, s.a \in Nat, s.b \in Nat
  PROVE  /\ NewShares(s) \in Nat
         /\ pool = NoPool /\ NewShares(s) > 0 => s.a > 0 /\ s.b > 0
<1>1. MINIMUM_LIQUIDITY \in Nat \ {0}
  BY LiquidityFormAssumption
<1>2. CASE pool = NoPool
  <2> DEFINE y == s.a * s.b
             root == Sqrt(y)
  <2>1. y \in Nat
    BY SMT
  <2>2. root \in Nat /\ root <= y
    <3> HIDE DEF y
    <3> QED BY <2>1, SqrtType
  <2>3. NewShares(s) = IF root > MINIMUM_LIQUIDITY THEN root - MINIMUM_LIQUIDITY ELSE 0
    BY <1>2 DEF NewShares
  <2> HIDE DEF root
  <2>4. NewShares(s) \in Nat /\ (NewShares(s) > 0 => y > 0)
    <3> HIDE DEF y
    <3> QED BY <1>1, <2>1, <2>2, <2>3
  <2>5. y > 0 => s.a > 0 /\ s.b > 0
    BY SMT
  <2> QED BY <2>4, <2>5
<1>3. CASE pool \in Pool
  <2>1. /\ pool.reserve0 \in Nat /\ pool.reserve0 > 0 /\ pool.reserve1 \in Nat /\ pool.reserve1 > 0
        /\ pool.totalSupply \in Nat /\ pool # NoPool
    BY <1>3, LiquidityFormAssumption DEF Pool
  <2>2. s.a * pool.totalSupply \in Nat /\ s.b * pool.totalSupply \in Nat
    BY <2>1, SMT
  <2>3. /\ (s.a * pool.totalSupply) \div pool.reserve1 \in Nat
        /\ (s.b * pool.totalSupply) \div pool.reserve0 \in Nat
    BY <2>1, <2>2, DivBounds
  <2> QED BY <2>1, <2>3 DEF NewShares, Min
<1> QED BY <1>2, <1>3 DEF PoolInv

(* A pool that grew, and one that shrank.                                  *)
LEMMA PoolWithType ==
  ASSUME NEW a \in Nat \ {0}, NEW b \in Nat \ {0}, NEW t \in Nat \ {0}
  PROVE  PoolWith(a, b, t) \in Pool /\ PoolWith(a, b, t).totalSupply = t
BY DEF PoolWith, Pool

LEMMA FailsIsSound ==
  ASSUME IInv, Sound, PoolInv, NEW i \in DOMAIN requests, Fails(i), signing' = signing
  PROVE  RequestsSound' /\ SigningSound' /\ Grown(0) /\ PoolInv'
<1> DEFINE q == [requests[i] EXCEPT !.status = "reverted"]
<1>1. requests' = [requests EXCEPT ![i] = q]
  BY DEF Fails
<1>2. SameRequests
  BY IsOver DEF IInv, Fails
<1>3. Carries(q, requests[i]) /\ MinedWithin(q)
  <2>1. Marks \subseteq DOMAIN requests[i]
    BY DEF Sound, RequestsSound
  <2>2. q.status = "reverted"
    BY <2>1 DEF Marks
  <2> QED BY <2>1, <2>2 DEF Carries, Marks, MinedWithin
<1> HIDE DEF q
<1>4. PoolInv'
  BY DEF Fails, PoolInv
<1> QED BY <1>1, <1>2, <1>3, <1>4, MovingIsSound

LEMMA MineAddIsSound ==
  ASSUME IInv, Sound, PoolInv, PlacesInv, MineAdd
  PROVE  RequestsSound' /\ SigningSound' /\ Grown(0) /\ PoolInv'
<1> DEFINE i == Head(queue)
           r == requests[i]
           s == Supplied(r)
           q == [r EXCEPT !.status = "mined", !.gotA = s.a, !.gotB = s.b]
           n == NewShares(s)
<1>1. i \in DOMAIN requests /\ r.kind = "add" /\ signing' = signing
  BY HeadOfQueue DEF MineAdd
<1>2. DepositSound(r) /\ Marks \subseteq DOMAIN r
  BY <1>1 DEF Sound, RequestsSound, AskedSoundly, RemovalSound, ApprovalSound
<1>3. s.a \in 0 .. r.amountA /\ s.b \in 0 .. r.amountB /\ r.amountA \in Nat /\ r.amountB \in Nat
  <2> HIDE DEF r
  <2> QED BY <1>2, SuppliedWithin DEF DepositSound
<1>4. CASE Fails(i)
  <2> HIDE DEF i
  <2> QED BY <1>1, <1>4, FailsIsSound
<1>5. CASE ~Fails(i)
  <2>1. /\ AddAccepted(r, s)
        /\ pool' = IF pool = NoPool THEN PoolWith(s.a, s.b, n + MINIMUM_LIQUIDITY)
                   ELSE PoolWith(pool.reserve1 + s.a, pool.reserve0 + s.b, pool.totalSupply + n)
        /\ lp' = lp + n /\ allowance' = Spent(s) /\ nonce' = nonce
        /\ requests' = [requests EXCEPT ![i].status = "mined", ![i].gotA = s.a, ![i].gotB = s.b]
    BY <1>5 DEF MineAdd
  <2> HIDE DEF s
  <2>2. requests' = [requests EXCEPT ![i] = q]
    BY <2>1
  <2>3. SameRequests
    <3> HIDE DEF i
    <3> QED BY <2>1, IsOver DEF IInv
  <2>4. Carries(q, r)
    BY DEF Carries, Marks
  <2>5. MinedWithin(q)
    <3>1. q.status = "mined" /\ q.gotA = s.a /\ q.gotB = s.b
      BY <1>2 DEF Marks
    <3>2. q.kind = "add" /\ q.amountA = r.amountA /\ q.amountB = r.amountB /\ q.pool = r.pool
          /\ q.minA = r.minA /\ q.minB = r.minB
      BY <1>2 DEF DepositSound
    <3>3. ASSUME r.pool # NoPool
          PROVE  s.a >= r.minA /\ s.b >= r.minB /\ r.minA \in Nat /\ r.minB \in Nat
      <4>1. /\ r.minA = WithSlippage(r.amountA) /\ r.minB = WithSlippage(r.amountB)
        BY <1>2, <3>3 DEF DepositSound
      <4>2. /\ r.minA \in Nat /\ r.minA <= r.amountA
            /\ r.minB \in Nat /\ r.minB <= r.amountB
        BY <1>3, <4>1, WithSlippageType
      <4>3. CASE pool = NoPool
        <5>1. s.a = r.amountA /\ s.b = r.amountB
          BY <4>3 DEF Supplied, s
        <5> QED BY <1>3, <4>2, <5>1
      <4>4. CASE pool # NoPool
        BY <2>1, <4>2, <4>4 DEF AddAccepted
      <4> QED BY <4>3, <4>4
    <3> HIDE DEF q, r
    <3> QED BY <1>3, <3>1, <3>2, <3>3 DEF MinedWithin
  <2>6. RequestsSound' /\ SigningSound' /\ Grown(0)
    <3> HIDE DEF i, q
    <3> QED BY <1>1, <2>2, <2>3, <2>4, <2>5, MovingIsSound
  <2>7. n \in Nat /\ n > 0 /\ (pool = NoPool => s.a > 0 /\ s.b > 0)
    <3> HIDE DEF r
    <3> QED BY <1>3, <2>1, NewSharesType DEF AddAccepted
  <2>8. allowance' \in [Asset -> Nat]
    <3>1. Funded("a", s.a) /\ Funded("b", s.b) /\ allowance \in [Asset -> Nat]
      BY <2>1 DEF AddAccepted, PoolInv
    <3>2. s.a \in Nat /\ s.b \in Nat
      BY <1>3
    <3> HIDE DEF s, r
    <3>3. ASSUME NEW x \in Asset
          PROVE  (IF x = native \/ x = "lp" THEN allowance[x]
                  ELSE allowance[x] - (IF x = "a" THEN s.a ELSE s.b)) \in Nat
      BY <3>1, <3>2, <3>3 DEF Funded, Asset, Side
    <3> QED BY <2>1, <3>3 DEF Spent
  <2>9. lp' \in Nat /\ pool' \in Pool /\ pool'.totalSupply >= lp' + MINIMUM_LIQUIDITY
    <3>1. MINIMUM_LIQUIDITY \in Nat \ {0} /\ lp \in Nat /\ s.a \in Nat /\ s.b \in Nat
      BY <1>3, LiquidityFormAssumption DEF PoolInv
    <3> HIDE DEF n, r
    <3>2. CASE pool = NoPool
      <4>1. lp = 0
        BY <3>2, LiquidityFormAssumption DEF PoolInv
      <4>2. pool' \in Pool /\ pool'.totalSupply = n + MINIMUM_LIQUIDITY
        BY <2>1, <2>7, <3>1, <3>2, PoolWithType
      <4> QED BY <2>1, <2>7, <3>1, <4>1, <4>2
    <3>3. CASE pool \in Pool
      <4>1. /\ pool.reserve0 \in Nat \ {0} /\ pool.reserve1 \in Nat \ {0}
            /\ pool.totalSupply \in Nat \ {0} /\ pool # NoPool
            /\ pool.totalSupply >= lp + MINIMUM_LIQUIDITY
        BY <3>3, LiquidityFormAssumption DEF Pool, PoolInv
      <4>2. /\ pool.reserve1 + s.a \in Nat \ {0} /\ pool.reserve0 + s.b \in Nat \ {0}
            /\ pool.totalSupply + n \in Nat \ {0}
        BY <2>7, <3>1, <4>1
      <4>3. pool' \in Pool /\ pool'.totalSupply = pool.totalSupply + n
        BY <2>1, <4>1, <4>2, PoolWithType
      <4> QED BY <2>1, <2>7, <3>1, <4>1, <4>3
    <3> QED BY <3>2, <3>3 DEF PoolInv
  <2>10. PoolInv'
    <3>1. nonce' \in Nat
      BY <2>1 DEF PoolInv
    <3> QED BY <2>8, <2>9, <3>1 DEF PoolInv
  <2> QED BY <2>6, <2>10
<1> QED BY <1>4, <1>5

LEMMA MineRemoveIsSound ==
  ASSUME IInv, Sound, PoolInv, PlacesInv, MineRemove
  PROVE  RequestsSound' /\ SigningSound' /\ Grown(0) /\ PoolInv'
<1> DEFINE i == Head(queue)
           r == requests[i]
           liq == r.liquidity
           a == (liq * pool.reserve1) \div pool.totalSupply
           b == (liq * pool.reserve0) \div pool.totalSupply
           q == [r EXCEPT !.status = "mined", !.gotA = a, !.gotB = b]
<1>1. i \in DOMAIN requests /\ r.kind = "remove" /\ signing' = signing
  BY HeadOfQueue DEF MineRemove
<1>2. RemovalSound(r) /\ Marks \subseteq DOMAIN r
  BY <1>1 DEF Sound, RequestsSound, AskedSoundly, DepositSound, ApprovalSound
<1>3. CASE Fails(i)
  <2> HIDE DEF i
  <2> QED BY <1>1, <1>3, FailsIsSound
<1>4. CASE ~Fails(i)
  <2>1. /\ RemoveAccepted(r, a, b)
        /\ pool' = PoolWith(pool.reserve1 - a, pool.reserve0 - b, pool.totalSupply - liq)
        /\ lp' = lp - liq
        /\ nonce' = IF r.signed # Unread THEN nonce + 1 ELSE nonce
        /\ allowance' = [allowance EXCEPT !["lp"] = IF r.signed # Unread THEN 0 ELSE @ - liq]
        /\ requests' = [requests EXCEPT ![i].status = "mined", ![i].gotA = a, ![i].gotB = b]
    BY <1>4 DEF MineRemove
  <2>2. requests' = [requests EXCEPT ![i] = q]
    BY <2>1
  <2>3. SameRequests
    <3> HIDE DEF i, a, b
    <3> QED BY <2>1, IsOver DEF IInv
  <2>4. Carries(q, r)
    BY DEF Carries, Marks
  <2>5. MinedWithin(q)
    <3>1. q.status = "mined" /\ q.gotA = a /\ q.gotB = b
      BY <1>2 DEF Marks
    <3>2. q.kind = "remove" /\ q.minA = r.minA /\ q.minB = r.minB
      BY <1>2 DEF RemovalSound
    <3>3. a >= r.minA /\ b >= r.minB
      BY <2>1 DEF RemoveAccepted
    <3> HIDE DEF q, r, a, b
    <3> QED BY <3>1, <3>2, <3>3 DEF MinedWithin
  <2>6. RequestsSound' /\ SigningSound' /\ Grown(0)
    <3> HIDE DEF i, q
    <3> QED BY <1>1, <2>2, <2>3, <2>4, <2>5, MovingIsSound
  <2>7. /\ liq \in Nat \ {0} /\ liq <= lp /\ lp \in Nat /\ MINIMUM_LIQUIDITY \in Nat \ {0}
    BY <1>2, <2>1, LiquidityFormAssumption DEF RemovalSound, RemoveAccepted, PoolInv
  <2>8. pool \in Pool /\ pool.totalSupply >= lp + MINIMUM_LIQUIDITY
    <3> HIDE DEF liq
    <3> QED BY <2>7 DEF PoolInv
  <2>9. /\ pool.reserve0 \in Nat \ {0} /\ pool.reserve1 \in Nat \ {0}
        /\ pool.totalSupply \in Nat \ {0} /\ liq < pool.totalSupply
    <3>1. /\ pool.reserve0 \in Nat \ {0} /\ pool.reserve1 \in Nat \ {0}
          /\ pool.totalSupply \in Nat \ {0}
      BY <2>8 DEF Pool
    <3> HIDE DEF liq
    <3> QED BY <2>7, <2>8, <3>1
  <2>10. ASSUME NEW x \in Nat \ {0}
         PROVE  (liq * x) \div pool.totalSupply \in Nat /\ x - ((liq * x) \div pool.totalSupply) \in Nat \ {0}
    <3> DEFINE t == pool.totalSupply
               y == (liq * x) \div t
    <3>1. t \in Nat /\ t > 0 /\ liq <= t /\ liq \in Nat /\ t - liq >= 1
      BY <2>7, <2>9
    <3> HIDE DEF t, liq
    <3>2. y \in Nat /\ x * (t - liq) <= (x - y) * t
      BY <3>1, LeftInProportion
    <3>3. x * (t - liq) >= 1
      BY <3>1, MulMonotone, SMT
    <3> HIDE DEF y
    <3>4. x - y > 0
      <4>1. (x - y) * t >= 1
        BY <3>1, <3>2, <3>3, SMT
      <4>2. ASSUME x - y <= 0 PROVE FALSE
        <5>1. (y - x) * t >= 0
          BY <3>1, <3>2, <4>2, SMT
        <5> QED BY <3>1, <3>2, <4>1, <5>1, SMT
      <4> QED BY <3>2, <4>2
    <3> QED BY <3>2, <3>4 DEF y, t
  <2>11. lp' \in Nat /\ pool' \in Pool /\ pool'.totalSupply >= lp' + MINIMUM_LIQUIDITY
    <3>1. pool.reserve1 - a \in Nat \ {0} /\ pool.reserve0 - b \in Nat \ {0}
      BY <2>9, <2>10
    <3> HIDE DEF liq, a, b
    <3>2. pool.totalSupply - liq \in Nat \ {0}
      BY <2>7, <2>9
    <3>3. pool' \in Pool /\ pool'.totalSupply = pool.totalSupply - liq
      BY <2>1, <3>1, <3>2, PoolWithType
    <3> QED BY <2>1, <2>7, <2>8, <2>9, <3>3
  <2>12. allowance' \in [Asset -> Nat]
    <3>1. allowance \in [Asset -> Nat] /\ "lp" \in Asset
      BY DEF PoolInv, Asset
    <3>2. r.signed = Unread => allowance["lp"] >= liq
      BY <2>1 DEF RemoveAccepted
    <3> HIDE DEF liq, r, a, b
    <3>3. (IF r.signed # Unread THEN 0 ELSE allowance["lp"] - liq) \in Nat
      BY <2>7, <3>1, <3>2
    <3> QED BY <2>1, <3>1, <3>3
  <2>13. nonce' \in Nat
    BY <2>1 DEF PoolInv
  <2> QED BY <2>6, <2>11, <2>12, <2>13 DEF PoolInv
<1> QED BY <1>3, <1>4

LEMMA MineApprovalIsSound ==
  ASSUME IInv, Sound, PoolInv, PlacesInv, MineApproval
  PROVE  RequestsSound' /\ SigningSound' /\ Grown(0) /\ PoolInv'
<1> DEFINE i == Head(queue)
           r == requests[i]
           q == [r EXCEPT !.status = "mined"]
<1>1. i \in DOMAIN requests /\ r.kind = "approve" /\ signing' = signing
  BY HeadOfQueue DEF MineApproval
<1>2. ApprovalSound(r) /\ Marks \subseteq DOMAIN r
  BY <1>1 DEF Sound, RequestsSound, AskedSoundly, DepositSound, RemovalSound
<1>3. /\ requests' = [requests EXCEPT ![i] = q]
      /\ requests' = [requests EXCEPT ![i].status = "mined"]
  BY DEF MineApproval
<1>4. SameRequests
  <2> HIDE DEF i
  <2> QED BY <1>3, IsOver DEF IInv
<1>5. Carries(q, r) /\ MinedWithin(q)
  <2>1. q.kind = "approve"
    BY <1>2 DEF ApprovalSound
  <2> HIDE DEF r
  <2> QED BY <2>1 DEF Carries, Marks, MinedWithin
<1>6. RequestsSound' /\ SigningSound' /\ Grown(0)
  <2> HIDE DEF i, q
  <2> QED BY <1>1, <1>3, <1>4, <1>5, MovingIsSound
<1>7. PoolInv'
  <2>1. allowance' = [allowance EXCEPT ![r.asset] = r.amount] /\ pool' = pool /\ lp' = lp /\ nonce' = nonce
    BY DEF MineApproval
  <2>2. r.amount \in Nat
    BY <1>2 DEF ApprovalSound
  <2> HIDE DEF r
  <2> QED BY <2>1, <2>2 DEF PoolInv
<1> QED BY <1>6, <1>7

LEMMA OthersActKeepsPool ==
  ASSUME PoolInv, NEW amount \in TradeAmounts, OthersAct(amount)
  PROVE  PoolInv'
<1>1. lp' = lp /\ nonce' = nonce /\ allowance' = allowance
  BY DEF OthersAct
<1>2. CASE pool = NoPool
  <2>1. pool' = Created /\ lp = 0
    BY <1>2, LiquidityFormAssumption DEF OthersAct, PoolInv
  <2>2. Created \in Pool /\ Created.totalSupply >= MINIMUM_LIQUIDITY /\ MINIMUM_LIQUIDITY \in Nat
    BY LiquidityFormAssumption
  <2>3. pool'.totalSupply >= lp' + MINIMUM_LIQUIDITY
    BY <1>1, <2>1, <2>2
  <2> QED BY <1>1, <2>1, <2>2, <2>3 DEF PoolInv
<1>3. CASE pool \in Pool
  <2> DEFINE out == GetAmountOut(amount, pool.reserve1, pool.reserve0)
  <2>1. /\ pool.reserve0 \in Nat \ {0} /\ pool.reserve1 \in Nat \ {0}
        /\ pool.totalSupply \in Nat \ {0} /\ pool # NoPool /\ amount \in Nat \ {0}
    BY <1>3, LiquidityFormAssumption DEF Pool
  <2>2. out \in 0 .. pool.reserve0 - 1
    BY <2>1, AmountOutBelowReserve
  <2>3. pool' = PoolWith(pool.reserve1 + amount, pool.reserve0 - out, pool.totalSupply)
    BY <2>1 DEF OthersAct
  <2> HIDE DEF out
  <2>4. pool.reserve1 + amount \in Nat \ {0} /\ pool.reserve0 - out \in Nat \ {0}
    BY <2>1, <2>2
  <2>5. pool' \in Pool /\ pool'.totalSupply = pool.totalSupply
    BY <2>1, <2>3, <2>4, PoolWithType
  <2> QED BY <1>1, <1>3, <2>1, <2>5 DEF PoolInv
<1> QED BY <1>2, <1>3 DEF PoolInv

-----------------------------------------------------------------------------
LEMMA NextLimits == IInv /\ LimitsInv /\ [Next]_vars => LimitsInv'
<1> SUFFICES ASSUME IInv, LimitsInv, [Next]_vars PROVE LimitsInv'
  OBVIOUS
<1>1. Sound /\ PoolInv /\ FormInv /\ SeenInv /\ PlacesInv
  BY DEF LimitsInv, Sound, IInv, RequestsInv
<1>2. FormInv' /\ SeenInv'
  BY <1>1, FormKept, SeenKept
<1>3. RequestsSound' /\ SigningSound' /\ (Grown(0) \/ Grown(1)) /\ PoolInv'
  <2>1. ASSUME UNCHANGED chain PROVE PoolInv'
    BY <1>1, <2>1 DEF chain, PoolInv
  <2>2. CASE User
    <3>1. UNCHANGED chain
      BY <2>2 DEF User, TypeAmount, MoveSlider, SetMode, TrySignatureAgain, Approve, AddLiquidity, Sign,
                  Remove, WalletSigns, WalletRefusesSignature, WalletConfirms, WalletRefuses
    <3> QED BY <1>1, <2>1, <2>2, <3>1, UserIsSound
  <2>3. CASE \E amount \in TradeAmounts : OthersAct(amount)
    <3>1. UNCHANGED requests /\ UNCHANGED signing
      BY <2>3 DEF OthersAct, walletApp
    <3> QED BY <1>1, <2>3, <3>1, QuietIsSound, OthersActKeepsPool
  <2>4. CASE Environment
    BY <1>1, <2>3, <2>4, MineAddIsSound, MineRemoveIsSound, MineApprovalIsSound DEF Environment
  <2>5. CASE Page
    <3>1. UNCHANGED chain
      BY <2>5 DEF Page, ReadPool, ReadPoolFails, ReadPosition, ReadNonce, ReadAllowance, NoticeCall,
                  NoticeApproval
    <3> QED BY <1>1, <2>1, <2>5, <3>1, PageIsSound
  <2>6. CASE UNCHANGED vars
    BY <1>1, <2>1, <2>6, QuietIsSound DEF vars, walletApp
  <2> QED BY <2>2, <2>4, <2>5, <2>6 DEF Next
<1>4. PlacesInv'
  <2> DEFINE n == Len(requests)
  <2>1. n \in Nat /\ DOMAIN requests = 1 .. n
    BY RequestsLength DEF IInv, RequestsInv
  <2>2. Len(requests') \in Nat /\ Len(requests') >= n
    <3> HIDE DEF n
    <3> QED BY <1>3, <2>1 DEF Grown, n
  <2> HIDE DEF n
  <2>3. \/ queue' = queue
        \/ queue # <<>> /\ queue' = Tail(queue)
        \/ \E i \in 1 .. n : queue' = Append(queue, i)
    BY <2>1 DEF Next, User, TypeAmount, MoveSlider, SetMode, TrySignatureAgain, Approve, AddLiquidity,
                Sign, Remove, WalletSigns, WalletRefusesSignature, WalletConfirms, WalletRefuses,
                Environment, MineAdd, MineRemove, MineApproval, OthersAct,
                Page, ReadPool, ReadPoolFails, ReadPosition, ReadNonce, ReadAllowance, NoticeCall,
                NoticeApproval, vars, walletApp
  <2>4. call' = call \/ call' \in 0 .. Len(requests')
    <3>1. call' = call \/ call' = 0 \/ call' = Len(requests')
      BY DEF Next, User, TypeAmount, MoveSlider, SetMode, TrySignatureAgain, Approve, AddLiquidity,
             Sign, Remove, WalletSigns, WalletRefusesSignature, WalletConfirms, WalletRefuses,
             Environment, MineAdd, MineRemove, MineApproval, OthersAct,
             Page, ReadPool, ReadPoolFails, ReadPosition, ReadNonce, ReadAllowance, NoticeCall,
             NoticeApproval, vars
    <3> QED BY <2>2, <3>1
  <2>5. \/ approval' = approval
        \/ \E x \in Asset : approval' = [approval EXCEPT ![x] = Len(requests')]
    BY DEF Next, User, TypeAmount, MoveSlider, SetMode, TrySignatureAgain, Approve, AddLiquidity,
           Sign, Remove, WalletSigns, WalletRefusesSignature, WalletConfirms, WalletRefuses,
           Environment, MineAdd, MineRemove, MineApproval, OthersAct,
           Page, ReadPool, ReadPoolFails, ReadPosition, ReadNonce, ReadAllowance, NoticeCall,
           NoticeApproval, vars
  <2> QED BY <1>1, <2>1, <2>2, <2>3, <2>4, <2>5, PlacesStay DEF n
<1> QED BY <1>2, <1>3, <1>4 DEF LimitsInv

LEMMA LimitsInvariance == Spec => [](IInv /\ LimitsInv)
BY InitIInv, NextIInv, InitLimits, NextLimits, PTL DEF Spec

LEMMA LimitsAreKept == IInv /\ LimitsInv => LimitsAreThoseShown
<1> SUFFICES ASSUME IInv, LimitsInv PROVE LimitsAreThoseShown
  OBVIOUS
<1>1. RequestsSound /\ PoolInv /\ FormInv /\ PlacesInv
  BY DEF LimitsInv
<1>2. TypeOK
  <2>1. lp \in Nat /\ nonce \in Nat /\ \A x \in Asset : allowance[x] \in Nat
    BY <1>1 DEF PoolInv
  <2>2. pool # NoPool => pool.totalSupply >= lp /\ pool.reserve0 > 0 /\ pool.reserve1 > 0
    BY <1>1, LiquidityFormAssumption DEF PoolInv, Pool
  <2>3. ASSUME NEW i \in DOMAIN requests
        PROVE  CASE requests[i].kind = "add" -> requests[i].amountA > 0 /\ requests[i].amountB \in Nat
                 [] requests[i].kind = "remove" -> requests[i].liquidity > 0
                 [] OTHER -> requests[i].amount > 0
    <3>1. AskedSoundly(requests[i])
      BY <1>1 DEF RequestsSound
    <3> QED BY <3>1 DEF AskedSoundly, RemovalSound, DepositSound, ApprovalSound
  <2>4. call \in 0 .. Len(requests) /\ \A x \in Asset : approval[x] \in 0 .. Len(requests)
    BY <1>1 DEF PlacesInv
  <2>5. mode \in {"add", "remove"} /\ input \in Amounts /\ permitFallback \in BOOLEAN
    BY <1>1 DEF FormInv
  <2> HIDE DEF Asset
  <2> QED BY <2>1, <2>2, <2>3, <2>4, <2>5, Zenon DEF TypeOK
<1>3. RemovalKeepsItsMinimum
  BY <1>1 DEF RemovalKeepsItsMinimum, RequestsSound, MinedWithin, AskedSoundly, RemovalSound,
              DepositSound, ApprovalSound
<1>4. DepositKeepsTheShownRatio
  BY <1>1 DEF DepositKeepsTheShownRatio, RequestsSound, MinedWithin, AskedSoundly, RemovalSound,
              DepositSound, ApprovalSound
<1> QED BY <1>2, <1>3, <1>4 DEF LimitsAreThoseShown

(* Whatever is typed, moved, read again or traded by others while the      *)
(* wallet is open: a removal that is mined pays no less than the tolerated *)
(* share of what the page showed for its liquidity, a deposit is taken     *)
(* within the tolerance of the amounts shown, and the LP tokens that the   *)
(* card spends are there.                                                  *)
THEOREM LimitsKept == Spec => []LimitsAreThoseShown
BY LimitsInvariance, LimitsAreKept, PTL
=============================================================================
