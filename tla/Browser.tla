------------------------------ MODULE Browser -------------------------------
(***************************************************************************)
(* The web application in the tabs of one browser: what it keeps in the    *)
(* storage they share (the activity list, imported tokens, settings), the  *)
(* tokens its forms hold and the links that carry them, and the lists of   *)
(* pools it makes of reads answered one by one while pairs are created and *)
(* traded in.                                                              *)
(*                                                                         *)
(* page has, in the storage,                                               *)
(*   entries, record      the imported tokens and the settings,            *)
(* for each tab,                                                           *)
(*   imports, settings    its copies of them,                              *)
(*   swap, pool           the two tokens of each form,                     *)
(*   cache                the last answer of each query, with its key,     *)
(*   feed                 the recent trades,                               *)
(* and on the chain                                                        *)
(*   created, trades      how many of Pairs exist, and the pair of each    *)
(*                        trade so far.                                    *)
(***************************************************************************)
EXTENDS Activity, PoolList, TradeFeed

CONSTANTS
  Pairs,               \* the pairs in the order they are created: [token0, token1, history],
                       \* with the reserves, supply and shares after each trade
  Contracts,           \* of each token's address, the symbol and decimals it answers
  Slippages, Deadlines,\* what is typed into the settings
  Corrupt,             \* a record that does not parse
  FEED_LIMIT,          \* 8: the trades shown
  Openings             \* the initial states, and the bounds of what happens in them

ASSUME FeedLimitAssumption == FEED_LIMIT \in 1 .. PAGE_LIMIT_MAX

Settings == [slippageBps : Int, deadlineMinutes : Int]

ASSUME SettingsAssumption ==
  /\ Slippages \subseteq Int /\ Deadlines \subseteq Int
  /\ NoData \notin Settings /\ Corrupt \notin Settings

(* The manifest gives the decimals that the contracts answer.              *)
ASSUME ContractsAssumption ==
  /\ DOMAIN Contracts \subseteq Nat \ {Native}
  /\ \A a \in DOMAIN Contracts : Contracts[a].symbol \in Symbol /\ Contracts[a].decimals \in Nat
  /\ \A token \in {WKASH} \cup Seqs!ToSet(Deployed) :
       token.address \in DOMAIN Contracts /\ token.decimals = Contracts[token.address].decimals

(* A factory makes no pair of a token and itself.                          *)
ASSUME PairsAssumption ==
  /\ Pairs \in Seq([token0 : DOMAIN Contracts, token1 : DOMAIN Contracts,
                    history : Seq([reserves : Nat \X Nat, supply : Nat, shares : [Account -> Nat]])])
  /\ \A i \in DOMAIN Pairs : Pairs[i].token0 # Pairs[i].token1 /\ Pairs[i].history # <<>>

(* What a contract answers about itself; one without decimals is no token, *)
(* and not among Contracts.                                                *)
Metadata(address) ==
  TokenWith(address, Contracts[address].symbol, Contracts[address].decimals, FALSE, TRUE)

(* Each token imported once, with what its contract answered.              *)
AsImported(list) ==
  /\ list \in Seq({Metadata(address) : address \in DOMAIN Contracts})
  /\ \A i \in DOMAIN list, j \in DOMAIN list : list[i].address = list[j].address => i = j

(* What the storage holds when the browser is opened was written by this   *)
(* application or another version of it: entries may have become listed, or*)
(* have more decimals than are accepted now, and so may the settings.      *)
ASSUME OpeningsAssumption ==
  \A o \in Openings :
    /\ o.account \in Account
    /\ "ends" \in DOMAIN o.bounds /\ o.bounds["ends"] \subseteq Ended
    /\ AsImported(o.entries)
    /\ o.record \in {NoData, Corrupt} \cup Settings
    /\ o.created \in 0 .. Len(Pairs)

vars == <<activityVars, page>>

Stays == UNCHANGED activityVars
StaysBut(bound) ==
  /\ Uses(bound)
  /\ UNCHANGED <<wallet, stored, broken, mounting, open, account, all, watching, observers>>

-----------------------------------------------------------------------------
(* Settings.                                                               *)

DEFAULT_SETTINGS == [slippageBps |-> 50, deadlineMinutes |-> 20]

SlippageAccepted(bps) == bps > 0 /\ bps <= 5000
DeadlineAccepted(minutes) == minutes > 0 /\ minutes <= 180

HydratedSettings(record) ==
  IF record \in {NoData, Corrupt} THEN DEFAULT_SETTINGS
  ELSE [slippageBps |-> IF SlippageAccepted(record.slippageBps) THEN record.slippageBps
                        ELSE DEFAULT_SETTINGS.slippageBps,
        deadlineMinutes |-> IF DeadlineAccepted(record.deadlineMinutes) THEN record.deadlineMinutes
                            ELSE DEFAULT_SETTINGS.deadlineMinutes]

Kept(old, new) == IF broken THEN old ELSE new

WithSettings(t, s) ==
  page' = [page EXCEPT !.settings[t] = s, !.record = Kept(@, s)]

SetSlippage(t, bps) ==
  /\ open[t] /\ SlippageAccepted(bps) /\ StaysBut("settings")
  /\ WithSettings(t, [page.settings[t] EXCEPT !.slippageBps = bps])

SetDeadline(t, minutes) ==
  /\ open[t] /\ DeadlineAccepted(minutes) /\ StaysBut("settings")
  /\ WithSettings(t, [page.settings[t] EXCEPT !.deadlineMinutes = minutes])

ResetSettings(t) ==
  /\ open[t] /\ StaysBut("settings")
  /\ WithSettings(t, DEFAULT_SETTINGS)

-----------------------------------------------------------------------------
(* Queries.  A query keeps its last answer for its key; under a new key it *)
(* has no data until it is answered.                                       *)

(* Which parts of the pages a tab shows: only their queries are asked.     *)
Shows(what) == what \in left["shows"]

Nothing == [key |-> NoData, data |-> NoData]
(* Variant: the old answer shown until the new one is there.               *)
LatestOrOld(query, key) == query.data

Latest(query, key) == IF query.key = key THEN query.data ELSE NoData

EmptyCache ==
  [count |-> 0, addresses |-> Nothing, details |-> Nothing, meta |-> Nothing,
   balances |-> Nothing, figures |-> Nothing]

TokensOf(t) == Tokens(page.imports[t])
KnownPairs(t) == PairAddresses(Latest(page.cache[t].addresses, page.cache[t].count))
Details(t) == Latest(page.cache[t].details, KnownPairs(t))
UnknownTokens(t) == Unknown(TokensOf(t), KnownPairs(t), Details(t))
Pools(t) ==
  LET unknown == UnknownTokens(t)
  IN  Rows(TokensOf(t), unknown, Latest(page.cache[t].meta, unknown), KnownPairs(t), Details(t))

BalancesKey(t, rows) == <<account[t], [i \in DOMAIN rows |-> rows[i].pair]>>
PositionsOf(t) ==
  LET rows == Pools(t)
  IN  Positions(rows, Latest(page.cache[t].balances, BalancesKey(t, rows)))
SummariesOf(t) == Summaries(KnownPairs(t), Latest(page.cache[t].figures, KnownPairs(t)))

-----------------------------------------------------------------------------
(* Tabs.                                                                   *)

Defaults == <<KASH, MUSDC>>

HydratedImports(entries) == Clean(entries)

(* A tab reads the storage in the effects of its first render, and writes  *)
(* back what it took in those of the second.  The link it was opened with  *)
(* is resolved in the one or in the other.                                 *)
MountTab(t) ==
  /\ Mount(t)
  /\ page' = [page EXCEPT
       !.imports[t] = HydratedImports(page.entries), !.entries = FirstWrite(@, <<>>),
       !.settings[t] = HydratedSettings(page.record), !.record = FirstWrite(@, DEFAULT_SETTINGS)]

OpenTab(t) ==
  /\ Open(t)
  /\ \E link \in left["links"], list \in {TOKEN_LIST, TokensOf(t)} :
       page' = [page EXCEPT
         !.entries = Kept(@, page.imports[t]), !.record = Kept(@, page.settings[t]),
         !.swap[t] = SwapFromLink(list, Defaults, link),
         !.pool[t] = PoolFromLink(list, Defaults, link)]

CloseTab(t) ==
  /\ Close(t)
  /\ page' = [page EXCEPT
       !.imports[t] = <<>>, !.settings[t] = DEFAULT_SETTINGS,
       !.swap[t] = Defaults, !.pool[t] = Defaults,
       !.cache[t] = EmptyCache, !.feed[t] = NoData]

-----------------------------------------------------------------------------
(* Choosing tokens, on either side of either form.                         *)

Side == {1, 2}
Form == {"swap", "pool"}
OtherSide(side) == 3 - side

WithToken(form, t, side, token) ==
  IF form = "swap" THEN [page EXCEPT !.swap[t][side] = token]
                   ELSE [page EXCEPT !.pool[t][side] = token]

PickToken(t, form, side) ==
  /\ open[t] /\ StaysBut("picks")
  /\ \E token \in Offered(TokensOf(t), page[form][t][OtherSide(side)]) :
       page' = WithToken(form, t, side, token)

(* An address is pasted, its contract answers, and the token is imported   *)
(* and chosen.                                                             *)
ImportToken(t, form, side) ==
  /\ open[t] /\ StaysBut("imports")
  /\ \E address \in DOMAIN Contracts :
       /\ Importable(TokensOf(t), address)
       /\ LET token == Metadata(address)
              imports == Imported(page.imports[t], token)
          IN  page' = [WithToken(form, t, side, token) EXCEPT
                         !.imports[t] = imports, !.entries = Kept(@, imports)]

RemoveToken(t) ==
  /\ open[t] /\ StaysBut("removals")
  /\ \E token \in Seqs!ToSet(page.imports[t]) :
       LET imports == Removed(page.imports[t], token.address)
       IN  page' = [page EXCEPT !.imports[t] = imports, !.entries = Kept(@, imports)]

FollowRow(t) ==
  /\ open[t] /\ Shows("pools") /\ StaysBut("picks")
  /\ \E row \in Seqs!ToSet(Pools(t)) :
       LET link == <<LinkParam(row.token0), LinkParam(row.token1)>>
       IN  \/ page' = [page EXCEPT !.swap[t] = SwapFromLink(TokensOf(t), @, link)]
           \/ page' = [page EXCEPT !.pool[t] = PoolFromLink(TokensOf(t), @, link)]

ManagePosition(t) ==
  /\ open[t] /\ Shows("pools") /\ StaysBut("picks")
  /\ \E position \in PositionsOf(t) :
       page' = [page EXCEPT !.pool[t] = <<AsToken(TokensOf(t), position.token0),
                                          AsToken(TokensOf(t), position.token1)>>]

-----------------------------------------------------------------------------
(* The chain.                                                              *)

TradesIn(trades, i) == Cardinality({k \in DOMAIN trades : trades[k] = i})
StateAfter(trades, i) == Pairs[i].history[1 + TradesIn(trades, i)]
StateOf(i) == StateAfter(page.trades, i)
Tradable(i) == i <= page.created /\ TradesIn(page.trades, i) + 1 < Len(Pairs[i].history)

CreatePair ==
  /\ page.created < Len(Pairs)
  /\ page' = [page EXCEPT !.created = @ + 1]
  /\ StaysBut("pairs")

Trade(i) ==
  /\ Tradable(i)
  /\ page' = [page EXCEPT !.trades = Append(@, i)]
  /\ StaysBut("trades")

-----------------------------------------------------------------------------
(* Reads.  The calls of a batch are sent one by one, and one may fail.     *)

Fails(calls) == {0} \cup (IF left["failures"] > 0 THEN 1 .. calls ELSE {})
WithFailure(batch, k) == [i \in DOMAIN batch |-> IF i = k THEN Failed ELSE batch[i]]
Counted(k) ==
  /\ left' = IF k = 0 THEN left ELSE [left EXCEPT !["failures"] = @ - 1]
  /\ UNCHANGED <<wallet, stored, broken, mounting, open, account, all, watching, observers>>

Answer(key, batch, k) == [key |-> key, data |-> WithFailure(batch, k)]

DetailsBatch(pairs, reservesAt, supplyAt) ==
  [m \in 1 .. (4 * Len(pairs)) |->
     LET i == pairs[About(m, 4)]
     IN  << Pairs[i].token0, Pairs[i].token1, StateAfter(reservesAt, i).reserves,
            StateAfter(supplyAt, i).supply >>[Which(m, 4)]]

FiguresBatch(pairs) ==
  [m \in 1 .. (3 * Len(pairs)) |->
     LET i == pairs[About(m, 3)]
     IN  <<Pairs[i].token0, Pairs[i].token1, StateOf(i).reserves>>[Which(m, 3)]]

MetaBatch(unknown) ==
  [m \in 1 .. (2 * Len(unknown)) |->
     LET contract == Contracts[unknown[About(m, 2)]]
     IN  <<contract.symbol, contract.decimals>>[Which(m, 2)]]

ReadCount(t) ==
  /\ open[t]
  /\ page' = [page EXCEPT !.cache[t].count = page.created]
  /\ Stays

AddressesAnswered(t) ==
  LET n == page.cache[t].count
  IN  \E k \in Fails(n) :
        /\ page' = [page EXCEPT !.cache[t].addresses = Answer(n, [i \in 1 .. n |-> i], k)]
        /\ Counted(k)

ReadAddresses(t) ==
  /\ open[t] /\ page.cache[t].count > 0
  /\ Latest(page.cache[t].addresses, page.cache[t].count) = NoData
  /\ AddressesAnswered(t)

(* Returning to the window asks again for what is not asked on a timer.    *)
Refocus(t) ==
  /\ open[t] /\ Latest(page.cache[t].addresses, page.cache[t].count) # NoData
  /\ AddressesAnswered(t)

(* Variant: not asked again once there is an answer.                       *)
AskedOnce(t) == KnownPairs(t) # <<>> /\ Details(t) = NoData

Polled(t) == KnownPairs(t) # <<>>

ReadDetails(t) ==
  /\ open[t] /\ Shows("pools") /\ Polled(t)
  /\ LET pairs == KnownPairs(t)
     IN  \E k \in Fails(4 * Len(pairs)) :
           /\ page' = [page EXCEPT !.cache[t].details =
                Answer(pairs, DetailsBatch(pairs, page.trades, page.trades), k)]
           /\ Counted(k)

(* A pair is traded in between the reads of its reserves and its supply.   *)
ReadDetailsAcross(t, i) ==
  /\ open[t] /\ Shows("pools") /\ Polled(t) /\ Tradable(i)
  /\ LET after == Append(page.trades, i)
     IN  \E at \in {<<page.trades, after>>, <<after, page.trades>>} :
           page' = [page EXCEPT !.trades = after, !.cache[t].details =
             Answer(KnownPairs(t), DetailsBatch(KnownPairs(t), at[1], at[2]), 0)]
  /\ StaysBut("trades")

ReadMeta(t) ==
  /\ open[t] /\ Shows("pools") /\ UnknownTokens(t) # <<>>
  /\ LET unknown == UnknownTokens(t)
     IN  /\ Latest(page.cache[t].meta, unknown) = NoData
         /\ \E k \in Fails(2 * Len(unknown)) :
              /\ page' = [page EXCEPT !.cache[t].meta = Answer(unknown, MetaBatch(unknown), k)]
              /\ Counted(k)

ReadBalances(t) ==
  /\ open[t] /\ Shows("pools")
  /\ LET rows == Pools(t)
         shares == [n \in DOMAIN rows |-> StateOf(rows[n].pair).shares[account[t]]]
     IN  /\ rows # <<>>
         /\ \E k \in Fails(Len(rows)) :
              /\ page' = [page EXCEPT !.cache[t].balances = Answer(BalancesKey(t, rows), shares, k)]
              /\ Counted(k)

ReadFigures(t) ==
  /\ open[t] /\ Shows("landing") /\ KnownPairs(t) # <<>>
  /\ LET pairs == KnownPairs(t)
     IN  \E k \in Fails(3 * Len(pairs)) :
           /\ page' = [page EXCEPT !.cache[t].figures = Answer(pairs, FiguresBatch(pairs), k)]
           /\ Counted(k)

(* The swaps the analytics service has indexed; two share a timestamp.     *)
Swaps(i) ==
  {[pair |-> i, timestamp |-> k \div 2, blockNumber |-> k, logIndex |-> 0] :
     k \in {n \in DOMAIN page.trades : page.trades[n] = i}}

(* The recent trades, when the k-th request is the one not answered: the   *)
(* first asks for the pools, and each of the others for a pool's page.     *)
FeedOf(pools, k) ==
  LET pages == [n \in DOMAIN pools |-> Get(k # n + 1, PairSwaps(Swaps(pools[n]), FEED_LIMIT))]
  IN  Get(k # 1, [shown |-> Merge(pages, FEED_LIMIT),
                  from |-> {pools[n] : n \in {m \in DOMAIN pools : k # m + 1}},
                  upTo |-> Len(page.trades)])

(* The pools the service may name when asked for the deepest few.          *)
Sampled ==
  LET n == ClampLimit(POOLS_SAMPLED)
      size == IF page.created < n THEN page.created ELSE n
  IN  {Seqs!SetToSeq(pools) : pools \in {s \in SUBSET (1 .. page.created) : Cardinality(s) = size}}

ReadFeed(t) ==
  /\ open[t] /\ Shows("trades")
  /\ \E pools \in Sampled : \E k \in Fails(1 + Len(pools)) :
       /\ page' = [page EXCEPT !.feed[t] = FeedOf(pools, k)]
       /\ Counted(k)

-----------------------------------------------------------------------------
Init ==
  \E o \in Openings :
    /\ ActivityInit(o)
    /\ page = [entries |-> o.entries, record |-> o.record,
               imports |-> [t \in Tab |-> <<>>], settings |-> [t \in Tab |-> DEFAULT_SETTINGS],
               swap |-> [t \in Tab |-> Defaults], pool |-> [t \in Tab |-> Defaults],
               cache |-> [t \in Tab |-> EmptyCache], feed |-> [t \in Tab |-> NoData],
               created |-> o.created, trades |-> <<>>]

Next ==
  \/ ActivityNext
  \/ CreatePair
  \/ \E i \in 1 .. Len(Pairs) : Trade(i)
  \/ \E t \in Tab :
       \/ MountTab(t) \/ OpenTab(t) \/ CloseTab(t)
       \/ \E bps \in Slippages : SetSlippage(t, bps)
       \/ \E minutes \in Deadlines : SetDeadline(t, minutes)
       \/ ResetSettings(t)
       \/ \E form \in Form, side \in Side : PickToken(t, form, side) \/ ImportToken(t, form, side)
       \/ RemoveToken(t) \/ FollowRow(t) \/ ManagePosition(t)
       \/ ReadCount(t) \/ ReadAddresses(t) \/ Refocus(t)
       \/ ReadDetails(t) \/ ReadMeta(t) \/ ReadBalances(t) \/ ReadFigures(t) \/ ReadFeed(t)
       \/ \E i \in 1 .. Len(Pairs) : ReadDetailsAcross(t, i)

(* A tab polls for the receipts it waits for, and reads the details of the *)
(* pairs it knows every twenty seconds.                                    *)
Fairness ==
  \A t \in Tab : WF_vars(\E x \in Tx : NoticeReceipt(t, x)) /\ WF_vars(ReadDetails(t))

Spec == Init /\ [][Next]_vars /\ Fairness

-----------------------------------------------------------------------------
(* Types: among them, that the tolerance and the deadline of every tab are *)
(* in the range the contracts' protection needs, whatever was stored.      *)
TypeOK ==
  /\ ActivityTypeOK
  /\ \A t \in Tab :
       /\ SlippageAccepted(page.settings[t].slippageBps)
       /\ DeadlineAccepted(page.settings[t].deadlineMinutes)
       /\ \A token \in Seqs!ToSet(page.imports[t]) : token.isImported /\ token.address \in DOMAIN Contracts
       /\ page.cache[t].count <= page.created
  /\ page.created <= Len(Pairs) /\ page.trades \in Seq(1 .. page.created)

IsListed(token) == token \in Seqs!ToSet(TOKEN_LIST)

(* An import never stands in for a listed token: whatever was imported, in *)
(* whichever tab, and whatever its symbol, a listed token is found under   *)
(* its address and under the name its links carry.                         *)
ListedTokensWin ==
  \A t \in Tab, token \in Seqs!ToSet(TOKEN_LIST) :
    /\ ResolveToken(TokensOf(t), TokenParam(token)) = token
    /\ token.address # Native => TokenByAddress(TokensOf(t), token.address) = token

(* No sequence of picks, links, imports and removals puts a listed token   *)
(* on both sides of a form.                                                *)
ListedOnOneSide ==
  \A t \in Tab, form \in Form :
    LET two == page[form][t]
    IN  SameToken(two[1], two[2]) => ~IsListed(two[1])

(* The address bar is a working link: opened in a tab that knows the       *)
(* tokens of the form, it gives the same form.  A tab that has not read    *)
(* its imports yet knows the listed ones only.                             *)
AddressBarReopens ==
  \A t \in Tab :
    LET bar(form) == <<TokenParam(page[form][t][1]), TokenParam(page[form][t][2])>>
        reopens(list, form) ==
          page[form][t][1] \in Seqs!ToSet(list) /\ page[form][t][2] \in Seqs!ToSet(list)
          /\ ~SameToken(page[form][t][1], page[form][t][2])
          => IF form = "swap" THEN SwapFromLink(list, Defaults, bar(form)) = page[form][t]
             ELSE PoolFromLink(list, Defaults, bar(form)) = page[form][t]
    IN  open[t] => \A form \in Form : reopens(TOKEN_LIST, form) /\ reopens(TokensOf(t), form)

Ambiguous(t, poolToken) ==
  \E other \in Seqs!ToSet(TokensOf(t)) : other.symbol = poolToken.symbol /\ other.address # poolToken.address

(* The links of a row trade in that row's pool: a side of the form becomes *)
(* the row's token or stays as it was, and becomes it when the row's       *)
(* tokens are known.  Except for an imported token that has the symbol of  *)
(* another.                                                                *)
RowLinksOpenTheirPool ==
  \A t \in Tab : \A row \in Seqs!ToSet(Pools(t)) :
    LET tokens == <<row.token0, row.token1>>
        form == SwapFromLink(TokensOf(t), page.swap[t], <<LinkParam(row.token0), LinkParam(row.token1)>>)
        routed(token) == IF token.address = Native THEN Wkash ELSE token.address
    IN  \A i \in Side :
          ~(tokens[i].known /\ Ambiguous(t, tokens[i])) =>
            /\ form[i] = page.swap[t][i] \/ routed(form[i]) = tokens[i].address
            /\ (\A j \in Side : tokens[j].known /\ ~Ambiguous(t, tokens[j]))
               => routed(form[i]) = tokens[i].address

(* No amount is shown in the decimals of another token: what is known has  *)
(* its own, what could not be read the default.                            *)
ScaleIsOwnOrDefault ==
  \A t \in Tab :
    /\ \A row \in Seqs!ToSet(Pools(t)) : \A token \in {row.token0, row.token1} :
         token.decimals \in {Contracts[token.address].decimals}
                              \cup (IF token.known THEN {} ELSE {DEFAULT_DECIMALS})
    /\ \A form \in Form, i \in Side :
         LET token == page[form][t][i]
         IN  IsListed(token) \/ token.decimals \in {Contracts[token.address].decimals, DEFAULT_DECIMALS}

(* A row shows its own pair: its tokens, and reserves and shares that it   *)
(* had at some time, whichever reads failed, whatever was created, traded  *)
(* or imported between them.                                               *)
RowsShowTheirPair ==
  \A t \in Tab : \A row \in Seqs!ToSet(Pools(t)) :
    LET pair == Pairs[row.pair]
    IN  /\ row.token0.address = pair.token0 /\ row.token1.address = pair.token1
        /\ \E s \in Seqs!ToSet(pair.history) : <<row.reserve0, row.reserve1>> = s.reserves
        /\ \E s \in Seqs!ToSet(pair.history) : row.totalSupply = s.supply

(* A position is of the connected account and of that row's pair, also     *)
(* when the rows change or the user switches accounts between two reads.   *)
PositionsAreTheirOwn ==
  \A t \in Tab : \A position \in PositionsOf(t) :
    \E s \in Seqs!ToSet(Pairs[position.pair].history) : position.lpBalance = s.shares[account[t]]

(* A pool has a value exactly when a stablecoin can be reached from one of *)
(* its tokens through at most two pools; otherwise it is unpriced, and     *)
(* never worth zero.                                                       *)
PricedThroughStables ==
  \A t \in Tab :
    LET pools == {row \in Seqs!ToSet(Pools(t)) : row.reserve0 > 0 /\ row.reserve1 > 0}
        joined(a, b) == \E row \in pools : {row.token0.address, row.token1.address} = {a, b}
        stable == {token.address : token \in {k \in Seqs!ToSet(TOKEN_LIST) : k.isStable}}
        near(a) == \/ a \in stable
                   \/ \E s \in stable : joined(a, s)
                   \/ \E s \in stable, b \in DOMAIN Contracts : joined(a, b) /\ joined(b, s)
    IN  \A row \in pools :
          PoolTvl(Pools(t), row) # Unpriced <=> near(row.token0.address) \/ near(row.token1.address)

(* What the pairs hold of a token.                                         *)
HeldBy(i, token) ==
  IF Pairs[i].token0 = token.address THEN StateOf(i).reserves[1]
  ELSE IF Pairs[i].token1 = token.address THEN StateOf(i).reserves[2] ELSE 0

LockedOf(token) == SumOf([i \in 1 .. page.created |-> HeldBy(i, token)])

Holding(token) == {i \in 1 .. page.created : token.address \in {Pairs[i].token0, Pairs[i].token1}}

StablesHeld ==
  SumOf([n \in DOMAIN Deployed |->
           IF Deployed[n].isStable THEN InStable(Deployed[n], LockedOf(Deployed[n])) ELSE 0])

(* A pool's amount of a token of more decimals is cut to the scale shown.  *)
CutOff ==
  SumOf([n \in DOMAIN Deployed |->
           IF Deployed[n].isStable /\ Deployed[n].decimals > STABLE_DECIMALS
           THEN Cardinality(Holding(Deployed[n])) ELSE 0])

(* When no read failed and nothing was traded since, the totals of the     *)
(* landing page are what the pools hold: KASH, and the listed stablecoins  *)
(* on one scale, never more and less by no more than what each pool cuts   *)
(* off.                                                                    *)
FiguresAreWhatIsLocked ==
  \A t \in Tab :
    LET all_ == [i \in 1 .. page.created |-> i]
    IN  page.created > 0 /\ page.cache[t].figures = Answer(all_, FiguresBatch(all_), 0) /\ KnownPairs(t) = all_
        => /\ KashLocked(SummariesOf(t)) = LockedOf(WKASH)
           /\ StablesLocked(SummariesOf(t)) \in (StablesHeld - CutOff) .. StablesHeld

(* The price shown is one a trade would get: a pool of the two tokens gave *)
(* that much, and no more, for one unit.                                   *)
PriceIsExecutable ==
  \A t \in Tab, token \in Seqs!ToSet(TOKEN_LIST) :
    LET price == PoolPrice(SummariesOf(t), token, MUSDC)
        address == IF token.address = Native THEN Wkash ELSE token.address
        unit == TenToThe(token.decimals)
        gives(rIn, rOut, out) == (rIn * 1000 + unit * 997) * (rOut - out) >= rIn * rOut * 1000
    IN  price # Unpriced =>
          \E i \in 1 .. Len(Pairs) : \E s \in Seqs!ToSet(Pairs[i].history) :
            \/ /\ Pairs[i].token0 = address /\ Pairs[i].token1 = MUSDC.address
               /\ gives(s.reserves[1], s.reserves[2], price) /\ ~gives(s.reserves[1], s.reserves[2], price + 1)
            \/ /\ Pairs[i].token1 = address /\ Pairs[i].token0 = MUSDC.address
               /\ gives(s.reserves[2], s.reserves[1], price) /\ ~gives(s.reserves[2], s.reserves[1], price + 1)

(* The recent trades are the newest of the pools that answered, newest     *)
(* first: a pool that does not answer takes only its own away.             *)
FeedIsNewest ==
  \A t \in Tab :
    LET feed == page.feed[t]
    IN  feed \notin {NoData, Unavailable} =>
          LET shown == [n \in DOMAIN feed.shown |-> feed.shown[n].blockNumber]
              known == {k \in 1 .. feed.upTo : page.trades[k] \in feed.from}
          IN  /\ \A n \in DOMAIN shown : shown[n] \in known /\ (n > 1 => shown[n] < shown[n - 1])
              /\ Len(shown) <= FEED_LIMIT
              /\ \A k \in known \ Seqs!ToSet(shown) :
                   Len(shown) = FEED_LIMIT /\ \A n \in DOMAIN shown : k < shown[n]

(* What one tab wrote, the next to open takes over: nothing that was       *)
(* imported or set is dropped or reset on the way through the storage,     *)
(* but imports with more decimals than an entry may have.  And until the   *)
(* tab has taken it over it is left in the storage, so that one closed in  *)
(* between takes nothing with it.                                          *)
ReopeningKeepsChoices ==
  [][\A t \in Tab : t \notin mounting /\ t \in mounting' /\ opened # {} /\ ~broken =>
       /\ page'.imports[t] = Without(page.entries, {e \in Seqs!ToSet(page.entries) : ~Valid(e)})
       /\ page'.settings[t] = page.record
       /\ page'.entries = page.entries /\ page'.record = page.record]_vars

(* Every pair whose address was read is in the table again and again, with *)
(* the reserves it has, although single reads fail and others trade in it. *)
EventuallyShown ==
  []<>(Shows("pools") => \A t \in Tab : \A i \in Seqs!ToSet(KnownPairs(t)) :
         \E row \in Seqs!ToSet(Pools(t)) :
           row.pair = i /\ <<row.reserve0, row.reserve1>> = StateOf(i).reserves
           /\ row.totalSupply = StateOf(i).supply)

(* The activity list tells the truth: what is listed has the verdict of the*)
(* chain and the account that sent it, what is pending is being watched,   *)
(* and alone a tab loses nothing.                                          *)
ActivityIsTrue ==
  VerdictIsTrue /\ ListedForItsSender /\ PendingIsWatched /\ AloneNothingIsLost

(* Whatever order of picks, imports, removals and links led there, the two *)
(* sides of a form hold the tokens that were meant, and links lead back.   *)
ChoicesAreSound ==
  TypeOK /\ ListedTokensWin /\ ListedOnOneSide /\ AddressBarReopens /\ RowLinksOpenTheirPool

(* Tables, positions, totals and feeds are put together from answers that  *)
(* come one by one, some missing, some of an earlier state; each figure    *)
(* still belongs to the pair, the account and the token it is shown for.   *)
PoolsAreShownAsTheyAre ==
  /\ ScaleIsOwnOrDefault /\ RowsShowTheirPair /\ PositionsAreTheirOwn
  /\ PricedThroughStables /\ FiguresAreWhatIsLocked /\ PriceIsExecutable /\ FeedIsNewest

(* While a tab is open only the user, or a full list, takes what is pending*)
(* off its list; and what was chosen in one tab the next to open takes     *)
(* over.  (What is pending is not always: two tabs overwrite each other's  *)
(* list, and only alone a tab finds all of it again.)                      *)
NothingIsForgotten == PendingLeavesOnlyIfDismissed /\ ReopeningKeepsChoices

(* As long as the node answers now and then, the list and the table catch  *)
(* up with the chain again and again.                                      *)
EventuallyUpToDate == EventuallySettled /\ EventuallyShown
=============================================================================
