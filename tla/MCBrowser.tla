----------------------------- MODULE MCBrowser ------------------------------
(***************************************************************************)
(* Instances of Browser.  Each opening lets a few things happen, so that   *)
(* their interleavings can be explored in full.                            *)
(***************************************************************************)
EXTENDS Browser, TLC

CONSTANTS t1, t2, x1, x2, x3, a1, a2

-----------------------------------------------------------------------------
(* Tokens: U has the symbol of a listed stablecoin, L more decimals than a *)
(* stored import may have.                                                 *)

C == 2
D == 3
U == 4
V == 5
L == 6

MCDeployed == <<TokenWith(C, "musdc", 2, TRUE, FALSE), TokenWith(D, "musdt", 0, TRUE, FALSE)>>

MCContracts ==
  [address \in 1 .. 6 |->
     CASE address = 1 -> [symbol |-> "wkash", decimals |-> 1]
       [] address = C -> [symbol |-> "musdc", decimals |-> 2]
       [] address = D -> [symbol |-> "musdt", decimals |-> 0]
       [] address = U -> [symbol |-> "musdc", decimals |-> 0]
       [] address = V -> [symbol |-> "vvv", decimals |-> 2]
       [] address = L -> [symbol |-> "long", decimals |-> 4]]

ImportOf(address) ==
  TokenWith(address, MCContracts[address].symbol, MCContracts[address].decimals, FALSE, TRUE)

After(reserve0, reserve1, supply, share1, share2) ==
  [reserves |-> <<reserve0, reserve1>>, supply |-> supply, shares |-> a1 :> share1 @@ a2 :> share2]

(* The first pool can be priced only through the second and the third; the *)
(* fourth starts empty.                                                    *)
MCPairs ==
  << [token0 |-> U, token1 |-> V, history |-> <<After(40, 50, 44, 11, 0)>>],
     [token0 |-> 1, token1 |-> U, history |-> <<After(30, 20, 24, 12, 3), After(24, 26, 25, 12, 4), After(27, 24, 25, 12, 3)>>],
     [token0 |-> 1, token1 |-> C, history |-> <<After(0, 0, 0, 0, 0), After(60, 95, 70, 35, 7)>>],
     [token0 |-> C, token1 |-> D, history |-> <<After(86, 7, 20, 5, 1), After(77, 8, 21, 5, 2)>>] >>

-----------------------------------------------------------------------------
None ==
  [tabs |-> {t1}, txs |-> {}, links |-> {<<Absent, Absent>>}, shows |-> {},
   ends |-> Ended,
   closes |-> 0, switches |-> 0, leaves |-> 0, errors |-> 0, ages |-> 0, settings |-> 0,
   picks |-> 0, imports |-> 0, removals |-> 0, pairs |-> 0, trades |-> 0, failures |-> 0]

Opening(bounds, entries, record, created) ==
  [account |-> a1, broken |-> FALSE, bounds |-> bounds, entries |-> entries, record |-> record,
   created |-> created]

(* One tab, and one transaction more than the list holds.                  *)
Alone == Opening([None EXCEPT !.txs = {x1, x2, x3}, !.ends = {"mined"}, !.closes = 1], <<>>, NoData, 0)

(* Two tabs that overwrite each other's list.                              *)
Together ==
  Opening([None EXCEPT !.tabs = {t1, t2}, !.txs = {x1, x2}, !.closes = 1, !.ends = {"mined", "reverted"}],
          <<>>, NoData, 0)

(* One tab where accounts, forms, requests and time get in the way.        *)
Troubled ==
  Opening([None EXCEPT !.txs = {x1, x2}, !.switches = 1, !.leaves = 1, !.errors = 1, !.ages = 1],
          <<>>, NoData, 0)

(* A browser that stores nothing.                                          *)
Unstored ==
  [Opening([None EXCEPT !.tabs = {t1, t2}, !.txs = {x1}, !.closes = 1, !.errors = 1, !.settings = 1,
                        !.imports = 1, !.ends = {"mined"}], <<>>, NoData, 0)
   EXCEPT !.broken = TRUE]

(* Tokens are imported, chosen and removed in two tabs; the storage holds  *)
(* entries and settings that do not belong there.                          *)
Choosing ==
  Opening([None EXCEPT !.tabs = {t1, t2}, !.closes = 1, !.imports = 2, !.settings = 1],
          <<ImportOf(C), ImportOf(L)>>, [slippageBps |-> 0, deadlineMinutes |-> 500], 0)

(* Links, to one token twice among them.                                   *)
Linked ==
  Opening([None EXCEPT !.links = {<<BySymbol("musdc"), BySymbol("kash")>>, <<BySymbol("musdt"), Absent>>,
                                  <<BySymbol("wkash"), BySymbol("wkash")>>, <<ByAddress(V), BySymbol("musdt")>>},
                       !.picks = 2, !.imports = 1, !.removals = 1, !.closes = 1],
          <<ImportOf(V)>>, Corrupt, 0)

(* The pages of the pools, with one of their tokens imported.              *)
Exploring ==
  Opening([None EXCEPT !.shows = {"pools"}, !.pairs = 1, !.failures = 1, !.removals = 1],
          <<ImportOf(V)>>, NoData, 2)

(* The same while the user switches accounts.                              *)
Switching ==
  Opening([None EXCEPT !.shows = {"pools"}, !.switches = 1, !.trades = 1, !.picks = 1],
          <<ImportOf(U)>>, NoData, 3)

(* The landing page: its figures, and its recent trades.                   *)
Landing ==
  Opening([None EXCEPT !.shows = {"landing"}, !.pairs = 1, !.trades = 3, !.failures = 1], <<>>, NoData, 3)

Feeding ==
  Opening([None EXCEPT !.shows = {"trades"}, !.pairs = 1, !.trades = 3, !.failures = 1], <<>>, NoData, 3)

MCOpenings ==
  {Alone, Together, Troubled, Unstored, Choosing, Linked, Exploring, Switching, Landing, Feeding}
=============================================================================
