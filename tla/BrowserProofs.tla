--------------------------- MODULE BrowserProofs ----------------------------
(***************************************************************************)
(* What holds of the open tabs of the web application, whatever the user,  *)
(* the wallet, the chain and the other tabs do: what the activity list     *)
(* says is true, what is pending is watched and leaves only when it is     *)
(* dismissed or pushed out, the forms hold tokens that were meant, the     *)
(* tables show answers under what they are about, and a tab that is opened *)
(* takes over what was kept.                                               *)
(*                                                                         *)
(* Three invariants carry this: ActivityInv, of the wallet and the lists,  *)
(* PageInv, of the tokens, settings, forms and batches of reads, and       *)
(* FeedInv, of the feeds of recent trades.                                 *)
(***************************************************************************)
EXTENDS Browser, AmmMathProofs, FiniteSetTheorems, TLAPS

-----------------------------------------------------------------------------
(* What is pending is watched.                                             *)

(* A tab never drops out of the two maps, and watches what it lists.       *)
WatchInv == DOMAIN all = Tab /\ DOMAIN watching = Tab /\ PendingIsWatched

(* Nothing but the list and the set of aged transactions matters, and      *)
(* ageing only takes transactions away.                                    *)
LEMMA WatchedAsBefore ==
  ASSUME WatchInv, UNCHANGED <<all, watching, mounting>>, aged \subseteq aged'
  PROVE  WatchInv'
<1>1. ASSUME NEW t \in Tab PROVE Watchable(all[t])' \subseteq Watchable(all[t])
  BY DEF Watchable, IsStale
<1> QED BY <1>1 DEF WatchInv, PendingIsWatched

(* setAll chooses the watchers by the new list.                            *)
LEMMA SetAllWatches ==
  ASSUME WatchInv, NEW t, NEW list, SetAll(t, list), aged' = aged, mounting \ {t} \subseteq mounting'
  PROVE  WatchInv'
<1>1. DOMAIN all' = Tab /\ DOMAIN watching' = Tab
  BY DEF WatchInv, SetAll
<1>2. ASSUME NEW u \in Tab \ mounting' PROVE Watchable(all[u])' \subseteq watching'[u]
  <2>1. CASE u = t
    <3>1. all'[u] = list /\ watching'[u] = Watchable(list)
      BY <2>1 DEF WatchInv, SetAll
    <3> QED BY <3>1 DEF Watchable, IsStale
  <2>2. CASE u # t
    <3>1. all'[u] = all[u] /\ watching'[u] = watching[u] /\ u \notin mounting
      BY <2>2 DEF WatchInv, SetAll
    <3> QED BY <3>1 DEF WatchInv, PendingIsWatched, Watchable, IsStale
  <2> QED BY <2>1, <2>2
<1> QED BY <1>1, <1>2 DEF WatchInv, PendingIsWatched

(* An empty list needs no watching.                                        *)
LEMMA NothingToWatch == Watchable(<<>>) = {} /\ Watchable(<<>>)' = {}
<1>1. <<>> \in Seq({}) /\ Len(<<>>) = 0
  BY EmptySeq
<1>2. DOMAIN <<>> = 1 .. 0
  BY <1>1, LenProperties
<1>3. \A i \in 1 .. 0 : FALSE
  BY SMT
<1>4. DOMAIN <<>> = {}
  BY <1>2, <1>3, Zenon
<1> QED BY <1>4 DEF Watchable, IsStale

(* A tab that is being opened has not rendered what it read.               *)
LEMMA MountWatches ==
  ASSUME WatchInv, NEW t \in Tab, Mount(t)
  PROVE  WatchInv'
<1>1. DOMAIN all' = Tab /\ DOMAIN watching' = Tab /\ aged' = aged
  BY DEF WatchInv, Mount, wallet
<1>2. ASSUME NEW u \in Tab \ mounting' PROVE Watchable(all[u])' \subseteq watching'[u]
  <2>1. u # t /\ u \notin mounting /\ all'[u] = all[u] /\ watching'[u] = watching[u]
    BY DEF WatchInv, Mount
  <2> QED BY <1>1, <2>1 DEF WatchInv, PendingIsWatched, Watchable, IsStale
<1> QED BY <1>1, <1>2 DEF WatchInv, PendingIsWatched

(* A closed tab lists nothing.                                             *)
LEMMA CloseWatches ==
  ASSUME WatchInv, NEW t \in Tab, Close(t)
  PROVE  WatchInv'
<1>1. DOMAIN all' = Tab /\ DOMAIN watching' = Tab /\ aged' = aged
  BY DEF WatchInv, Close
<1>2. ASSUME NEW u \in Tab \ mounting' PROVE Watchable(all[u])' \subseteq watching'[u]
  <2>1. CASE u = t
    <3>1. Watchable(all[u])' = Watchable(<<>>)'
      BY <2>1 DEF WatchInv, Close, Watchable, IsStale
    <3> QED BY <3>1, NothingToWatch
  <2>2. CASE u # t
    <3>1. all'[u] = all[u] /\ watching'[u] = watching[u] /\ u \notin mounting
      BY <2>2 DEF WatchInv, Close
    <3> QED BY <1>1, <3>1 DEF WatchInv, PendingIsWatched, Watchable, IsStale
  <2> QED BY <2>1, <2>2
<1> QED BY <1>1, <1>2 DEF WatchInv, PendingIsWatched

LEMMA InitWatches == Init => WatchInv
<1> SUFFICES ASSUME Init PROVE WatchInv
  OBVIOUS
<1>1. /\ DOMAIN all = Tab /\ DOMAIN watching = Tab
      /\ \A t \in Tab : all[t] = <<>>
  BY DEF Init, ActivityInit
<1>2. \A t \in Tab : Watchable(all[t]) = {}
  BY <1>1, NothingToWatch
<1> QED BY <1>1, <1>2 DEF WatchInv, PendingIsWatched

(* The steps of the activity list: each goes through setAll, or leaves the *)
(* list and its watchers alone.                                            *)
LEMMA ActivityWatches ==
  ASSUME WatchInv, ActivityNext
  PROVE  WatchInv'
<1>1. ASSUME NEW t \in Tab, LeaveForm(t) PROVE WatchInv'
  BY <1>1, WatchedAsBefore DEF LeaveForm
<1>2. ASSUME NEW t \in Tab, Clear(t) PROVE WatchInv'
  <2>1. aged' = aged /\ mounting' = mounting
    BY <1>2 DEF Clear, wallet
  <2>2. \E list : SetAll(t, list)
    BY <1>2 DEF Clear
  <2> QED BY <2>1, <2>2, SetAllWatches
<1>3. ASSUME NEW t \in Tab, NEW a \in Account, SwitchAccount(t, a) PROVE WatchInv'
  BY <1>3, WatchedAsBefore DEF SwitchAccount, wallet
<1>4. ASSUME NEW t \in Tab, NEW x \in Tx, Ask(t, x) PROVE WatchInv'
  BY <1>4, WatchedAsBefore DEF Ask
<1>5. ASSUME NEW t \in Tab, NEW x \in Tx, NoticeReceipt(t, x) PROVE WatchInv'
  BY <1>5, SetAllWatches DEF NoticeReceipt, wallet
<1>6. ASSUME NEW t \in Tab, NEW x \in Tx, NoticeError(t, x) PROVE WatchInv'
  BY <1>6, SetAllWatches DEF NoticeError, wallet
<1>7. ASSUME NEW t \in Tab, NEW x \in Tx, Dismiss(t, x) PROVE WatchInv'
  <2>1. aged' = aged /\ mounting' = mounting
    BY <1>7 DEF Dismiss, wallet
  <2>2. \E list : SetAll(t, list)
    BY <1>7 DEF Dismiss
  <2> QED BY <2>1, <2>2, SetAllWatches
<1>8. ASSUME NEW x \in Tx, WalletRefuses(x) PROVE WatchInv'
  BY <1>8, WatchedAsBefore DEF WalletRefuses
<1>9. ASSUME NEW x \in Tx, WalletSends(x) PROVE WatchInv'
  <2>1. aged' = aged /\ mounting' = mounting
    BY <1>9 DEF WalletSends
  <2>2. CASE asker[x].attached
    <3>1. SetAll(asker[x].tab, Tracked(x))
      BY <1>9, <2>2 DEF WalletSends
    <3> QED BY <2>1, <3>1, SetAllWatches
  <2>3. CASE ~asker[x].attached
    BY <1>9, <2>1, <2>3, WatchedAsBefore DEF WalletSends
  <2> QED BY <2>2, <2>3
<1>10. ASSUME NEW x \in Tx, Ends(x) PROVE WatchInv'
  BY <1>10, WatchedAsBefore DEF Ends
<1>11. ASSUME NEW x \in Tx, Ages(x) PROVE WatchInv'
  BY <1>11, WatchedAsBefore DEF Ages
<1> QED BY <1>1, <1>2, <1>3, <1>4, <1>5, <1>6, <1>7, <1>8, <1>9, <1>10, <1>11 DEF ActivityNext

(* The other steps of the page: opening a tab goes through setAll, reading *)
(* the storage and closing are above, and the rest leaves the list alone.  *)
LEMMA NextWatches == WatchInv /\ [Next]_vars => WatchInv'
<1> SUFFICES ASSUME WatchInv, [Next]_vars PROVE WatchInv'
  OBVIOUS
<1>1. ASSUME UNCHANGED <<all, watching, mounting, aged>> PROVE WatchInv'
  BY <1>1, WatchedAsBefore
<1>2. ASSUME NEW t \in Tab, OpenTab(t) PROVE WatchInv'
  <2>1. Open(t)
    BY <1>2 DEF OpenTab
  <2> QED BY <2>1, SetAllWatches DEF Open, wallet
<1>3. ASSUME NEW t \in Tab, MountTab(t) \/ CloseTab(t) PROVE WatchInv'
  BY <1>3, MountWatches, CloseWatches DEF MountTab, CloseTab
<1>4. ASSUME \/ CreatePair
             \/ \E i \in 1 .. Len(Pairs) : Trade(i)
             \/ \E t \in Tab :
                  \/ \E bps \in Slippages : SetSlippage(t, bps)
                  \/ \E minutes \in Deadlines : SetDeadline(t, minutes)
                  \/ ResetSettings(t)
                  \/ \E form \in Form, side \in Side :
                        PickToken(t, form, side) \/ ImportToken(t, form, side)
                  \/ RemoveToken(t) \/ FollowRow(t) \/ ManagePosition(t)
                  \/ \E i \in 1 .. Len(Pairs) : ReadDetailsAcross(t, i)
      PROVE  WatchInv'
  <2>1. CASE CreatePair \/ \E i \in 1 .. Len(Pairs) : Trade(i)
    BY <1>1, <2>1 DEF CreatePair, Trade, StaysBut, wallet
  <2>2. ASSUME NEW t \in Tab,
               \/ \E bps \in Slippages : SetSlippage(t, bps)
               \/ \E minutes \in Deadlines : SetDeadline(t, minutes)
               \/ ResetSettings(t)
        PROVE  WatchInv'
    BY <1>1, <2>2 DEF SetSlippage, SetDeadline, ResetSettings, StaysBut, wallet
  <2>3. ASSUME NEW t \in Tab, NEW form \in Form, NEW side \in Side,
               PickToken(t, form, side) \/ ImportToken(t, form, side)
        PROVE  WatchInv'
    BY <1>1, <2>3 DEF PickToken, ImportToken, StaysBut, wallet
  <2>4. ASSUME NEW t \in Tab,
               \/ RemoveToken(t) \/ FollowRow(t) \/ ManagePosition(t)
               \/ \E i \in 1 .. Len(Pairs) : ReadDetailsAcross(t, i)
        PROVE  WatchInv'
    BY <1>1, <2>4 DEF RemoveToken, FollowRow, ManagePosition, ReadDetailsAcross, StaysBut, wallet
  <2> QED BY <1>4, <2>1, <2>2, <2>3, <2>4
<1>5. ASSUME NEW t \in Tab,
             \/ ReadCount(t) \/ ReadAddresses(t) \/ Refocus(t)
             \/ ReadDetails(t) \/ ReadMeta(t) \/ ReadBalances(t) \/ ReadFigures(t) \/ ReadFeed(t)
      PROVE  WatchInv'
  <2>1. UNCHANGED <<all, watching, mounting, aged>>
    BY <1>5 DEF ReadCount, ReadAddresses, Refocus, AddressesAnswered, ReadDetails, ReadMeta,
         ReadBalances, ReadFigures, ReadFeed, Counted, Stays, activityVars, wallet
  <2> QED BY <1>1, <2>1
<1>6. CASE UNCHANGED vars
  BY <1>1, <1>6 DEF vars, activityVars, wallet
<1>7. CASE ActivityNext /\ UNCHANGED page
  BY <1>7, ActivityWatches
<1> QED BY <1>2, <1>3, <1>4, <1>5, <1>6, <1>7, ActivityWatches DEF Next

(* activity.tsx: in no tab is a pending transaction left without a watcher *)
(* of its receipt, however many tabs share the list.                       *)
THEOREM PendingAlwaysWatched == Spec => []PendingIsWatched
<1>1. WatchInv => PendingIsWatched
  BY DEF WatchInv
<1> QED BY <1>1, InitWatches, NextWatches, PTL DEF Spec

-----------------------------------------------------------------------------
(* A transaction the wallet sent.                                          *)
Sent(x) == chain[x] \notin {"unsent", "asked", "refused"}

(* What an item says is so.                                                *)
Truthful(item) ==
  /\ Sent(item.tx)
  /\ item.account = asker[item.tx].account
  /\ item.status = "confirmed" => chain[item.tx] \in {"mined", "replaced"}
  /\ item.status = "failed" => chain[item.tx] \in {"reverted", "replacedReverted"} \/ item.tx \in misread

Unlike(list) ==
  \A i \in DOMAIN list : \A j \in DOMAIN list : list[i].tx = list[j].tx => i = j

Listing(list) == list \in Seq(Item) /\ Len(list) <= MAX_ITEMS /\ Unlike(list)

TrueList(list) == Listing(list) /\ \A i \in DOMAIN list : Truthful(list[i])

-----------------------------------------------------------------------------
(* What the operations make of a list.                                     *)

(* It has the same indices, and what it says of each transaction is kept.  *)
LEMMA ListingIs ==
  ASSUME NEW list, list \in Seq(Item)
  PROVE  /\ Len(list) \in Nat /\ DOMAIN list = 1 .. Len(list)
         /\ \A i \in DOMAIN list : list[i] \in Item /\ list[i].tx \in Tx /\ list[i].tx \in TxsOf(list)
         /\ \A x : x \in TxsOf(list) <=> \E i \in DOMAIN list : list[i].tx = x
<1>1. Len(list) \in Nat /\ DOMAIN list = 1 .. Len(list)
  BY LenProperties
<1>2. \A i \in DOMAIN list : list[i] \in Item
  BY <1>1, ElementOfSeq
<1>3. \A item \in Item : item.tx \in Tx
  BY DEF Item
<1> QED BY <1>1, <1>2, <1>3 DEF TxsOf

LEMMA LesserIs ==
  ASSUME NEW l \in Nat
  PROVE  LET n == IF l < MAX_ITEMS THEN l ELSE MAX_ITEMS
         IN  /\ n \in Nat /\ n <= MAX_ITEMS /\ n <= l
             /\ l <= MAX_ITEMS => n = l
             /\ l > 0 => n > 0 /\ 1 \in 1 .. n
             /\ \A i \in 1 .. n : i \in 1 .. l
BY ActivityAssumption, SMT

LEMMA NewestIs ==
  ASSUME NEW list, list \in Seq(Item), Unlike(list)
  PROVE  /\ Listing(Newest(list))
         /\ \A i \in DOMAIN Newest(list) : i \in DOMAIN list /\ Newest(list)[i] = list[i]
         /\ Len(list) <= MAX_ITEMS => Newest(list) = list
         /\ Len(list) > 0 => 1 \in DOMAIN Newest(list)
<1> DEFINE n == IF Len(list) < MAX_ITEMS THEN Len(list) ELSE MAX_ITEMS
           new == SubSeq(list, 1, n)
<1>1. Len(list) \in Nat /\ DOMAIN list = 1 .. Len(list) /\ \A i \in DOMAIN list : list[i] \in Item
  BY ListingIs
<1>2. /\ n \in Nat /\ n <= MAX_ITEMS /\ n <= Len(list)
      /\ Len(list) <= MAX_ITEMS => n = Len(list)
      /\ Len(list) > 0 => n > 0 /\ 1 \in 1 .. n
  BY <1>1, LesserIs
<1>3. \A i \in 1 .. n : i \in 1 .. Len(list)
  BY <1>1, LesserIs
<1> HIDE DEF n
<1>4. \A i \in 1 .. n : list[i] \in Item
  BY <1>1, <1>3
<1>5. new \in Seq(Item) /\ Len(new) = n /\ \A i \in 1 .. n : new[i] = list[i]
  <2>1. /\ new \in Seq(Item)
        /\ Len(new) = IF 1 <= n THEN n - 1 + 1 ELSE 0
        /\ \A i \in 1 .. n - 1 + 1 : new[i] = list[1 + i - 1]
    BY <1>2, <1>4, SubSeqProperties
  <2>2. /\ (IF 1 <= n THEN n - 1 + 1 ELSE 0) = n
        /\ n - 1 + 1 = n /\ \A i \in 1 .. n : 1 + i - 1 = i
    BY <1>2, SMT
  <2> HIDE DEF new
  <2> QED BY <2>1, <2>2
<1>6. Len(list) <= MAX_ITEMS => new = list
  BY <1>2, SubSeqFull
<1> HIDE DEF new
<1>7. DOMAIN new = 1 .. n
  BY <1>5, LenProperties
<1>8. Unlike(new)
  BY <1>1, <1>3, <1>5, <1>7 DEF Unlike
<1> QED BY <1>1, <1>2, <1>3, <1>5, <1>6, <1>7, <1>8 DEF Newest, Listing, n, new

LEMMA PushedIs ==
  ASSUME NEW list, Listing(list), NEW item \in Item, item.tx \notin TxsOf(list)
  PROVE  LET more == <<item>> \o list
         IN  /\ more \in Seq(Item) /\ Unlike(more) /\ Len(more) = Len(list) + 1
             /\ more[1] = item
             /\ \A i \in DOMAIN more : i = 1 \/ (i - 1 \in DOMAIN list /\ more[i] = list[i - 1])
             /\ \A i \in DOMAIN list : i + 1 \in DOMAIN more /\ more[i + 1] = list[i]
<1> DEFINE more == <<item>> \o list
           n == Len(list)
<1>1. /\ n \in Nat /\ DOMAIN list = 1 .. n /\ list \in Seq(Item)
      /\ \A i \in 1 .. n : list[i] \in Item /\ list[i].tx \in TxsOf(list)
  BY ListingIs DEF Listing
<1>2. <<item>> \in Seq(Item) /\ Len(<<item>>) = 1 /\ <<item>>[1] = item
  OBVIOUS
<1>3. /\ more \in Seq(Item) /\ Len(more) = 1 + n
      /\ \A i \in 1 .. 1 + n : more[i] = IF i <= 1 THEN <<item>>[i] ELSE list[i - 1]
  BY <1>1, <1>2, ConcatProperties
<1> HIDE DEF more, n
<1>4. 1 + n = n + 1 /\ DOMAIN more = 1 .. n + 1
  BY <1>1, <1>3, LenProperties
<1>5. /\ 1 \in 1 .. n + 1 /\ 1 <= 1
      /\ \A i \in 1 .. n + 1 : i = 1 \/ (i - 1 \in 1 .. n /\ ~(i <= 1))
      /\ \A i \in 1 .. n : i + 1 \in 1 .. n + 1 /\ ~(i + 1 <= 1) /\ (i + 1) - 1 = i
      /\ \A i \in 1 .. n + 1 : \A j \in 1 .. n + 1 : i - 1 = j - 1 => i = j
  BY <1>1, SMT
<1>6. more[1] = item
  BY <1>2, <1>3, <1>4, <1>5
<1>7. \A i \in 1 .. n + 1 : i = 1 \/ (i - 1 \in 1 .. n /\ more[i] = list[i - 1])
  BY <1>3, <1>4, <1>5
<1>8. \A i \in 1 .. n : i + 1 \in 1 .. n + 1 /\ more[i + 1] = list[i]
  BY <1>3, <1>4, <1>5
<1>9. Unlike(list)
  BY DEF Listing
<1>10. Unlike(more)
  <2> SUFFICES ASSUME NEW i \in 1 .. n + 1, NEW j \in 1 .. n + 1, more[i].tx = more[j].tx
               PROVE  i = j
    BY <1>4 DEF Unlike
  <2>1. CASE i = 1 /\ j = 1
    BY <2>1
  <2>2. CASE i = 1 /\ j # 1
    BY <1>1, <1>6, <1>7, <2>2
  <2>3. CASE i # 1 /\ j = 1
    BY <1>1, <1>6, <1>7, <2>3
  <2>4. CASE i # 1 /\ j # 1
    <3>1. /\ i - 1 \in DOMAIN list /\ more[i] = list[i - 1]
          /\ j - 1 \in DOMAIN list /\ more[j] = list[j - 1]
      BY <1>1, <1>7, <2>4
    <3>2. i - 1 = j - 1
      BY <1>9, <3>1 DEF Unlike
    <3> QED BY <1>5, <3>2
  <2> QED BY <2>1, <2>2, <2>3, <2>4
<1> QED BY <1>1, <1>3, <1>4, <1>6, <1>7, <1>8, <1>10 DEF more, n

LEMMA SettledIs ==
  ASSUME NEW list, Listing(list), NEW x, NEW status \in {"pending", "confirmed", "failed"}
  PROVE  LET new == Settled(list, x, status)
         IN  /\ Listing(new) /\ DOMAIN new = DOMAIN list /\ TxsOf(new) = TxsOf(list)
             /\ \A i \in DOMAIN list :
                  /\ new[i].tx = list[i].tx /\ new[i].account = list[i].account
                  /\ new[i].status = IF list[i].tx = x THEN status ELSE list[i].status
<1> DEFINE new == Settled(list, x, status)
           n == Len(list)
<1>1. n \in Nat /\ DOMAIN list = 1 .. n /\ list \in Seq(Item) /\ \A i \in 1 .. n : list[i] \in Item
  BY ListingIs DEF Listing
<1>2. new = [i \in 1 .. n |-> IF list[i].tx = x THEN [list[i] EXCEPT !.status = status] ELSE list[i]]
  BY <1>1 DEF Settled
<1>3. \A item \in Item : /\ [item EXCEPT !.status = status] \in Item
                         /\ [item EXCEPT !.status = status].tx = item.tx
                         /\ [item EXCEPT !.status = status].account = item.account
                         /\ [item EXCEPT !.status = status].status = status
  BY DEF Item
<1> HIDE DEF new, n
<1>4. /\ DOMAIN new = 1 .. n
      /\ \A i \in 1 .. n : new[i] = IF list[i].tx = x THEN [list[i] EXCEPT !.status = status] ELSE list[i]
  BY <1>2, Zenon
<1>5. ASSUME NEW i \in 1 .. n
      PROVE  /\ new[i] \in Item
             /\ new[i].tx = list[i].tx /\ new[i].account = list[i].account
             /\ new[i].status = IF list[i].tx = x THEN status ELSE list[i].status
  <2>1. list[i] \in Item
    BY <1>1
  <2>2. CASE list[i].tx = x
    <3>1. new[i] = [list[i] EXCEPT !.status = status]
      BY <1>4, <2>2
    <3> QED BY <1>3, <2>1, <2>2, <3>1
  <2>3. CASE list[i].tx # x
    <3>1. new[i] = list[i]
      BY <1>4, <2>3
    <3> QED BY <2>1, <2>3, <3>1
  <2> QED BY <2>2, <2>3
<1>6. new \in [1 .. n -> Item]
  <2>1. new = [i \in 1 .. n |-> new[i]]
    BY <1>2, <1>4, Zenon
  <2> QED BY <1>5, <2>1
<1>7. new \in Seq(Item) /\ Len(new) = n /\ DOMAIN new = 1 .. n
  BY <1>1, <1>6
<1>8. Unlike(new)
  BY <1>1, <1>5, <1>7 DEF Listing, Unlike
<1>9. TxsOf(new) = TxsOf(list)
  BY <1>1, <1>5, <1>7 DEF TxsOf
<1> QED BY <1>1, <1>5, <1>7, <1>8, <1>9 DEF new, n, Listing

(* What a filter leaves.                                                   *)
LEMMA FilteredIs ==
  ASSUME NEW list, Listing(list), NEW S
  PROVE  LET new == Without(list, S)
         IN  /\ Listing(new)
             /\ \A i \in DOMAIN new : new[i] \notin S /\ \E j \in DOMAIN list : list[j] = new[i]
             /\ \A j \in DOMAIN list : list[j] \notin S => \E i \in DOMAIN new : new[i] = list[j]
             /\ TxsOf(new) \subseteq TxsOf(list)
<1> DEFINE new == Without(list, S)
<1>1. list \in Seq(Item) /\ Len(list) \in Nat /\ Unlike(list) /\ Len(list) <= MAX_ITEMS
      /\ \A i \in DOMAIN list : list[i] \in Item
  BY ListingIs DEF Listing
<1>2. new \in Seq(Item) /\ Seqs!ToSet(new) = Seqs!ToSet(list) \ S /\ Len(new) <= Len(list)
  BY <1>1, WithoutPicks
<1>3. Len(new) \in Nat /\ \A i \in DOMAIN new : new[i] \in Item
  BY <1>2, ListingIs
<1>4. Len(new) <= MAX_ITEMS
  BY <1>1, <1>2, <1>3, ActivityAssumption, SMT
<1>5. Unlike(new)
  <2> DEFINE key == [item \in Item |-> item.tx]
  <2>1. \A i \in DOMAIN list : \A j \in DOMAIN list : key[list[i]] = key[list[j]] => i = j
    BY <1>1 DEF Unlike
  <2>2. \A i \in DOMAIN new : \A j \in DOMAIN new : key[new[i]] = key[new[j]] => i = j
    <3> HIDE DEF key
    <3> QED BY <1>1, <2>1, WithoutDistinct
  <2> HIDE DEF new
  <2> QED BY <1>3, <2>2 DEF Unlike
<1> HIDE DEF new
<1>6. \A i \in DOMAIN new : new[i] \notin S /\ \E j \in DOMAIN list : list[j] = new[i]
  BY <1>2 DEF Seqs!ToSet
<1>7. \A j \in DOMAIN list : list[j] \notin S => \E i \in DOMAIN new : new[i] = list[j]
  BY <1>2 DEF Seqs!ToSet
<1>8. TxsOf(new) \subseteq TxsOf(list)
  BY <1>6 DEF TxsOf
<1> QED BY <1>2, <1>4, <1>5, <1>6, <1>7, <1>8 DEF new, Listing

-----------------------------------------------------------------------------
(* What was asked for, by whom, and what became of it.                     *)

Recorded ==
  /\ chain \in [Tx -> {"unsent", "asked", "refused", "pending"} \cup Ended]
  /\ asker \in [Tx -> [tab : Tab \cup {"none"}, account : Account \cup {"none"}, attached : BOOLEAN]]
  /\ \A x \in Tx : chain[x] # "unsent" => asker[x].tab \in Tab /\ asker[x].account \in Account
  /\ open \in [Tab -> BOOLEAN] /\ account \in [Tab -> Account]
  /\ "ends" \in DOMAIN left /\ left["ends"] \subseteq Ended

(* What was sent stays so, for the same account, and ends once.            *)
Evolves ==
  /\ \A x \in Tx : Sent(x) =>
       /\ Sent(x)' /\ asker'[x].account = asker[x].account
       /\ chain[x] # "pending" => chain'[x] = chain[x]
  /\ misread \subseteq misread'

LEMMA RecordedAsBefore ==
  ASSUME Recorded, UNCHANGED <<chain, asker, open, account>>, misread \subseteq misread',
         "ends" \in DOMAIN left', left'["ends"] = left["ends"]
  PROVE  Recorded' /\ Evolves
BY DEF Recorded, Evolves, Sent, Ended

LEMMA UsesOther ==
  ASSUME Recorded, NEW bound, bound # "ends", Uses(bound)
  PROVE  "ends" \in DOMAIN left' /\ left'["ends"] = left["ends"]
BY DEF Recorded, Uses

LEMMA DetachedIs ==
  ASSUME Recorded, NEW t \in Tab, asker' = Detached(t)
  PROVE  /\ asker' \in [Tx -> [tab : Tab \cup {"none"}, account : Account \cup {"none"}, attached : BOOLEAN]]
         /\ \A x \in Tx : /\ asker'[x].tab = asker[x].tab /\ asker'[x].account = asker[x].account
                          /\ asker'[x].attached => asker[x].attached /\ asker[x].tab # t
<1> DEFINE A == [tab : Tab \cup {"none"}, account : Account \cup {"none"}, attached : BOOLEAN]
<1>1. \A a \in A : /\ [a EXCEPT !.attached = FALSE] \in A
                   /\ [a EXCEPT !.attached = FALSE].tab = a.tab
                   /\ [a EXCEPT !.attached = FALSE].account = a.account
                   /\ [a EXCEPT !.attached = FALSE].attached = FALSE
  OBVIOUS
<1>2. \A x \in Tx : asker[x] \in A
  BY DEF Recorded
<1> HIDE DEF A
<1>3. /\ DOMAIN asker' = Tx /\ asker' = [x \in Tx |-> asker'[x]]
      /\ \A x \in Tx : asker'[x] = IF asker[x].tab = t THEN [asker[x] EXCEPT !.attached = FALSE] ELSE asker[x]
  BY Zenon DEF Detached
<1>4. ASSUME NEW x \in Tx
      PROVE  /\ asker'[x] \in A /\ asker'[x].tab = asker[x].tab /\ asker'[x].account = asker[x].account
             /\ asker'[x].attached => asker[x].attached /\ asker[x].tab # t
  <2>1. CASE asker[x].tab = t
    <3>1. asker'[x] = [asker[x] EXCEPT !.attached = FALSE]
      BY <1>3, <2>1
    <3> QED BY <1>1, <1>2, <3>1
  <2>2. CASE asker[x].tab # t
    <3>1. asker'[x] = asker[x]
      BY <1>3, <2>2
    <3> QED BY <1>2, <2>2, <3>1
  <2> QED BY <2>1, <2>2
<1>5. asker' \in [Tx -> A]
  BY <1>3, <1>4
<1> QED BY <1>4, <1>5 DEF A

(* Another chain, with the rest as before.                                 *)
LEMMA ChainMoves ==
  ASSUME Recorded, NEW x \in Tx, chain[x] \in {"asked", "pending"},
         NEW stage, stage \in {"refused", "pending"} \cup Ended, stage = "refused" => chain[x] = "asked",
         chain' = [chain EXCEPT ![x] = stage], UNCHANGED <<asker, open, account, left, misread>>
  PROVE  Recorded' /\ Evolves
<1>1. chain' \in [Tx -> {"unsent", "asked", "refused", "pending"} \cup Ended]
  BY DEF Recorded
<1>2. \A z \in Tx : chain'[z] = IF z = x THEN stage ELSE chain[z]
  BY DEF Recorded
<1>3. Recorded'
  BY <1>1, <1>2 DEF Recorded
<1>4. ASSUME NEW z \in Tx, Sent(z)
      PROVE  Sent(z)' /\ (chain[z] # "pending" => chain'[z] = chain[z])
  <2>1. CASE z # x
    BY <1>2, <1>4, <2>1 DEF Sent
  <2>2. CASE z = x
    BY <1>2, <1>4, <2>2 DEF Sent, Ended
  <2> QED BY <2>1, <2>2
<1> QED BY <1>3, <1>4 DEF Evolves

LEMMA ActivityRecords ==
  ASSUME Recorded, ActivityNext
  PROVE  Recorded' /\ Evolves
<1>1. ASSUME NEW t \in Tab, LeaveForm(t) PROVE Recorded' /\ Evolves
  <2>1. "ends" \in DOMAIN left' /\ left'["ends"] = left["ends"]
    BY <1>1, UsesOther DEF LeaveForm
  <2>2. asker' = Detached(t) /\ UNCHANGED <<chain, open, account, misread>>
    BY <1>1 DEF LeaveForm, observers
  <2> QED BY <2>1, <2>2, DetachedIs DEF Recorded, Evolves, Sent, Ended
<1>2. ASSUME NEW t \in Tab, Clear(t) PROVE Recorded' /\ Evolves
  BY <1>2, RecordedAsBefore DEF Clear, wallet, Recorded
<1>3. ASSUME NEW t \in Tab, NEW a \in Account, SwitchAccount(t, a) PROVE Recorded' /\ Evolves
  <2>1. "ends" \in DOMAIN left' /\ left'["ends"] = left["ends"]
    BY <1>3, UsesOther DEF SwitchAccount
  <2>2. account' = [account EXCEPT ![t] = a] /\ UNCHANGED <<chain, asker, open, misread>>
    BY <1>3 DEF SwitchAccount, wallet, observers
  <2>3. account' \in [Tab -> Account]
    BY <2>2 DEF Recorded
  <2> QED BY <2>1, <2>2, <2>3 DEF Recorded, Evolves, Sent, Ended
<1>4. ASSUME NEW t \in Tab, NEW x \in Tx, Ask(t, x) PROVE Recorded' /\ Evolves
  <2> DEFINE new == [tab |-> t, account |-> account[t], attached |-> TRUE]
  <2>1. /\ chain[x] = "unsent" /\ chain' = [chain EXCEPT ![x] = "asked"]
        /\ asker' = [asker EXCEPT ![x] = new]
        /\ UNCHANGED <<open, account, left, misread>>
    BY <1>4 DEF Ask, observers
  <2>2. /\ new \in [tab : Tab \cup {"none"}, account : Account \cup {"none"}, attached : BOOLEAN]
        /\ new.tab \in Tab /\ new.account \in Account
    BY DEF Recorded
  <2> HIDE DEF new
  <2>3. /\ chain' \in [Tx -> {"unsent", "asked", "refused", "pending"} \cup Ended]
        /\ asker' \in [Tx -> [tab : Tab \cup {"none"}, account : Account \cup {"none"}, attached : BOOLEAN]]
    BY <2>1, <2>2 DEF Recorded
  <2>4. \A z \in Tx : /\ chain'[z] = IF z = x THEN "asked" ELSE chain[z]
                      /\ asker'[z] = IF z = x THEN new ELSE asker[z]
    BY <2>1 DEF Recorded
  <2>5. Recorded'
    BY <2>1, <2>2, <2>3, <2>4 DEF Recorded
  <2> QED BY <2>1, <2>4, <2>5 DEF Evolves, Sent
<1>5. ASSUME NEW t \in Tab, NEW x \in Tx, NoticeReceipt(t, x) PROVE Recorded' /\ Evolves
  BY <1>5, RecordedAsBefore DEF NoticeReceipt, wallet, observers, Recorded
<1>6. ASSUME NEW t \in Tab, NEW x \in Tx, NoticeError(t, x) PROVE Recorded' /\ Evolves
  <2>1. "ends" \in DOMAIN left' /\ left'["ends"] = left["ends"]
    BY <1>6, UsesOther DEF NoticeError
  <2> QED BY <1>6, <2>1, RecordedAsBefore DEF NoticeError, wallet
<1>7. ASSUME NEW t \in Tab, NEW x \in Tx, Dismiss(t, x) PROVE Recorded' /\ Evolves
  BY <1>7, RecordedAsBefore DEF Dismiss, wallet, Recorded
<1>8. ASSUME NEW x \in Tx, WalletRefuses(x) PROVE Recorded' /\ Evolves
  BY <1>8, ChainMoves DEF WalletRefuses, observers
<1>9. ASSUME NEW x \in Tx, WalletSends(x) PROVE Recorded' /\ Evolves
  BY <1>9, ChainMoves DEF WalletSends
<1>10. ASSUME NEW x \in Tx, Ends(x) PROVE Recorded' /\ Evolves
  <2>1. PICK end \in left["ends"] : chain' = [chain EXCEPT ![x] = end]
    BY <1>10 DEF Ends
  <2>2. end \in Ended
    BY DEF Recorded
  <2> QED BY <1>10, <2>1, <2>2, ChainMoves DEF Ends, observers, Ended
<1>11. ASSUME NEW x \in Tx, Ages(x) PROVE Recorded' /\ Evolves
  <2>1. "ends" \in DOMAIN left' /\ left'["ends"] = left["ends"]
    BY <1>11, UsesOther DEF Ages
  <2> QED BY <1>11, <2>1, RecordedAsBefore DEF Ages, observers
<1> QED BY <1>1, <1>2, <1>3, <1>4, <1>5, <1>6, <1>7, <1>8, <1>9, <1>10, <1>11 DEF ActivityNext

(* The steps of the pages, which leave the activity list alone.            *)
Aside ==
  /\ UNCHANGED <<wallet, stored, broken, mounting, open, account, all, watching, observers>>
  /\ "ends" \in DOMAIN left /\ "ends" \in DOMAIN left' /\ left'["ends"] = left["ends"]

LEMMA StepsAre ==
  ASSUME Recorded, [Next]_vars
  PROVE  \/ ActivityNext
         \/ \E t \in Tab : MountTab(t) \/ OpenTab(t) \/ CloseTab(t)
         \/ Aside
<1>1. "ends" \in DOMAIN left
  BY DEF Recorded
<1>2. ASSUME NEW bound, bound # "ends", StaysBut(bound) PROVE Aside
  BY <1>1, <1>2, UsesOther DEF StaysBut, Aside
<1>3. ASSUME NEW k, Counted(k) PROVE Aside
  BY <1>1, <1>3 DEF Counted, Aside
<1>4. ASSUME Stays PROVE Aside
  BY <1>1, <1>4 DEF Stays, Aside, activityVars
<1>5. ASSUME \/ CreatePair
             \/ \E i \in 1 .. Len(Pairs) : Trade(i)
             \/ \E t \in Tab :
                  \/ \E bps \in Slippages : SetSlippage(t, bps)
                  \/ \E minutes \in Deadlines : SetDeadline(t, minutes)
                  \/ ResetSettings(t)
                  \/ \E form \in Form, side \in Side :
                        PickToken(t, form, side) \/ ImportToken(t, form, side)
                  \/ RemoveToken(t) \/ FollowRow(t) \/ ManagePosition(t)
                  \/ \E i \in 1 .. Len(Pairs) : ReadDetailsAcross(t, i)
      PROVE  Aside
  BY <1>2, <1>5 DEF CreatePair, Trade, SetSlippage, SetDeadline, ResetSettings, PickToken,
       ImportToken, RemoveToken, FollowRow, ManagePosition, ReadDetailsAcross
<1>6. ASSUME NEW t \in Tab,
             \/ ReadCount(t) \/ ReadAddresses(t) \/ Refocus(t)
             \/ ReadDetails(t) \/ ReadMeta(t) \/ ReadBalances(t) \/ ReadFigures(t) \/ ReadFeed(t)
      PROVE  Aside
  BY <1>3, <1>4, <1>6 DEF ReadCount, ReadAddresses, Refocus, AddressesAnswered, ReadDetails, ReadMeta,
       ReadBalances, ReadFigures, ReadFeed
<1>7. CASE UNCHANGED vars
  BY <1>1, <1>7 DEF vars, activityVars, Aside
<1> QED BY <1>5, <1>6, <1>7 DEF Next

LEMMA NextRecords ==
  ASSUME Recorded, [Next]_vars
  PROVE  Recorded' /\ Evolves
<1>1. ASSUME NEW t \in Tab, Open(t) PROVE Recorded' /\ Evolves
  <2>1. open' = [open EXCEPT ![t] = TRUE] /\ UNCHANGED <<chain, asker, account, left, misread>>
    BY <1>1 DEF Open, wallet
  <2>2. open' \in [Tab -> BOOLEAN]
    BY <2>1 DEF Recorded
  <2> QED BY <2>1, <2>2 DEF Recorded, Evolves, Sent, Ended
<1>2. ASSUME NEW t \in Tab, Close(t) PROVE Recorded' /\ Evolves
  <2>1. "ends" \in DOMAIN left' /\ left'["ends"] = left["ends"]
    BY <1>2, UsesOther DEF Close
  <2>2. /\ asker' = Detached(t) /\ open' = [open EXCEPT ![t] = FALSE]
        /\ UNCHANGED <<chain, account, misread>>
    BY <1>2 DEF Close, observers
  <2>3. open' \in [Tab -> BOOLEAN]
    BY <2>2 DEF Recorded
  <2> QED BY <2>1, <2>2, <2>3, DetachedIs DEF Recorded, Evolves, Sent, Ended
<1>3. CASE Aside
  BY <1>3, RecordedAsBefore DEF Aside, wallet, observers
<1>4. ASSUME NEW t \in Tab, Mount(t) PROVE Recorded' /\ Evolves
  BY <1>4, RecordedAsBefore DEF Mount, wallet, observers, Recorded
<1> QED BY <1>1, <1>2, <1>3, <1>4, StepsAre, ActivityRecords DEF MountTab, OpenTab, CloseTab

(* So what an item says stays so.                                          *)
LEMMA StaysTrue ==
  ASSUME Evolves, NEW list, TrueList(list)
  PROVE  TrueList(list)'
<1> SUFFICES ASSUME NEW i \in DOMAIN list PROVE Truthful(list[i])'
  BY DEF TrueList, Listing, Unlike
<1>1. Truthful(list[i]) /\ list[i].tx \in Tx
  BY ListingIs DEF TrueList, Listing
<1> QED BY <1>1 DEF Evolves, Truthful, Sent

-----------------------------------------------------------------------------
(* Every list is true, and a tab that is closed has none.                  *)

TrueLists ==
  /\ DOMAIN all = Tab /\ DOMAIN watching = Tab
  /\ TrueList(stored) /\ \A t \in Tab : TrueList(all[t])

(* The tabs that were opened, and what those that are not, or no longer,   *)
(* open do not do.                                                         *)
TabsInv ==
  /\ opened \subseteq Tab /\ IsFiniteSet(opened)
  /\ \A t \in Tab : /\ open[t] => t \in opened /\ t \notin mounting
                    /\ ~open[t] => watching[t] = {}
                    /\ ~open[t] /\ t \notin mounting => all[t] = <<>>
                    /\ watching[t] \subseteq TxsOf(all[t])
  /\ \A x \in Tx : asker[x].attached => asker[x].tab \in Tab /\ open[asker[x].tab]

(* While one tab was opened only, the storage and its list agree, and so   *)
(* do the storage and what that tab has read when it is opened again.      *)
AloneInv ==
  ~broken =>
    /\ opened = {} => stored = <<>> /\ kept = {}
    /\ \A u \in Tab : opened \subseteq {u} /\ u \in mounting => all[u] = stored
    /\ \A u \in Tab : opened = {u} => TxsOf(stored) = kept /\ (open[u] => TxsOf(all[u]) = kept)

ActivityInv == Recorded /\ TrueLists /\ TabsInv /\ AloneInv

LEMMA EmptyList == TrueList(<<>>) /\ TrueList(<<>>)' /\ TxsOf(<<>>) = {}
<1>1. <<>> \in Seq(Item) /\ Len(<<>>) = 0 /\ DOMAIN <<>> = {}
  BY EmptySeq
<1>2. 0 <= MAX_ITEMS
  BY ActivityAssumption, SMT
<1> QED BY <1>1, <1>2 DEF TrueList, Listing, Unlike, TxsOf

LEMMA SetAllIs ==
  ASSUME TrueLists, NEW t \in Tab, NEW list, SetAll(t, list)
  PROVE  /\ DOMAIN all' = Tab /\ DOMAIN watching' = Tab
         /\ all'[t] = list /\ watching'[t] = Watchable(list)
         /\ \A u \in Tab : u # t => all'[u] = all[u] /\ watching'[u] = watching[u]
         /\ stored' = IF broken THEN stored ELSE Newest(list)
BY DEF TrueLists, SetAll

LEMMA SetAllTrue ==
  ASSUME TrueLists, Evolves, NEW t \in Tab, NEW list, SetAll(t, list), TrueList(list)'
  PROVE  TrueLists'
<1>1. TrueList(stored)'
  <2>1. CASE broken
    <3>1. stored' = stored
      BY <2>1 DEF SetAll
    <3> QED BY <3>1, StaysTrue DEF TrueLists
  <2>2. CASE ~broken
    <3> DEFINE new == Newest(list)
    <3>1. stored' = new
      BY <2>2 DEF SetAll
    <3>2. Listing(new) /\ \A i \in DOMAIN new : i \in DOMAIN list /\ new[i] = list[i]
      BY NewestIs DEF TrueList, Listing
    <3>3. \A i \in DOMAIN new : Truthful(new[i])'
      BY <3>2 DEF TrueList, Truthful, Sent
    <3> HIDE DEF new
    <3> QED BY <3>1, <3>2, <3>3 DEF TrueList, Listing, Unlike, Truthful, Sent
  <2> QED BY <2>1, <2>2
<1>2. ASSUME NEW u \in Tab PROVE TrueList(all[u])'
  <2>1. CASE u = t
    <3>1. all'[u] = list
      BY <2>1, SetAllIs
    <3> QED BY <3>1
  <2>2. CASE u # t
    <3>1. all'[u] = all[u] /\ TrueList(all[u])
      BY <2>2, SetAllIs DEF TrueLists
    <3> QED BY <3>1, StaysTrue
  <2> QED BY <2>1, <2>2
<1> QED BY <1>1, <1>2, SetAllIs DEF TrueLists

LEMMA SameLists ==
  ASSUME TrueLists, Evolves, UNCHANGED <<all, watching, stored>>
  PROVE  TrueLists'
<1>2. TrueList(stored)'
  BY StaysTrue DEF TrueLists
<1>3. ASSUME NEW u \in Tab PROVE TrueList(all[u])'
  BY StaysTrue DEF TrueLists
<1> QED BY <1>2, <1>3 DEF TrueLists

LEMMA FilteredTrue ==
  ASSUME NEW list, TrueList(list), NEW S
  PROVE  TrueList(Without(list, S))
<1> DEFINE new == Without(list, S)
<1>1. Listing(new) /\ \A i \in DOMAIN new : \E j \in DOMAIN list : list[j] = new[i]
  BY FilteredIs DEF TrueList
<1> HIDE DEF new
<1>2. \A i \in DOMAIN new : Truthful(new[i])
  BY <1>1 DEF TrueList
<1> QED BY <1>1, <1>2 DEF TrueList, new

LEMMA SettledTrue ==
  ASSUME Evolves, NEW list, TrueList(list), NEW x \in Tx, NEW status \in {"confirmed", "failed"},
         status = "confirmed" => chain'[x] \in {"mined", "replaced"},
         status = "failed" => chain'[x] \in {"reverted", "replacedReverted"} \/ x \in misread'
  PROVE  TrueList(Settled(list, x, status))'
<1> DEFINE new == Settled(list, x, status)
<1>1. /\ Listing(new) /\ DOMAIN new = DOMAIN list
      /\ \A i \in DOMAIN list :
           /\ new[i].tx = list[i].tx /\ new[i].account = list[i].account
           /\ new[i].status = IF list[i].tx = x THEN status ELSE list[i].status
  BY SettledIs DEF TrueList
<1>2. \A i \in DOMAIN list : Truthful(list[i])'
  BY StaysTrue DEF TrueList
<1> HIDE DEF new
<1>3. ASSUME NEW i \in DOMAIN new PROVE Truthful(new[i])'
  <2>1. i \in DOMAIN list
    BY <1>1
  <2>2. CASE list[i].tx = x
    BY <1>1, <1>2, <2>1, <2>2 DEF Truthful, Sent
  <2>3. CASE list[i].tx # x
    BY <1>1, <1>2, <2>1, <2>3 DEF Truthful, Sent
  <2> QED BY <2>2, <2>3
<1>4. Listing(new)'
  BY <1>1 DEF Listing, Unlike
<1>5. TrueList(new)'
  BY <1>3, <1>4 DEF TrueList
<1> QED BY <1>5 DEF new

(* What track makes of the list of the tab that asked.                     *)
LEMMA TrackedIs ==
  ASSUME Recorded, TrueLists, NEW x \in Tx, chain[x] # "unsent"
  PROVE  LET list == all[asker[x].tab]
             item == [tx |-> x, account |-> asker[x].account, status |-> "pending"]
             new == Tracked(x)
         IN  /\ Listing(new) /\ x \in TxsOf(new)
             /\ \A i \in DOMAIN new : new[i] = item \/ \E j \in DOMAIN list : new[i] = list[j]
             /\ TxsOf(new) \subseteq TxsOf(list) \cup {x}
             /\ \/ new = list
                \/ /\ x \notin TxsOf(list)
                   /\ Len(list) < MAX_ITEMS => TxsOf(list) \subseteq TxsOf(new)
<1> DEFINE list == all[asker[x].tab]
           item == [tx |-> x, account |-> asker[x].account, status |-> "pending"]
           more == <<item>> \o list
           new == Tracked(x)
<1>1. TrueList(list) /\ item \in Item /\ item.tx = x
  BY DEF Recorded, TrueLists, Item
<1>2. Listing(list) /\ Len(list) \in Nat
  BY <1>1, ListingIs DEF TrueList, Listing
<1>3. new = IF x \in TxsOf(list) THEN list ELSE Newest(more)
  BY DEF Tracked, RecordedAccount
<1> HIDE DEF list, item
<1>4. CASE x \in TxsOf(list)
  BY <1>2, <1>3, <1>4 DEF list
<1>5. CASE x \notin TxsOf(list)
  <2>1. /\ more \in Seq(Item) /\ Unlike(more) /\ Len(more) = Len(list) + 1
        /\ more[1] = item
        /\ \A i \in DOMAIN more : i = 1 \/ (i - 1 \in DOMAIN list /\ more[i] = list[i - 1])
        /\ \A i \in DOMAIN list : i + 1 \in DOMAIN more /\ more[i + 1] = list[i]
    BY <1>1, <1>2, <1>5, PushedIs
  <2>2. Len(more) > 0 /\ (Len(list) < MAX_ITEMS => Len(more) <= MAX_ITEMS)
    BY <1>2, <2>1, ActivityAssumption, SMT
  <2>3. new = Newest(more)
    BY <1>3, <1>5
  <2> HIDE DEF new, more
  <2>4. /\ Listing(new) /\ \A i \in DOMAIN new : i \in DOMAIN more /\ new[i] = more[i]
        /\ Len(more) <= MAX_ITEMS => new = more
        /\ 1 \in DOMAIN new
    BY <2>1, <2>2, <2>3, NewestIs
  <2>5. \A i \in DOMAIN new : new[i] = item \/ \E j \in DOMAIN list : new[i] = list[j]
    BY <2>1, <2>4
  <2>6. x \in TxsOf(new)
    BY <1>1, <2>1, <2>4 DEF TxsOf
  <2>7. TxsOf(new) \subseteq TxsOf(list) \cup {x}
    BY <1>1, <2>5 DEF TxsOf
  <2>8. Len(list) < MAX_ITEMS => TxsOf(list) \subseteq TxsOf(new)
    BY <2>1, <2>2, <2>4 DEF TxsOf
  <2> QED BY <1>5, <2>4, <2>5, <2>6, <2>7, <2>8 DEF list, item, new
<1> QED BY <1>4, <1>5

LEMMA NowTrue ==
  ASSUME NEW list, Listing(list), \A i \in DOMAIN list : Truthful(list[i])'
  PROVE  TrueList(list)'
BY DEF TrueList, Listing, Unlike

LEMMA StillTruthful ==
  ASSUME Evolves, NEW list, TrueList(list)
  PROVE  \A i \in DOMAIN list : Truthful(list[i])'
BY StaysTrue DEF TrueList

LEMMA WalletSendsTrue ==
  ASSUME Recorded, TrueLists, Evolves, NEW x \in Tx, WalletSends(x)
  PROVE  TrueLists'
<1>1. CASE ~asker[x].attached
  BY <1>1, SameLists DEF WalletSends
<1>2. CASE asker[x].attached
  <2>1. PICK t \in Tab : t = asker[x].tab
    BY DEF WalletSends, Recorded
  <2>2. PICK new : new = Tracked(x)
    OBVIOUS
  <2>3. PICK old : old = all[t]
    OBVIOUS
  <2>4. PICK item : item = [tx |-> x, account |-> asker[x].account, status |-> "pending"]
    OBVIOUS
  <2>5. SetAll(t, new) /\ chain[x] = "asked" /\ chain'[x] = "pending" /\ asker' = asker
    BY <1>2, <2>1, <2>2 DEF WalletSends, Recorded
  <2>6. Listing(new) /\ \A i \in DOMAIN new : new[i] = item \/ \E j \in DOMAIN old : new[i] = old[j]
    BY <2>1, <2>2, <2>3, <2>4, <2>5, TrackedIs
  <2>7. Truthful(item)'
    BY <2>4, <2>5 DEF Truthful, Sent
  <2>8. \A j \in DOMAIN old : Truthful(old[j])'
    <3>1. TrueList(old)
      BY <2>3 DEF TrueLists
    <3> QED BY <3>1, StillTruthful
  <2>9. \A i \in DOMAIN new : Truthful(new[i])'
    BY <2>6, <2>7, <2>8
  <2>10. TrueList(new)'
    BY <2>6, <2>9, NowTrue
  <2> QED BY <2>5, <2>10, SetAllTrue
<1> QED BY <1>1, <1>2

(* A list that a tab or the storage has, settled or filtered.              *)
LEMMA NoticeTrue ==
  ASSUME Recorded, TrueLists, Evolves, NEW t \in Tab, NEW x \in Tx,
         NoticeReceipt(t, x) \/ NoticeError(t, x)
  PROVE  TrueLists'
<1>1. PICK status : status = IF NoticeReceipt(t, x) THEN Verdict(x) ELSE "failed"
  OBVIOUS
<1>2. PICK old : old = all[t]
  OBVIOUS
<1>3. PICK new : new = Settled(old, x, status)
  OBVIOUS
<1>4. status \in {"confirmed", "failed"}
  BY <1>1 DEF Verdict
<1>5. /\ SetAll(t, new)
      /\ status = "confirmed" => chain'[x] \in {"mined", "replaced"}
      /\ status = "failed" => chain'[x] \in {"reverted", "replacedReverted"} \/ x \in misread'
  <2>1. CASE NoticeReceipt(t, x)
    BY <1>1, <1>2, <1>3, <2>1 DEF NoticeReceipt, Verdict, Landed, Ended, wallet
  <2>2. CASE ~NoticeReceipt(t, x)
    BY <1>1, <1>2, <1>3, <2>2 DEF NoticeError
  <2> QED BY <2>1, <2>2
<1>6. TrueList(old)
  BY <1>2 DEF TrueLists
<1>7. TrueList(new)'
  BY <1>3, <1>4, <1>5, <1>6, SettledTrue
<1> QED BY <1>5, <1>7, SetAllTrue

LEMMA DropTrue ==
  ASSUME TrueLists, Evolves, NEW t \in Tab, (\E x \in Tx : Dismiss(t, x)) \/ Clear(t)
  PROVE  TrueLists'
<1>1. PICK S : SetAll(t, Without(all[t], S))
  BY DEF Dismiss, Clear
<1>2. PICK new : new = Without(all[t], S)
  OBVIOUS
<1>3. TrueList(new)
  BY <1>2, FilteredTrue DEF TrueLists
<1>4. TrueList(new)'
  BY <1>3, StaysTrue
<1> QED BY <1>1, <1>2, <1>4, SetAllTrue

LEMMA OpenTrue ==
  ASSUME TrueLists, Evolves, NEW t \in Tab, Open(t)
  PROVE  TrueLists'
<1>1. PICK new : new = all[t]
  OBVIOUS
<1>2. SetAll(t, new) /\ TrueList(new)
  BY <1>1 DEF Open, TrueLists
<1>3. TrueList(new)'
  BY <1>2, StaysTrue
<1> QED BY <1>2, <1>3, SetAllTrue

LEMMA MountTrue ==
  ASSUME TrueLists, Evolves, NEW t \in Tab, Mount(t)
  PROVE  TrueLists'
<1>1. /\ stored' = stored /\ DOMAIN all' = Tab /\ DOMAIN watching' = Tab
      /\ \A u \in Tab : all'[u] = IF u = t THEN stored ELSE all[u]
  BY DEF TrueLists, Mount, Hydrated, FirstWrite
<1>2. TrueList(stored)'
  BY <1>1, StaysTrue DEF TrueLists
<1>3. ASSUME NEW u \in Tab PROVE TrueList(all[u])'
  <2>1. PICK list : list = all'[u]
    OBVIOUS
  <2>2. TrueList(list)
    BY <1>1, <2>1 DEF TrueLists
  <2> QED BY <2>1, <2>2, StaysTrue
<1> QED BY <1>1, <1>2, <1>3 DEF TrueLists

LEMMA CloseTrue ==
  ASSUME TrueLists, Evolves, NEW t \in Tab, Close(t)
  PROVE  TrueLists'
<1>1. /\ stored' = stored /\ DOMAIN all' = Tab /\ DOMAIN watching' = Tab
      /\ \A u \in Tab : all'[u] = IF u = t THEN <<>> ELSE all[u]
  BY DEF TrueLists, Close
<1>2. TrueList(stored)'
  BY <1>1, StaysTrue DEF TrueLists
<1>3. ASSUME NEW u \in Tab PROVE TrueList(all[u])'
  <2>1. CASE u = t
    <3>1. all'[u] = <<>>
      BY <1>1, <2>1
    <3> QED BY <3>1, EmptyList
  <2>2. CASE u # t
    <3>1. all'[u] = all[u] /\ TrueList(all[u])
      BY <1>1, <2>2 DEF TrueLists
    <3> QED BY <3>1, StaysTrue
  <2> QED BY <2>1, <2>2
<1> QED BY <1>1, <1>2, <1>3 DEF TrueLists

LEMMA NextTrueLists ==
  ASSUME Recorded, TrueLists, [Next]_vars
  PROVE  TrueLists'
<1>1. Evolves
  BY NextRecords
<1>2. ASSUME NEW t \in Tab, Mount(t) \/ Open(t) \/ Close(t) PROVE TrueLists'
  BY <1>1, <1>2, MountTrue, OpenTrue, CloseTrue
<1>3. CASE Aside
  BY <1>1, <1>3, SameLists DEF Aside
<1>4. CASE ActivityNext
  <2>1. ASSUME NEW t \in Tab, LeaveForm(t) \/ (\E a \in Account : SwitchAccount(t, a)) \/ (\E x \in Tx : Ask(t, x))
        PROVE  TrueLists'
    BY <1>1, <2>1, SameLists DEF LeaveForm, SwitchAccount, Ask
  <2>2. ASSUME NEW t \in Tab, Clear(t) \/ (\E x \in Tx : Dismiss(t, x))
        PROVE  TrueLists'
    BY <1>1, <2>2, DropTrue
  <2>3. ASSUME NEW t \in Tab, NEW x \in Tx, NoticeReceipt(t, x) \/ NoticeError(t, x)
        PROVE  TrueLists'
    BY <1>1, <2>3, NoticeTrue
  <2>4. ASSUME NEW x \in Tx, WalletSends(x) PROVE TrueLists'
    BY <1>1, <2>4, WalletSendsTrue
  <2>5. ASSUME NEW x \in Tx, WalletRefuses(x) \/ Ends(x) \/ Ages(x) PROVE TrueLists'
    BY <1>1, <2>5, SameLists DEF WalletRefuses, Ends, Ages
  <2> QED BY <1>4, <2>1, <2>2, <2>3, <2>4, <2>5 DEF ActivityNext
<1> QED BY <1>2, <1>3, <1>4, StepsAre DEF MountTab, OpenTab, CloseTab

LEMMA WatchedAreListed ==
  ASSUME NEW list
  PROVE  Watchable(list) \subseteq TxsOf(list)
BY DEF Watchable, TxsOf

(* A list is changed in an open tab only.                                  *)
LEMMA NoticedInOpen ==
  ASSUME TrueLists, TabsInv, NEW t \in Tab, NEW x, x \in watching[t]
  PROVE  open[t] /\ x \in TxsOf(all[t])
BY EmptyList DEF TabsInv

LEMMA SetAllTabs ==
  ASSUME TrueLists, TabsInv, NEW t \in Tab, NEW list, SetAll(t, list),
         \A u \in Tab : u # t => open'[u] = open[u], open'[t],
         opened' = opened \cup {t}, asker' = asker, mounting' = mounting \ {t}
  PROVE  TabsInv'
<1>1. opened' \subseteq Tab /\ IsFiniteSet(opened')
  BY FS_AddElement DEF TabsInv
<1>2. ASSUME NEW u \in Tab
      PROVE  /\ open'[u] => u \in opened' /\ u \notin mounting'
             /\ ~open'[u] => watching'[u] = {}
             /\ ~open'[u] /\ u \notin mounting' => all'[u] = <<>>
             /\ watching'[u] \subseteq TxsOf(all'[u])
  <2>1. CASE u = t
    BY <2>1, SetAllIs, WatchedAreListed
  <2>2. CASE u # t
    BY <2>2, SetAllIs DEF TabsInv
  <2> QED BY <2>1, <2>2
<1>3. \A x \in Tx : asker'[x].attached => asker'[x].tab \in Tab /\ open'[asker'[x].tab]
  BY DEF TabsInv
<1> QED BY <1>1, <1>2, <1>3 DEF TabsInv, TxsOf

LEMMA SetAllAlone ==
  ASSUME TrueLists, AloneInv, NEW t \in Tab, NEW list, Listing(list), SetAll(t, list),
         broken' = broken, opened' = opened \cup {t}, mounting' = mounting \ {t},
         ~broken /\ (opened = {} \/ opened = {t}) => kept' = TxsOf(list)
  PROVE  AloneInv'
<1>4. \A u : u \in mounting' => ~(opened' \subseteq {u})
  OBVIOUS
<1> SUFFICES ASSUME ~broken, NEW u \in Tab, opened' = {u}
             PROVE  TxsOf(stored)' = kept' /\ (open'[u] => TxsOf(all[u])' = kept')
  BY <1>4 DEF AloneInv
<1>1. u = t /\ (opened = {} \/ opened = {t})
  OBVIOUS
<1>2. Newest(list) = list
  BY NewestIs DEF Listing
<1>3. stored' = list /\ all'[u] = list
  BY <1>1, <1>2, SetAllIs
<1> QED BY <1>1, <1>3 DEF TxsOf

(* What an operation on the list of one tab gives.                         *)
LEMMA SetAllSteps ==
  ASSUME Recorded, TrueLists, TabsInv, AloneInv, NEW t \in Tab,
         \/ Open(t) \/ Clear(t)
         \/ \E x \in Tx : \/ Dismiss(t, x) \/ NoticeReceipt(t, x) \/ NoticeError(t, x)
                          \/ WalletSends(x) /\ asker[x].attached /\ asker[x].tab = t
  PROVE  \E list :
           /\ SetAll(t, list) /\ Listing(list) /\ (\A u \in Tab : u # t => open'[u] = open[u]) /\ open'[t]
           /\ opened' = opened \cup {t} /\ mounting' = mounting \ {t} /\ asker' = asker /\ broken' = broken
           /\ ~broken /\ (opened = {} \/ opened = {t}) => kept' = TxsOf(list)
<1>1. Listing(all[t]) /\ Listing(stored)
  BY DEF TrueLists, TrueList
<1>2. ASSUME open[t]
      PROVE  /\ opened = opened \cup {t} /\ opened # {} /\ mounting = mounting \ {t}
             /\ ~broken /\ opened = {t} => TxsOf(all[t]) = kept
  BY <1>2 DEF TabsInv, AloneInv
<1>3. CASE Open(t)
  <2>1. /\ SetAll(t, all[t]) /\ open' = [open EXCEPT ![t] = TRUE] /\ mounting' = mounting \ {t}
        /\ opened' = opened \cup {t} /\ asker' = asker /\ broken' = broken /\ kept' = kept
    BY <1>3 DEF Open, wallet
  <2>2. (\A u \in Tab : u # t => open'[u] = open[u]) /\ open'[t]
    BY <2>1 DEF Recorded
  <2>3. ~broken /\ (opened = {} \/ opened = {t}) => kept = TxsOf(all[t])
    <3>1. ~broken /\ opened \subseteq {t} => all[t] = stored
      BY <1>3 DEF AloneInv, Open
    <3>2. ~broken /\ (opened = {} \/ opened = {t}) => kept = TxsOf(stored)
      BY EmptyList DEF AloneInv
    <3> QED BY <3>1, <3>2
  <2> QED BY <1>1, <2>1, <2>2, <2>3
<1>4. CASE Clear(t)
  <2>1. PICK S : /\ SetAll(t, Without(all[t], S)) /\ open[t]
                 /\ kept' = kept \ (TxsOf(all[t]) \ TxsOf(Without(all[t], S)))
                 /\ UNCHANGED <<asker, broken, mounting, open, opened>>
    BY <1>4 DEF Clear, wallet
  <2>2. Listing(Without(all[t], S)) /\ TxsOf(Without(all[t], S)) \subseteq TxsOf(all[t])
    BY <1>1, FilteredIs
  <2>3. ~broken /\ (opened = {} \/ opened = {t}) => kept' = TxsOf(Without(all[t], S))
    BY <1>2, <2>1, <2>2
  <2> QED BY <1>2, <2>1, <2>2, <2>3
<1>5. ASSUME NEW x \in Tx, Dismiss(t, x)
      PROVE  \E list :
           /\ SetAll(t, list) /\ Listing(list) /\ (\A u \in Tab : u # t => open'[u] = open[u]) /\ open'[t]
           /\ opened' = opened \cup {t} /\ mounting' = mounting \ {t} /\ asker' = asker /\ broken' = broken
           /\ ~broken /\ (opened = {} \/ opened = {t}) => kept' = TxsOf(list)
  <2> DEFINE S == {item \in Seqs!ToSet(all[t]) : item.tx = x}
             new == Without(all[t], S)
  <2>1. /\ SetAll(t, new) /\ open[t] /\ kept' = kept \ {x}
        /\ UNCHANGED <<asker, broken, mounting, open, opened>>
    BY <1>5 DEF Dismiss, wallet
  <2> HIDE DEF S
  <2>2. /\ Listing(new) /\ TxsOf(new) \subseteq TxsOf(all[t])
        /\ \A i \in DOMAIN new : new[i] \notin S /\ \E j \in DOMAIN all[t] : all[t][j] = new[i]
        /\ \A j \in DOMAIN all[t] : all[t][j] \notin S => \E i \in DOMAIN new : new[i] = all[t][j]
    BY <1>1, FilteredIs
  <2>3. \A j \in DOMAIN all[t] : all[t][j] \in S <=> all[t][j].tx = x
    BY DEF S, Seqs!ToSet
  <2> HIDE DEF new
  <2>4. TxsOf(new) = TxsOf(all[t]) \ {x}
    BY <2>2, <2>3 DEF TxsOf
  <2>5. ~broken /\ (opened = {} \/ opened = {t}) => kept' = TxsOf(new)
    BY <1>2, <2>1, <2>4
  <2> QED BY <1>2, <2>1, <2>2, <2>5
<1>6. ASSUME NEW x \in Tx, NoticeReceipt(t, x) \/ NoticeError(t, x)
      PROVE  \E list :
           /\ SetAll(t, list) /\ Listing(list) /\ (\A u \in Tab : u # t => open'[u] = open[u]) /\ open'[t]
           /\ opened' = opened \cup {t} /\ mounting' = mounting \ {t} /\ asker' = asker /\ broken' = broken
           /\ ~broken /\ (opened = {} \/ opened = {t}) => kept' = TxsOf(list)
  <2>1. PICK status \in {"confirmed", "failed"} : SetAll(t, Settled(all[t], x, status))
    BY <1>6 DEF NoticeReceipt, NoticeError, Verdict
  <2>2. UNCHANGED <<asker, broken, mounting, open, opened, kept>> /\ x \in watching[t]
    BY <1>6 DEF NoticeReceipt, NoticeError, observers, wallet
  <2>3. open[t]
    BY <2>2, NoticedInOpen
  <2>4. Listing(Settled(all[t], x, status)) /\ TxsOf(Settled(all[t], x, status)) = TxsOf(all[t])
    BY <1>1, SettledIs
  <2>5. ~broken /\ (opened = {} \/ opened = {t}) => kept' = TxsOf(Settled(all[t], x, status))
    BY <1>2, <2>2, <2>3, <2>4
  <2> QED BY <1>2, <2>1, <2>2, <2>3, <2>4, <2>5
<1>7. ASSUME NEW x \in Tx, WalletSends(x), asker[x].attached, asker[x].tab = t
      PROVE  \E list :
           /\ SetAll(t, list) /\ Listing(list) /\ (\A u \in Tab : u # t => open'[u] = open[u]) /\ open'[t]
           /\ opened' = opened \cup {t} /\ mounting' = mounting \ {t} /\ asker' = asker /\ broken' = broken
           /\ ~broken /\ (opened = {} \/ opened = {t}) => kept' = TxsOf(list)
  <2> DEFINE new == Tracked(x)
  <2>1. /\ SetAll(t, new) /\ kept' = (kept \cup {x}) \ (TxsOf(all[t]) \ TxsOf(new))
        /\ UNCHANGED <<asker, broken, mounting, open, opened>> /\ chain[x] # "unsent"
    BY <1>7 DEF WalletSends
  <2>2. open[t]
    BY <1>7 DEF TabsInv
  <2>3. Listing(new) /\ x \in TxsOf(new) /\ TxsOf(new) \subseteq TxsOf(all[t]) \cup {x}
    BY <1>7, <2>1, TrackedIs
  <2> HIDE DEF new
  <2>4. ~broken /\ (opened = {} \/ opened = {t}) => kept' = TxsOf(new)
    BY <1>2, <2>1, <2>2, <2>3
  <2> QED BY <1>2, <2>1, <2>2, <2>3, <2>4
<1> QED BY <1>3, <1>4, <1>5, <1>6, <1>7

LEMMA NextTabs ==
  ASSUME Recorded, TrueLists, TabsInv, AloneInv, [Next]_vars
  PROVE  TabsInv' /\ AloneInv'
<1>1. ASSUME NEW t \in Tab,
             \/ Open(t) \/ Clear(t)
             \/ \E x \in Tx : \/ Dismiss(t, x) \/ NoticeReceipt(t, x) \/ NoticeError(t, x)
                              \/ WalletSends(x) /\ asker[x].attached /\ asker[x].tab = t
      PROVE  TabsInv' /\ AloneInv'
  <2>1. PICK list :
           /\ SetAll(t, list) /\ Listing(list) /\ (\A u \in Tab : u # t => open'[u] = open[u]) /\ open'[t]
           /\ opened' = opened \cup {t} /\ mounting' = mounting \ {t} /\ asker' = asker /\ broken' = broken
           /\ ~broken /\ (opened = {} \/ opened = {t}) => kept' = TxsOf(list)
    BY <1>1, SetAllSteps
  <2>2. TabsInv'
    BY <2>1, SetAllTabs
  <2>3. AloneInv'
    BY <2>1, SetAllAlone
  <2> QED BY <2>2, <2>3
<1>2. ASSUME UNCHANGED <<stored, broken, mounting, open, all, watching, opened, kept>>,
             \A x \in Tx : asker'[x].attached => asker'[x].tab \in Tab /\ open[asker'[x].tab]
      PROVE  TabsInv' /\ AloneInv'
  BY <1>2 DEF TabsInv, AloneInv, TxsOf
<1>3. ASSUME NEW t \in Tab, Close(t) PROVE TabsInv' /\ AloneInv'
  <2>1. /\ asker' = Detached(t) /\ UNCHANGED <<stored, broken, opened, kept>>
        /\ mounting' = mounting \ {t}
        /\ \A u \in Tab : /\ all'[u] = IF u = t THEN <<>> ELSE all[u]
                          /\ watching'[u] = IF u = t THEN {} ELSE watching[u]
                          /\ open'[u] = IF u = t THEN FALSE ELSE open[u]
    BY <1>3 DEF Close, observers, TrueLists, Recorded
  <2>2. \A x \in Tx : asker'[x].attached => asker'[x].tab \in Tab /\ open'[asker'[x].tab]
    <3> SUFFICES ASSUME NEW x \in Tx, asker'[x].attached
                 PROVE  asker'[x].tab \in Tab /\ open'[asker'[x].tab]
      OBVIOUS
    <3>1. asker'[x].tab = asker[x].tab /\ asker[x].attached /\ asker[x].tab # t
      BY <2>1, DetachedIs
    <3> QED BY <2>1, <3>1 DEF TabsInv
  <2>3. ASSUME NEW u \in Tab
        PROVE  /\ open'[u] => u \in opened' /\ u \notin mounting'
               /\ ~open'[u] => watching'[u] = {}
               /\ ~open'[u] /\ u \notin mounting' => all'[u] = <<>>
               /\ watching'[u] \subseteq TxsOf(all'[u])
    BY <2>1 DEF TabsInv
  <2>4. TabsInv'
    BY <2>1, <2>2, <2>3 DEF TabsInv, TxsOf
  <2>5. AloneInv'
    <3>1. \A u \in Tab : (open'[u] => open[u] /\ all'[u] = all[u]) 
      BY <2>1
    <3>2. \A u \in Tab : open'[u] => TxsOf(all[u])' = TxsOf(all[u])
      BY <3>1 DEF TxsOf
    <3>3. TxsOf(stored)' = TxsOf(stored)
      BY <2>1 DEF TxsOf
    <3>4. \A u \in Tab : u \in mounting' => u \in mounting /\ all'[u] = all[u]
      BY <2>1
    <3> QED BY <2>1, <3>1, <3>2, <3>3, <3>4 DEF AloneInv
  <2> QED BY <2>4, <2>5
<1>4. CASE Aside
  BY <1>2, <1>4 DEF Aside, wallet, observers, TabsInv
<1>5. CASE ActivityNext
  <2>1. ASSUME NEW t \in Tab, LeaveForm(t) PROVE TabsInv' /\ AloneInv'
    <3>1. asker' = Detached(t) /\ UNCHANGED <<stored, broken, mounting, open, all, watching, opened, kept>>
      BY <2>1 DEF LeaveForm, observers
    <3>2. \A x \in Tx : asker'[x].tab = asker[x].tab /\ (asker'[x].attached => asker[x].attached)
      BY <3>1, DetachedIs
    <3> QED BY <1>2, <3>1, <3>2 DEF TabsInv
  <2>2. ASSUME NEW t \in Tab, NEW a \in Account, SwitchAccount(t, a) PROVE TabsInv' /\ AloneInv'
    BY <1>2, <2>2 DEF SwitchAccount, wallet, observers, TabsInv
  <2>3. ASSUME NEW t \in Tab, NEW x \in Tx, Ask(t, x) PROVE TabsInv' /\ AloneInv'
    <3>1. /\ asker' = [asker EXCEPT ![x] = [tab |-> t, account |-> account[t], attached |-> TRUE]]
          /\ UNCHANGED <<stored, broken, mounting, open, all, watching, opened, kept>> /\ open[t]
      BY <2>3 DEF Ask, observers
    <3>2. \A z \in Tx : asker'[z].attached => asker'[z].tab \in Tab /\ open[asker'[z].tab]
      BY <3>1 DEF TabsInv, Recorded
    <3> QED BY <1>2, <3>1, <3>2
  <2>4. ASSUME NEW x \in Tx, WalletSends(x) PROVE TabsInv' /\ AloneInv'
    <3>1. CASE asker[x].attached
      <4>1. asker[x].tab \in Tab
        BY <3>1 DEF TabsInv
      <4> QED BY <1>1, <2>4, <3>1, <4>1
    <3>2. CASE ~asker[x].attached
      BY <1>2, <2>4, <3>2 DEF WalletSends, TabsInv
    <3> QED BY <3>1, <3>2
  <2>5. ASSUME NEW x \in Tx, WalletRefuses(x) \/ Ends(x) \/ Ages(x) PROVE TabsInv' /\ AloneInv'
    BY <1>2, <2>5 DEF WalletRefuses, Ends, Ages, observers, TabsInv
  <2> QED BY <1>1, <1>5, <2>1, <2>2, <2>3, <2>4, <2>5 DEF ActivityNext
<1>6. ASSUME NEW t \in Tab, Mount(t) PROVE TabsInv' /\ AloneInv'
  <2>1. /\ mounting' = mounting \cup {t} /\ ~open[t]
        /\ UNCHANGED <<stored, broken, open, watching, asker, opened, kept>>
        /\ \A u \in Tab : all'[u] = IF u = t THEN stored ELSE all[u]
    BY <1>6 DEF Mount, Hydrated, FirstWrite, wallet, observers, TrueLists
  <2>2. ASSUME NEW u \in Tab
        PROVE  /\ open'[u] => u \in opened' /\ u \notin mounting' /\ all'[u] = all[u]
               /\ ~open'[u] => watching'[u] = {}
               /\ ~open'[u] /\ u \notin mounting' => all'[u] = <<>>
               /\ watching'[u] \subseteq TxsOf(all'[u])
    BY <2>1 DEF TabsInv
  <2>3. TabsInv'
    BY <2>1, <2>2 DEF TabsInv, TxsOf
  <2>4. AloneInv'
    BY <2>1, <2>2 DEF AloneInv, TxsOf
  <2> QED BY <2>3, <2>4
<1> QED BY <1>1, <1>3, <1>4, <1>5, <1>6, StepsAre DEF MountTab, OpenTab, CloseTab

LEMMA InitActivity == Init => ActivityInv
<1> SUFFICES ASSUME Init PROVE ActivityInv
  OBVIOUS
<1>1. PICK o \in Openings : ActivityInit(o)
  BY DEF Init
<1>2. /\ o.account \in Account
      /\ "ends" \in DOMAIN o.bounds /\ o.bounds["ends"] \subseteq Ended
  BY OpeningsAssumption DEF Ended
<1>3. Recorded
  BY <1>1, <1>2 DEF ActivityInit, Recorded, Unasked
<1>4. /\ DOMAIN all = Tab /\ DOMAIN watching = Tab /\ stored = <<>>
      /\ \A t \in Tab : all[t] = <<>> /\ watching[t] = {} /\ open[t] = FALSE
      /\ mounting = {} /\ opened = {} /\ kept = {} /\ \A x \in Tx : asker[x].attached = FALSE
  BY <1>1 DEF ActivityInit, Unasked
<1>5. TrueLists
  BY <1>4, EmptyList DEF TrueLists
<1>6. TabsInv
  BY <1>4, FS_EmptySet DEF TabsInv
<1>7. AloneInv
  BY <1>4 DEF AloneInv
<1> QED BY <1>3, <1>5, <1>6, <1>7 DEF ActivityInv

LEMMA NextActivity == ActivityInv /\ [Next]_vars => ActivityInv'
BY NextRecords, NextTrueLists, NextTabs DEF ActivityInv

(* state/activity.tsx: through every reload and whichever tab wrote last,  *)
(* what any list says of a transaction is what became of it, for the       *)
(* account that sent it; what is pending is watched; and with one tab      *)
(* nothing recorded is lost.                                               *)
THEOREM ActivityAlwaysTrue == Spec => []ActivityIsTrue
<1>1. ActivityInv /\ WatchInv => ActivityIsTrue
  <2> SUFFICES ASSUME ActivityInv, WatchInv PROVE ActivityIsTrue
    OBVIOUS
  <2>1. VerdictIsTrue
    BY DEF ActivityInv, TrueLists, TrueList, Truthful, VerdictIsTrue
  <2>2. ListedForItsSender
    BY DEF ActivityInv, TrueLists, TrueList, Truthful, ListedForItsSender
  <2>3. AloneNothingIsLost
    <3> SUFFICES ASSUME Cardinality(opened) = 1, ~broken
                 PROVE  TxsOf(stored) = kept /\ \A t \in Tab : open[t] => TxsOf(all[t]) = kept
      BY DEF AloneNothingIsLost
    <3>1. PICK u : opened = {u}
      BY FS_Singleton DEF ActivityInv, TabsInv
    <3>2. u \in Tab /\ \A t \in Tab : open[t] => t = u
      BY <3>1 DEF ActivityInv, TabsInv
    <3> QED BY <3>1, <3>2 DEF ActivityInv, AloneInv
  <2> QED BY <2>1, <2>2, <2>3 DEF ActivityIsTrue, WatchInv
<1> QED BY <1>1, InitActivity, NextActivity, InitWatches, NextWatches, PTL DEF Spec

-----------------------------------------------------------------------------
(* What leaves a list.                                                     *)

Leaves(t, x) == open[t] /\ open'[t] /\ x \in Watchable(all[t]) /\ x \notin TxsOf(all'[t])

Dismissed(t, x) == x \in TxsOf(Items(t)) /\ TxsOf(all'[t]) = TxsOf(all[t]) \ {x}
PushedOut(t) == Len(all[t]) = MAX_ITEMS /\ TxsOf(all'[t]) \ TxsOf(all[t]) # {}

LEMMA NothingLeaves ==
  ASSUME NEW t \in Tab, NEW x, Leaves(t, x), TxsOf(all[t]) \subseteq TxsOf(all'[t])
  PROVE  FALSE
BY WatchedAreListed DEF Leaves

(* Dropping the items that are settled or stale drops none that is watched.*)
LEMMA ClearLeavesPending ==
  ASSUME TrueLists, NEW t \in Tab, Clear(t), NEW x
  PROVE  ~Leaves(t, x)
<1> DEFINE S == {item \in Seqs!ToSet(all[t]) : ~ClearKeeps(item)}
           new == Without(all[t], S)
<1> SUFFICES ASSUME Leaves(t, x) PROVE FALSE
  OBVIOUS
<1>1. SetAll(t, new)
  BY DEF Clear
<1>2. \A item : item \in S => ~ClearKeeps(item)
  OBVIOUS
<1> HIDE DEF S
<1>3. \A j \in DOMAIN all[t] : all[t][j] \notin S => \E i \in DOMAIN new : new[i] = all[t][j]
  BY FilteredIs DEF TrueLists, TrueList
<1>4. all'[t] = new
  BY <1>1, SetAllIs
<1> HIDE DEF new
<1>5. PICK j \in DOMAIN all[t] : all[t][j].tx = x /\ all[t][j].status = "pending" /\ ~IsStale(all[t][j])
  BY DEF Leaves, Watchable
<1>6. PICK i \in DOMAIN new : new[i] = all[t][j]
  BY <1>2, <1>3, <1>5 DEF ClearKeeps
<1>7. x \in TxsOf(new)
  BY <1>5, <1>6 DEF TxsOf
<1> QED BY <1>4, <1>7 DEF Leaves

LEMMA DismissTakesOne ==
  ASSUME TrueLists, NEW t \in Tab, NEW y \in Tx, Dismiss(t, y), NEW x, Leaves(t, x)
  PROVE  Dismissed(t, x)
<1> DEFINE S == {item \in Seqs!ToSet(all[t]) : item.tx = y}
           new == Without(all[t], S)
<1>1. SetAll(t, new) /\ y \in TxsOf(Items(t))
  BY DEF Dismiss
<1>2. \A j \in DOMAIN all[t] : all[t][j] \in S <=> all[t][j].tx = y
  BY DEF Seqs!ToSet
<1> HIDE DEF S
<1>3. /\ \A i \in DOMAIN new : new[i] \notin S /\ \E j \in DOMAIN all[t] : all[t][j] = new[i]
      /\ \A j \in DOMAIN all[t] : all[t][j] \notin S => \E i \in DOMAIN new : new[i] = all[t][j]
  BY FilteredIs DEF TrueLists, TrueList
<1>4. all'[t] = new
  BY <1>1, SetAllIs
<1> HIDE DEF new
<1>5. TxsOf(new) = TxsOf(all[t]) \ {y}
  BY <1>2, <1>3 DEF TxsOf
<1>6. x = y
  BY <1>4, <1>5, WatchedAreListed DEF Leaves
<1> QED BY <1>1, <1>4, <1>5, <1>6 DEF Dismissed

LEMMA SendingPushesOut ==
  ASSUME Recorded, TrueLists, TabsInv, NEW y \in Tx, WalletSends(y), NEW t \in Tab, NEW x, Leaves(t, x)
  PROVE  PushedOut(t)
<1>1. asker[y].attached /\ asker[y].tab = t
  <2>1. asker[y].attached
    BY NothingLeaves DEF WalletSends
  <2>2. SetAll(asker[y].tab, Tracked(y)) /\ asker[y].tab \in Tab
    BY <2>1 DEF WalletSends, TabsInv
  <2>3. asker[y].tab # t => all'[t] = all[t]
    BY <2>2, SetAllIs
  <2> QED BY <2>1, <2>3, NothingLeaves
<1> DEFINE new == Tracked(y)
<1>2. SetAll(t, new) /\ chain[y] # "unsent"
  BY <1>1 DEF WalletSends
<1>3. all'[t] = new
  BY <1>2, SetAllIs
<1>4. /\ y \in TxsOf(new)
      /\ \/ new = all[t]
         \/ /\ y \notin TxsOf(all[t])
            /\ Len(all[t]) < MAX_ITEMS => TxsOf(all[t]) \subseteq TxsOf(new)
  BY <1>1, <1>2, TrackedIs
<1> HIDE DEF new
<1>5. new # all[t] /\ ~(TxsOf(all[t]) \subseteq TxsOf(new))
  BY <1>3, NothingLeaves
<1>6. y \notin TxsOf(all[t]) /\ ~(Len(all[t]) < MAX_ITEMS)
  BY <1>4, <1>5
<1>7. Len(all[t]) \in Nat /\ Len(all[t]) <= MAX_ITEMS
  BY ListingIs DEF TrueLists, TrueList, Listing
<1>8. Len(all[t]) = MAX_ITEMS
  BY <1>6, <1>7, ActivityAssumption, SMT
<1> QED BY <1>3, <1>4, <1>6, <1>8 DEF PushedOut

LEMMA NextLeaves ==
  ASSUME ActivityInv, [Next]_vars, NEW t \in Tab, NEW x, Leaves(t, x)
  PROVE  Dismissed(t, x) \/ PushedOut(t)
<1> USE DEF ActivityInv
<1>1. ASSUME NEW u \in Tab, Mount(u) \/ Open(u) \/ Close(u) PROVE FALSE
  <2>1. u # t
    BY <1>1 DEF Mount, Open, Close, Leaves, Recorded, TabsInv
  <2>2. all'[t] = all[t]
    BY <1>1, <2>1 DEF Mount, Open, Close, SetAll, TrueLists
  <2> QED BY <2>2, NothingLeaves
<1>2. CASE Aside
  BY <1>2, NothingLeaves DEF Aside
<1>3. CASE ActivityNext
  <2>1. ASSUME NEW u \in Tab, LeaveForm(u) \/ (\E a \in Account : SwitchAccount(u, a)) \/ (\E y \in Tx : Ask(u, y))
        PROVE  FALSE
    BY <2>1, NothingLeaves DEF LeaveForm, SwitchAccount, Ask
  <2>2. ASSUME NEW u \in Tab, Clear(u) \/ \E y \in Tx : Dismiss(u, y)
        PROVE  Dismissed(t, x)
    <3>1. PICK list : SetAll(u, list)
      BY <2>2 DEF Clear, Dismiss
    <3>2. u = t
      BY <3>1, SetAllIs, NothingLeaves
    <3> QED BY <2>2, <3>2, ClearLeavesPending, DismissTakesOne
  <2>3. ASSUME NEW u \in Tab, NEW y \in Tx, NoticeReceipt(u, y) \/ NoticeError(u, y)
        PROVE  FALSE
    <3>1. PICK status \in {"confirmed", "failed"} : SetAll(u, Settled(all[u], y, status))
      BY <2>3 DEF NoticeReceipt, NoticeError, Verdict
    <3>2. TxsOf(Settled(all[u], y, status)) = TxsOf(all[u])
      BY SettledIs DEF TrueLists, TrueList
    <3>3. u = t
      BY <3>1, SetAllIs, NothingLeaves
    <3>4. all'[t] = Settled(all[t], y, status)
      BY <3>1, <3>3, SetAllIs
    <3> QED BY <3>2, <3>3, <3>4, NothingLeaves
  <2>4. ASSUME NEW y \in Tx, WalletSends(y) PROVE PushedOut(t)
    BY <2>4, SendingPushesOut
  <2>5. ASSUME NEW y \in Tx, WalletRefuses(y) \/ Ends(y) \/ Ages(y) PROVE FALSE
    BY <2>5, NothingLeaves DEF WalletRefuses, Ends, Ages
  <2> QED BY <1>3, <2>1, <2>2, <2>3, <2>4, <2>5 DEF ActivityNext
<1> QED BY <1>1, <1>2, <1>3, StepsAre DEF MountTab, OpenTab, CloseTab

(* state/activity.tsx: while a tab stays open a pending transaction leaves *)
(* its list in two ways only, whatever the other tabs, the wallet and the  *)
(* chain do: the user dismissed it, or a newer one pushed it out.          *)
THEOREM PendingLeavesOnlyIfDropped == Spec => PendingLeavesOnlyIfDismissed
<1> DEFINE Leaving ==
      \A t \in Tab, x \in Tx :
        open[t] /\ open'[t] /\ x \in Watchable(all[t]) /\ x \notin TxsOf(all'[t])
        => \/ x \in TxsOf(Items(t)) /\ TxsOf(all'[t]) = TxsOf(all[t]) \ {x}
           \/ Len(all[t]) = MAX_ITEMS /\ TxsOf(all'[t]) \ TxsOf(all[t]) # {}
<1>1. ActivityInv /\ [Next]_vars => [Leaving]_activityVars
  BY NextLeaves DEF Leaves, Dismissed, PushedOut
<1> QED BY <1>1, InitActivity, NextActivity, PTL DEF Spec, PendingLeavesOnlyIfDismissed

-----------------------------------------------------------------------------
(* The first item of a list in a set.                                      *)
LEMMA FirstInIs ==
  ASSUME NEW T, NEW s \in Seq(T), NEW S, NEW none
  PROVE  /\ (\A i \in DOMAIN s : s[i] \notin S) => FirstIn(s, S, none) = none
         /\ (\E i \in DOMAIN s : s[i] \in S) =>
              \E k \in DOMAIN s : /\ FirstIn(s, S, none) = s[k] /\ s[k] \in S
                                  /\ \A i \in DOMAIN s : s[i] \in S => k <= i
<1> DEFINE at == {i \in DOMAIN s : s[i] \in S}
<1>1. Len(s) \in Nat /\ DOMAIN s = 1 .. Len(s)
  BY LenProperties
<1>2. at \subseteq Nat
  BY <1>1, SMT
<1>3. ASSUME at # {}
      PROVE  \E i \in at : \A j \in at : i <= j
  <2>1. PICK i \in at : \A j \in at : ~(<<j, i>> \in OpToRel(<, Nat))
    BY <1>2, <1>3, WFMin, NatLessThanWellFounded
  <2>2. \A j \in at : ~(j < i) /\ i \in Nat /\ j \in Nat
    BY <1>2, <2>1 DEF OpToRel
  <2>3. \A j \in at : i <= j
    BY <2>2, SMT
  <2> QED BY <2>3
<1>4. CASE at = {}
  BY <1>4 DEF FirstIn
<1>5. CASE at # {}
  <2> DEFINE k == CHOOSE i \in at : \A j \in at : i <= j
  <2>1. k \in at /\ \A j \in at : k <= j
    BY <1>3, <1>5
  <2>2. FirstIn(s, S, none) = s[k]
    BY <1>5 DEF FirstIn
  <2> HIDE DEF k
  <2> QED BY <2>1, <2>2
<1> QED BY <1>4, <1>5

-----------------------------------------------------------------------------
(* The tokens a form may hold.                                             *)

LEMMA TokenListIs ==
  /\ TOKEN_LIST \in Seq(Token)
  /\ \A i \in DOMAIN TOKEN_LIST : \A j \in DOMAIN TOKEN_LIST :
       \/ TOKEN_LIST[i].address = TOKEN_LIST[j].address
       \/ TOKEN_LIST[i].symbol = TOKEN_LIST[j].symbol
       => i = j
  /\ Seqs!ToSet(TOKEN_LIST) = {KASH, WKASH} \cup Seqs!ToSet(Deployed)
  /\ \A i \in DOMAIN TOKEN_LIST : ~TOKEN_LIST[i].isImported
<1> DEFINE own == <<KASH, WKASH>>
           n == Len(Deployed)
           list == own \o Deployed
<1>1. /\ KASH \in Token /\ WKASH \in Token
      /\ KASH.address = Native /\ KASH.symbol = "kash" /\ KASH.isImported = FALSE
      /\ WKASH.address = Wkash /\ WKASH.symbol = "wkash" /\ WKASH.isImported = FALSE
      /\ Native # Wkash
  <2>1. Native \in Nat /\ Wkash \in Nat /\ Native # Wkash /\ DEFAULT_DECIMALS \in Nat
    BY TokensAssumption
  <2>2. "kash" \in Symbol /\ "wkash" \in Symbol
    BY TokensAssumption
  <2> QED BY <2>1, <2>2 DEF KASH, WKASH, TokenWith, Token
<1>2. own \in Seq(Token) /\ Len(own) = 2 /\ own[1] = KASH /\ own[2] = WKASH
  BY <1>1
<1>3. /\ Deployed \in Seq(Token) /\ n \in Nat /\ DOMAIN Deployed = 1 .. n
      /\ \A i \in 1 .. n :
           /\ Deployed[i].address \notin {Native, Wkash} /\ Deployed[i].symbol \notin {"kash", "wkash"}
           /\ ~Deployed[i].isImported
           /\ \A j \in 1 .. n :
                \/ Deployed[i].address = Deployed[j].address
                \/ Deployed[i].symbol = Deployed[j].symbol
                => i = j
  <2>1. Deployed \in Seq(Token)
    BY TokensAssumption
  <2>2. n \in Nat /\ DOMAIN Deployed = 1 .. n
    BY <2>1, LenProperties
  <2> QED BY <2>1, <2>2, TokensAssumption
<1> HIDE DEF n
<1>4. /\ list \in Seq(Token) /\ Len(list) = 2 + n
      /\ \A i \in 1 .. 2 + n : list[i] = IF i <= 2 THEN own[i] ELSE Deployed[i - 2]
  BY <1>2, <1>3, ConcatProperties DEF n
<1>5. Seqs!ToSet(own) = {KASH, WKASH}
  <2>1. DOMAIN own = 1 .. 2
    OBVIOUS
  <2>2. \A i \in 1 .. 2 : i = 1 \/ i = 2
    BY SMT
  <2>3. 1 \in 1 .. 2 /\ 2 \in 1 .. 2
    BY SMT
  <2> HIDE DEF own
  <2> QED BY <1>2, <2>1, <2>2, <2>3 DEF Seqs!ToSet
<1>6. Seqs!ToSet(list) = {KASH, WKASH} \cup Seqs!ToSet(Deployed)
  <2> HIDE DEF own
  <2> QED BY <1>2, <1>3, <1>5, ConcatElements
<1> HIDE DEF list, own
<1>7. DOMAIN list = 1 .. 2 + n
  BY <1>4, LenProperties
<1>8. \A i \in 1 .. 2 + n : \/ i = 1 /\ i <= 2
                            \/ i = 2 /\ i <= 2
                            \/ ~(i <= 2) /\ i - 2 \in 1 .. n /\ i # 1 /\ i # 2
  BY <1>3, SMT
<1>9. \A i \in 1 .. 2 + n : \/ i = 1 /\ list[i] = KASH
                            \/ i = 2 /\ list[i] = WKASH
                            \/ i - 2 \in 1 .. n /\ list[i] = Deployed[i - 2] /\ i # 1 /\ i # 2
  BY <1>2, <1>4, <1>8
<1>10. \A i \in 1 .. 2 + n : \A j \in 1 .. 2 + n : i - 2 = j - 2 => i = j
  BY <1>3, SMT
<1>11. \A i \in 1 .. 2 + n : \A j \in 1 .. 2 + n :
         list[i].address = list[j].address \/ list[i].symbol = list[j].symbol => i = j
  <2> SUFFICES ASSUME NEW i \in 1 .. 2 + n, NEW j \in 1 .. 2 + n,
                      list[i].address = list[j].address \/ list[i].symbol = list[j].symbol
               PROVE  i = j
    OBVIOUS
  <2>1. CASE i = 1 \/ i = 2
    BY <1>1, <1>3, <1>9, <2>1
  <2>2. CASE i - 2 \in 1 .. n /\ list[i] = Deployed[i - 2] /\ i # 1 /\ i # 2
    BY <1>1, <1>3, <1>9, <1>10, <2>2
  <2> QED BY <1>9, <2>1, <2>2
<1>12. \A i \in 1 .. 2 + n : ~list[i].isImported
  BY <1>1, <1>3, <1>9
<1> QED BY <1>4, <1>6, <1>7, <1>11, <1>12 DEF TOKEN_LIST, list, own

(* Looking a token up.                                                     *)
LEMMA ByAddressIs ==
  ASSUME NEW list \in Seq(Token), NEW a
  PROVE  LET token == TokenByAddress(list, a)
         IN  /\ token = NoToken <=> a = Native \/ \A i \in DOMAIN list : list[i].address # a
             /\ token # NoToken => /\ token \in Seqs!ToSet(list) /\ token \in Token
                                   /\ token.address = a /\ a # Native
<1> DEFINE S == {token \in Seqs!ToSet(list) : token.address = a /\ a # Native}
<1>1. TokenByAddress(list, a) = FirstIn(list, S, NoToken)
  BY DEF TokenByAddress
<1>2. \A i \in DOMAIN list : list[i] \in Token /\ list[i] \in Seqs!ToSet(list)
  BY ElementOfSeq, LenProperties DEF Seqs!ToSet
<1>3. \A i \in DOMAIN list : list[i] \in S <=> list[i].address = a /\ a # Native
  BY <1>2
<1> HIDE DEF S
<1>4. /\ (\A i \in DOMAIN list : list[i] \notin S) => FirstIn(list, S, NoToken) = NoToken
      /\ (\E i \in DOMAIN list : list[i] \in S) =>
           \E k \in DOMAIN list : FirstIn(list, S, NoToken) = list[k] /\ list[k] \in S
  BY FirstInIs
<1> QED BY <1>1, <1>2, <1>3, <1>4, TokensAssumption

LEMMA BySymbolIs ==
  ASSUME NEW list \in Seq(Token), NEW symbol
  PROVE  LET token == TokenBySymbol(list, symbol)
         IN  /\ token = NoToken <=> \A i \in DOMAIN list : list[i].symbol # symbol
             /\ token # NoToken =>
                  \E k \in DOMAIN list : /\ token = list[k] /\ token \in Token /\ list[k].symbol = symbol
                                         /\ \A i \in DOMAIN list : list[i].symbol = symbol => k <= i
<1> DEFINE S == {token \in Seqs!ToSet(list) : token.symbol = symbol}
<1>1. TokenBySymbol(list, symbol) = FirstIn(list, S, NoToken)
  BY DEF TokenBySymbol
<1>2. \A i \in DOMAIN list : list[i] \in Token /\ list[i] \in Seqs!ToSet(list)
  BY ElementOfSeq, LenProperties DEF Seqs!ToSet
<1>3. \A i \in DOMAIN list : list[i] \in S <=> list[i].symbol = symbol
  BY <1>2
<1> HIDE DEF S
<1>4. /\ (\A i \in DOMAIN list : list[i] \notin S) => FirstIn(list, S, NoToken) = NoToken
      /\ (\E i \in DOMAIN list : list[i] \in S) =>
           \E k \in DOMAIN list : /\ FirstIn(list, S, NoToken) = list[k] /\ list[k] \in S
                                  /\ \A i \in DOMAIN list : list[i] \in S => k <= i
  BY FirstInIs
<1> QED BY <1>1, <1>2, <1>3, <1>4, TokensAssumption

-----------------------------------------------------------------------------
(* Imports.                                                                *)

(* Those of a tab: none stands for a listed token.                         *)
Unlisted(a) == TokenByAddress(TOKEN_LIST, a) = NoToken
ImportsSound(list) == AsImported(list) /\ \A i \in DOMAIN list : Unlisted(list[i].address)

LEMMA MetadataIs ==
  ASSUME NEW a \in DOMAIN Contracts
  PROVE  LET token == Metadata(a)
         IN  /\ token \in Token /\ token.address = a /\ a # Native /\ token.isImported
             /\ token.decimals = Contracts[a].decimals /\ token.symbol = Contracts[a].symbol
BY ContractsAssumption DEF Metadata, TokenWith, Token

LEMMA AsImportedIs ==
  ASSUME NEW list, AsImported(list)
  PROVE  /\ list \in Seq(Token) /\ Len(list) \in Nat /\ DOMAIN list = 1 .. Len(list)
         /\ \A i \in DOMAIN list :
              /\ list[i].address \in DOMAIN Contracts /\ list[i] = Metadata(list[i].address)
              /\ list[i].isImported
<1>1. list \in Seq({Metadata(a) : a \in DOMAIN Contracts})
  BY DEF AsImported
<1>2. Len(list) \in Nat /\ DOMAIN list = 1 .. Len(list)
  BY <1>1, LenProperties
<1>3. \A i \in DOMAIN list : list[i] \in {Metadata(a) : a \in DOMAIN Contracts}
  BY <1>1, <1>2, ElementOfSeq
<1>4. ASSUME NEW i \in DOMAIN list
      PROVE  /\ list[i] \in Token /\ list[i].address \in DOMAIN Contracts
             /\ list[i] = Metadata(list[i].address) /\ list[i].isImported
  <2>1. PICK a \in DOMAIN Contracts : list[i] = Metadata(a)
    BY <1>3
  <2> QED BY <2>1, MetadataIs
<1>5. list = [i \in 1 .. Len(list) |-> list[i]]
  BY <1>1
<1>6. list \in [1 .. Len(list) -> Token]
  BY <1>2, <1>4, <1>5
<1>7. list \in Seq(Token)
  BY <1>2, <1>6
<1> QED BY <1>2, <1>4, <1>7

LEMMA TokensIs ==
  ASSUME NEW imports, ImportsSound(imports)
  PROVE  LET list == Tokens(imports)
             n == Len(TOKEN_LIST)
         IN  /\ list \in Seq(Token)
             /\ Seqs!ToSet(list) = Seqs!ToSet(TOKEN_LIST) \cup Seqs!ToSet(imports)
             /\ \A i \in DOMAIN list : \A j \in DOMAIN list : list[i].address = list[j].address => i = j
             /\ n \in Nat /\ DOMAIN TOKEN_LIST = 1 .. n
             /\ \A i \in 1 .. n : i \in DOMAIN list /\ list[i] = TOKEN_LIST[i]
             /\ \A i \in DOMAIN list : i \in 1 .. n \/ (list[i].isImported /\ ~(i <= n))
<1> DEFINE n == Len(TOKEN_LIST)
           m == Len(imports)
           list == TOKEN_LIST \o imports
<1>1. TOKEN_LIST \in Seq(Token) /\ n \in Nat /\ DOMAIN TOKEN_LIST = 1 .. n
  BY TokenListIs, LenProperties
<1>2. /\ imports \in Seq(Token) /\ m \in Nat /\ DOMAIN imports = 1 .. m
      /\ \A i \in 1 .. m : imports[i].address \in DOMAIN Contracts /\ imports[i].isImported
  BY AsImportedIs DEF ImportsSound
<1>3. /\ list \in Seq(Token) /\ Len(list) = n + m
      /\ \A i \in 1 .. n + m : list[i] = IF i <= n THEN TOKEN_LIST[i] ELSE imports[i - n]
  BY <1>1, <1>2, ConcatProperties
<1>4. Seqs!ToSet(list) = Seqs!ToSet(TOKEN_LIST) \cup Seqs!ToSet(imports)
  BY <1>1, <1>2, ConcatElements
<1> HIDE DEF n, m, list
<1>5. DOMAIN list = 1 .. n + m
  BY <1>3, LenProperties
<1>6. /\ \A i \in 1 .. n + m : i \in 1 .. n \/ (i - n \in 1 .. m /\ ~(i <= n))
      /\ \A i \in 1 .. n : i \in 1 .. n + m /\ i <= n
      /\ \A i \in 1 .. n + m : \A j \in 1 .. n + m : i - n = j - n => i = j
  BY <1>1, <1>2, SMT
<1>7. \A i \in 1 .. n + m : \/ i \in 1 .. n /\ list[i] = TOKEN_LIST[i]
                            \/ i - n \in 1 .. m /\ list[i] = imports[i - n] /\ ~(i <= n)
  BY <1>3, <1>6
<1>8. \A i \in 1 .. n : \A j \in 1 .. m : TOKEN_LIST[i].address # imports[j].address
  <2> SUFFICES ASSUME NEW i \in 1 .. n, NEW j \in 1 .. m, TOKEN_LIST[i].address = imports[j].address
               PROVE  FALSE
    OBVIOUS
  <2>1. TokenByAddress(TOKEN_LIST, imports[j].address) = NoToken
    BY <1>2 DEF ImportsSound, Unlisted
  <2>2. imports[j].address # Native
    BY <1>2, ContractsAssumption
  <2> QED BY <1>1, <2>1, <2>2, ByAddressIs
<1>9. \A i \in 1 .. n + m : \A j \in 1 .. n + m : list[i].address = list[j].address => i = j
  <2> SUFFICES ASSUME NEW i \in 1 .. n + m, NEW j \in 1 .. n + m, list[i].address = list[j].address
               PROVE  i = j
    OBVIOUS
  <2>1. \A k \in 1 .. n : \A l \in 1 .. n : TOKEN_LIST[k].address = TOKEN_LIST[l].address => k = l
    BY <1>1, TokenListIs
  <2>2. \A k \in 1 .. m : \A l \in 1 .. m : imports[k].address = imports[l].address => k = l
    BY <1>2 DEF ImportsSound, AsImported
  <2>3. CASE i \in 1 .. n /\ list[i] = TOKEN_LIST[i]
    BY <1>7, <1>8, <2>1, <2>3
  <2>4. CASE i - n \in 1 .. m /\ list[i] = imports[i - n]
    <3>1. j - n \in 1 .. m /\ list[j] = imports[j - n]
      BY <1>7, <1>8, <2>4
    <3> QED BY <1>6, <2>2, <2>4, <3>1
  <2> QED BY <1>7, <2>3, <2>4
<1>10. \A i \in 1 .. n : list[i] = TOKEN_LIST[i]
  BY <1>3, <1>6
<1>11. \A i \in 1 .. n + m : i \in 1 .. n \/ (list[i].isImported /\ ~(i <= n))
  BY <1>2, <1>7
<1> QED BY <1>1, <1>3, <1>4, <1>5, <1>6, <1>9, <1>10, <1>11 DEF Tokens, list, n

LEMMA NoImports == ImportsSound(<<>>) /\ Tokens(<<>>) = TOKEN_LIST
<1>1. \A S : <<>> \in Seq(S)
  BY EmptySeq
<1>2. DOMAIN <<>> = {}
  <2>1. Len(<<>>) = 0 /\ DOMAIN <<>> = 1 .. Len(<<>>)
    BY EmptySeq, LenProperties
  <2>2. 1 .. 0 = {}
    BY SMT
  <2> QED BY <2>1, <2>2
<1>3. TOKEN_LIST \o <<>> = TOKEN_LIST
  BY TokenListIs, ConcatEmptySeq
<1> QED BY <1>1, <1>2, <1>3 DEF ImportsSound, AsImported, Tokens

(* A link to a token leads to it, whatever was imported.                   *)
LEMMA ListedResolves ==
  ASSUME NEW imports, ImportsSound(imports), NEW token \in Seqs!ToSet(TOKEN_LIST)
  PROVE  ResolveToken(Tokens(imports), TokenParam(token)) = token
<1> DEFINE list == Tokens(imports)
           n == Len(TOKEN_LIST)
<1>1. /\ list \in Seq(Token) /\ n \in Nat /\ DOMAIN TOKEN_LIST = 1 .. n
      /\ \A i \in 1 .. n : i \in DOMAIN list /\ list[i] = TOKEN_LIST[i]
      /\ \A i \in DOMAIN list : i \in 1 .. n \/ ~(i <= n)
  BY TokensIs
<1> HIDE DEF list, n
<1>2. PICK p \in 1 .. n : token = TOKEN_LIST[p]
  BY <1>1 DEF Seqs!ToSet
<1>3. ~token.isImported
  BY <1>1, <1>2, TokenListIs
<1>4. p \in DOMAIN list /\ list[p].symbol = token.symbol
  BY <1>1, <1>2
<1>5. PICK k \in DOMAIN list : /\ TokenBySymbol(list, token.symbol) = list[k]
                               /\ list[k].symbol = token.symbol /\ k <= p
  BY <1>1, <1>4, BySymbolIs
<1>6. k \in 1 .. n
  <2>1. DOMAIN list \subseteq Nat
    BY <1>1, LenProperties, SMT
  <2>2. k \in Nat /\ p <= n /\ p \in Nat
    BY <1>1, <2>1, SMT
  <2>3. k <= n
    BY <1>1, <1>5, <2>2, SMT
  <2> QED BY <1>1, <2>3
<1>7. k = p
  BY <1>1, <1>2, <1>4, <1>5, <1>6, TokenListIs
<1>8. TokenBySymbol(list, token.symbol) = token
  BY <1>1, <1>2, <1>5, <1>7
<1> QED BY <1>3, <1>8 DEF list, TokenParam, BySymbol, ResolveToken

LEMMA KnownByAddress ==
  ASSUME NEW imports, ImportsSound(imports), NEW token \in Seqs!ToSet(Tokens(imports)),
         token.address # Native
  PROVE  TokenByAddress(Tokens(imports), token.address) = token
<1> DEFINE list == Tokens(imports)
           found == TokenByAddress(list, token.address)
<1>1. /\ list \in Seq(Token)
      /\ \A i \in DOMAIN list : \A j \in DOMAIN list : list[i].address = list[j].address => i = j
  BY TokensIs
<1> HIDE DEF list
<1>2. PICK i \in DOMAIN list : token = list[i]
  BY DEF list, Seqs!ToSet
<1>3. found \in Seqs!ToSet(list) /\ found.address = token.address
  BY <1>1, <1>2, ByAddressIs
<1>4. PICK j \in DOMAIN list : found = list[j]
  BY <1>3 DEF Seqs!ToSet
<1> QED BY <1>1, <1>2, <1>3, <1>4 DEF list

LEMMA ParamResolves ==
  ASSUME NEW imports, ImportsSound(imports), NEW token \in Seqs!ToSet(Tokens(imports))
  PROVE  ResolveToken(Tokens(imports), TokenParam(token)) = token
<1>1. CASE token \in Seqs!ToSet(TOKEN_LIST)
  BY <1>1, ListedResolves
<1>2. CASE token \in Seqs!ToSet(imports)
  <2>1. token.isImported /\ token.address # Native
    BY <1>2, AsImportedIs, ContractsAssumption DEF ImportsSound, Seqs!ToSet
  <2>2. TokenByAddress(Tokens(imports), token.address) = token
    BY <2>1, KnownByAddress
  <2> QED BY <2>1, <2>2 DEF TokenParam, ByAddress, ResolveToken
<1> QED BY <1>1, <1>2, TokensIs

-----------------------------------------------------------------------------
(* The two tokens of a form.                                               *)

FormToken(x) ==
  \/ IsListed(x)
  \/ /\ x.address \in DOMAIN Contracts /\ Unlisted(x.address)
     /\ x.decimals \in {Contracts[x.address].decimals, DEFAULT_DECIMALS}

FormSound(form) ==
  /\ form = <<form[1], form[2]>> /\ FormToken(form[1]) /\ FormToken(form[2])
  /\ SameToken(form[1], form[2]) => ~IsListed(form[1])

LEMMA ListedIs ==
  ASSUME NEW x, IsListed(x)
  PROVE  x \in Token /\ (x.address # Native => ~Unlisted(x.address))
<1>1. TOKEN_LIST \in Seq(Token)
  BY TokenListIs
<1>2. PICK i \in DOMAIN TOKEN_LIST : x = TOKEN_LIST[i]
  BY DEF IsListed, Seqs!ToSet
<1>3. x \in Token
  BY <1>1, <1>2, ElementOfSeq, LenProperties
<1> QED BY <1>1, <1>2, <1>3, ByAddressIs DEF Unlisted

LEMMA NotListedIs ==
  ASSUME NEW x, FormToken(x), ~IsListed(x)
  PROVE  x.address # Native /\ Unlisted(x.address)
BY ContractsAssumption DEF FormToken

LEMMA FormOf ==
  ASSUME NEW a, NEW b, FormToken(a), FormToken(b), ~SameToken(a, b) \/ ~IsListed(a) \/ ~IsListed(b)
  PROVE  FormSound(<<a, b>>)
<1>1. SameToken(a, b) => ~IsListed(a)
  BY ListedIs, NotListedIs DEF SameToken
<1> QED BY <1>1 DEF FormSound

LEMMA KnownIsFormToken ==
  ASSUME NEW imports, ImportsSound(imports), NEW token \in Seqs!ToSet(Tokens(imports))
  PROVE  FormToken(token) /\ token \in Token
<1>1. CASE token \in Seqs!ToSet(TOKEN_LIST)
  BY <1>1, ListedIs DEF FormToken, IsListed
<1>2. CASE token \in Seqs!ToSet(imports)
  <2>1. PICK i \in DOMAIN imports : token = imports[i]
    BY <1>2 DEF Seqs!ToSet
  <2>2. token.address \in DOMAIN Contracts /\ token = Metadata(token.address)
    BY <2>1, AsImportedIs DEF ImportsSound
  <2>3. Unlisted(token.address)
    BY <2>1 DEF ImportsSound
  <2> QED BY <2>2, <2>3, MetadataIs DEF FormToken
<1> QED BY <1>1, <1>2, TokensIs

LEMMA ResolvedIsKnown ==
  ASSUME NEW imports, ImportsSound(imports), NEW id, ResolveToken(Tokens(imports), id) # NoToken
  PROVE  ResolveToken(Tokens(imports), id) \in Seqs!ToSet(Tokens(imports))
<1>1. Tokens(imports) \in Seq(Token)
  BY TokensIs
<1> QED BY <1>1, ByAddressIs, BySymbolIs DEF ResolveToken, Seqs!ToSet

LEMMA DefaultsAre == FormSound(Defaults)
<1>1. TOKEN_LIST \in Seq(Token)
  BY TokenListIs
<1>2. PICK token \in Seqs!ToSet(Deployed) : token.symbol = "musdc"
  BY TokensAssumption DEF Seqs!ToSet
<1>3. PICK i \in DOMAIN TOKEN_LIST : TOKEN_LIST[i] = token
  BY <1>2, TokenListIs DEF Seqs!ToSet
<1>4. PICK k \in DOMAIN TOKEN_LIST : MUSDC = TOKEN_LIST[k] /\ TOKEN_LIST[k].symbol = "musdc"
  <2>1. TokenBySymbol(TOKEN_LIST, "musdc") # NoToken
    BY <1>1, <1>2, <1>3, BySymbolIs
  <2> QED BY <1>1, <2>1, BySymbolIs DEF MUSDC
<1>5. PICK j \in DOMAIN TOKEN_LIST : TOKEN_LIST[j] = KASH
  BY TokenListIs DEF Seqs!ToSet
<1>6. KASH.symbol = "kash"
  BY DEF KASH, TokenWith
<1>7. j # k
  BY <1>4, <1>5, <1>6
<1>8. ~SameToken(KASH, MUSDC)
  BY <1>4, <1>5, <1>7, TokenListIs DEF SameToken
<1>9. IsListed(KASH) /\ IsListed(MUSDC)
  BY <1>4, <1>5 DEF IsListed, Seqs!ToSet
<1> QED BY <1>8, <1>9, FormOf DEF Defaults, FormToken

LEMMA SwapLinkSound ==
  ASSUME NEW imports, ImportsSound(imports), NEW form, FormSound(form), NEW link
  PROVE  FormSound(SwapFromLink(Tokens(imports), form, link))
<1> DEFINE in == ResolveToken(Tokens(imports), link[1])
           out == ResolveToken(Tokens(imports), link[2])
           nextIn == IF in = NoToken THEN form[1] ELSE in
           nextOut == IF out = NoToken THEN form[2] ELSE out
           a == IF in # NoToken /\ ~SameToken(in, nextOut) THEN in ELSE form[1]
           b == IF out # NoToken /\ ~SameToken(out, nextIn) THEN out ELSE form[2]
<1>1. (in # NoToken => FormToken(in)) /\ (out # NoToken => FormToken(out))
  BY ResolvedIsKnown, KnownIsFormToken
<1>2. FormToken(form[1]) /\ FormToken(form[2]) /\ (SameToken(form[1], form[2]) => ~IsListed(form[1]))
      /\ form = <<form[1], form[2]>>
  BY DEF FormSound
<1>3. SwapFromLink(Tokens(imports), form, link) = <<a, b>>
  BY DEF SwapFromLink
<1> HIDE DEF in, out
<1>4. FormToken(a) /\ FormToken(b)
  BY <1>1, <1>2
<1>5. ~SameToken(a, b) \/ ~IsListed(a) \/ ~IsListed(b)
  BY <1>2 DEF SameToken
<1> HIDE DEF a, b
<1> QED BY <1>3, <1>4, <1>5, FormOf

LEMMA PoolLinkSound ==
  ASSUME NEW imports, ImportsSound(imports), NEW form, FormSound(form), NEW link
  PROVE  FormSound(PoolFromLink(Tokens(imports), form, link))
<1> DEFINE a == ResolveToken(Tokens(imports), link[1])
           b == ResolveToken(Tokens(imports), link[2])
<1>1. (a # NoToken => FormToken(a)) /\ (b # NoToken => FormToken(b))
  BY ResolvedIsKnown, KnownIsFormToken
<1>2. PoolFromLink(Tokens(imports), form, link) =
        IF a # NoToken /\ b # NoToken /\ ~SameToken(a, b) THEN <<a, b>> ELSE form
  BY DEF PoolFromLink
<1> HIDE DEF a, b
<1> QED BY <1>1, <1>2, FormOf

(* A side of a form is set.                                                *)
LEMMA SideSet ==
  ASSUME NEW form, FormSound(form), NEW side \in {1, 2}, NEW token, FormToken(token),
         ~SameToken(token, form[3 - side]) \/ ~IsListed(token)
  PROVE  FormSound([form EXCEPT ![side] = token])
<1>0. PICK new : new = [form EXCEPT ![side] = token]
  OBVIOUS
<1>1. /\ form = <<form[1], form[2]>> /\ FormToken(form[1]) /\ FormToken(form[2])
  BY DEF FormSound
<1>2. CASE side = 1
  <2>1. new = <<token, form[2]>>
    BY <1>0, <1>1, <1>2
  <2>2. 3 - side = 2
    BY <1>2, SMT
  <2>3. FormSound(<<token, form[2]>>)
    BY <1>1, <2>2, FormOf
  <2> QED BY <1>0, <2>1, <2>3, Zenon
<1>3. CASE side = 2
  <2>1. new = <<form[1], token>>
    BY <1>0, <1>1, <1>3
  <2>2. 3 - side = 1
    BY <1>3, SMT
  <2>3. ~SameToken(form[1], token) \/ ~IsListed(token)
    BY <2>2 DEF SameToken
  <2>4. FormSound(<<form[1], token>>)
    BY <1>1, <2>3, FormOf
  <2> QED BY <1>0, <2>1, <2>4, Zenon
<1> QED BY <1>2, <1>3

(* The address bar.                                                        *)
LEMMA BarReopens ==
  ASSUME NEW imports, ImportsSound(imports), NEW form, form = <<form[1], form[2]>>,
         form[1] \in Seqs!ToSet(Tokens(imports)), form[2] \in Seqs!ToSet(Tokens(imports)),
         ~SameToken(form[1], form[2])
  PROVE  LET bar == <<TokenParam(form[1]), TokenParam(form[2])>>
         IN  \A other : /\ SwapFromLink(Tokens(imports), other, bar) = form
                        /\ PoolFromLink(Tokens(imports), other, bar) = form
<1> DEFINE bar == <<TokenParam(form[1]), TokenParam(form[2])>>
<1>1. bar[1] = TokenParam(form[1]) /\ bar[2] = TokenParam(form[2])
  OBVIOUS
<1> HIDE DEF bar
<1>2. /\ ResolveToken(Tokens(imports), bar[1]) = form[1] /\ ResolveToken(Tokens(imports), bar[2]) = form[2]
  BY <1>1, ParamResolves
<1>3. form[1] # NoToken /\ form[2] # NoToken
  BY KnownIsFormToken, TokensAssumption
<1>4. ~SameToken(form[2], form[1])
  BY DEF SameToken
<1>5. ASSUME NEW other
      PROVE  /\ SwapFromLink(Tokens(imports), other, bar) = form
             /\ PoolFromLink(Tokens(imports), other, bar) = form
  BY <1>2, <1>3, <1>4 DEF SwapFromLink, PoolFromLink
<1> QED BY <1>5 DEF bar

-----------------------------------------------------------------------------
(* Batches of reads.                                                       *)

LEMMA CallIs ==
  ASSUME NEW i \in Nat, i > 0, NEW n \in Nat, NEW k \in 1 .. n
  PROVE  LET m == n * (i - 1) + k
         IN  /\ m \in Nat /\ m > 0 /\ About(m, n) = i /\ Which(m, n) = k
             /\ \A l \in Nat : i <= l => m <= n * l
<1> DEFINE m == n * (i - 1) + k
<1>1. n > 0 /\ i - 1 \in Nat /\ n * (i - 1) \in Nat /\ k - 1 \in 0 .. n - 1 /\ k \in Nat /\ k > 0
  BY SMT
<1>2. m \in Nat /\ m > 0 /\ m - 1 = (i - 1) * n + (k - 1) /\ m - 1 \in Int
  BY <1>1, SMT
<1>3. (m - 1) % n = k - 1
  BY <1>1, <1>2, ModUnique
<1>4. (m - 1) \div n \in Int /\ m - 1 = ((m - 1) \div n) * n + (k - 1)
  BY <1>1, <1>2, <1>3, DivMod
<1> DEFINE q == (m - 1) \div n
<1> HIDE DEF m
<1>5. q = i - 1
  <2>1. q \in Int /\ q * n = (i - 1) * n
    <3>1. q \in Int /\ m - 1 = q * n + (k - 1) /\ m - 1 = (i - 1) * n + (k - 1)
      BY <1>2, <1>4
    <3>2. q * n \in Int /\ (i - 1) * n \in Int /\ k - 1 \in Int
      BY <1>1, <3>1, SMT
    <3> HIDE DEF q
    <3> QED BY <3>1, <3>2, SMT
  <2> HIDE DEF q
  <2>2. CASE q > i - 1
    <3>1. (q - (i - 1) - 1) * n >= 0
      BY <1>1, <2>1, <2>2, SMT
    <3>2. (q - (i - 1) - 1) * n = q * n - (i - 1) * n - n
      BY <1>1, <2>1, SMT
    <3>3. q * n \in Int /\ (i - 1) * n \in Int
      BY <1>1, <2>1, SMT
    <3> QED BY <1>1, <2>1, <3>1, <3>2, <3>3, SMT
  <2>3. CASE q < i - 1
    <3>1. ((i - 1) - q - 1) * n >= 0
      BY <1>1, <2>1, <2>3, SMT
    <3>2. ((i - 1) - q - 1) * n = (i - 1) * n - q * n - n
      BY <1>1, <2>1, SMT
    <3>3. q * n \in Int /\ (i - 1) * n \in Int
      BY <1>1, <2>1, SMT
    <3> QED BY <1>1, <2>1, <3>1, <3>2, <3>3, SMT
  <2> QED BY <2>1, <2>2, <2>3, SMT
<1>6. ASSUME NEW l \in Nat, i <= l
      PROVE  m <= n * l
  <2>1. n * i <= n * l
    BY <1>6, MulMonotone
  <2>2. n * (i - 1) + k <= n * i
    BY <1>1, SMT
  <2> QED BY <2>1, <2>2, SMT DEF m
<1> QED BY <1>1, <1>2, <1>3, <1>5, <1>6, SMT DEF About, Which, m, q

(* The result of a call is what it was answered, or that it failed.        *)
LEMMA FailureIs ==
  ASSUME NEW batch, NEW k, NEW m
  PROVE  ResultOf(WithFailure(batch, k), m) \in {Failed, batch[m]}
<1>1. CASE m \in DOMAIN batch
  <2>1. WithFailure(batch, k)[m] \in {Failed, batch[m]}
    BY <1>1 DEF WithFailure
  <2> QED BY <2>1 DEF ResultOf
<1>2. CASE m \notin DOMAIN batch
  <2>1. m \notin DOMAIN WithFailure(batch, k)
    BY <1>2 DEF WithFailure
  <2> QED BY <2>1 DEF ResultOf
<1> QED BY <1>1, <1>2

(* The history of a pair.                                                  *)
States(i) == Seqs!ToSet(Pairs[i].history)

TradesSound(trades, created) ==
  /\ trades \in Seq(1 .. created)
  /\ \A i \in 1 .. Len(Pairs) :
       TradesIn(trades, i) \in Nat /\ TradesIn(trades, i) + 1 <= Len(Pairs[i].history)

LEMMA PairsAre ==
  /\ Len(Pairs) \in Nat /\ DOMAIN Pairs = 1 .. Len(Pairs)
  /\ \A i \in 1 .. Len(Pairs) :
       /\ Pairs[i].token0 \in DOMAIN Contracts /\ Pairs[i].token1 \in DOMAIN Contracts
       /\ Pairs[i].token0 # Pairs[i].token1
       /\ Len(Pairs[i].history) \in Nat \ {0} /\ DOMAIN Pairs[i].history = 1 .. Len(Pairs[i].history)
       /\ \A s \in States(i) : s.reserves = <<s.reserves[1], s.reserves[2]>>
<1> DEFINE State == [reserves : Nat \X Nat, supply : Nat, shares : [Account -> Nat]]
           P == [token0 : DOMAIN Contracts, token1 : DOMAIN Contracts, history : Seq(State)]
<1>1. Pairs \in Seq(P)
  BY PairsAssumption
<1>2. Len(Pairs) \in Nat /\ DOMAIN Pairs = 1 .. Len(Pairs)
  BY <1>1, LenProperties
<1>3. \A i \in 1 .. Len(Pairs) : Pairs[i] \in P
  BY <1>1, <1>2, ElementOfSeq
<1>4. ASSUME NEW i \in 1 .. Len(Pairs)
      PROVE  /\ Pairs[i].token0 \in DOMAIN Contracts /\ Pairs[i].token1 \in DOMAIN Contracts
             /\ Pairs[i].token0 # Pairs[i].token1
             /\ Len(Pairs[i].history) \in Nat \ {0} /\ DOMAIN Pairs[i].history = 1 .. Len(Pairs[i].history)
             /\ \A s \in States(i) : s.reserves = <<s.reserves[1], s.reserves[2]>>
  <2> HIDE DEF State
  <2>1. Pairs[i].token0 \in DOMAIN Contracts /\ Pairs[i].token1 \in DOMAIN Contracts /\ Pairs[i].history \in Seq(State)
    BY <1>3
  <2>2. Pairs[i].token0 # Pairs[i].token1 /\ Pairs[i].history # <<>>
    BY <1>2, PairsAssumption
  <2>3. Len(Pairs[i].history) \in Nat \ {0} /\ DOMAIN Pairs[i].history = 1 .. Len(Pairs[i].history)
    BY <2>1, <2>2, EmptySeq, LenProperties
  <2>4. \A s \in States(i) : s \in State
    BY <2>1, <2>3, ElementOfSeq DEF States, Seqs!ToSet
  <2>5. \A s \in State : s.reserves = <<s.reserves[1], s.reserves[2]>>
    BY DEF State
  <2> QED BY <2>1, <2>2, <2>3, <2>4, <2>5
<1> QED BY <1>2, <1>4

LEMMA StateIs ==
  ASSUME NEW trades, NEW created, TradesSound(trades, created), NEW i \in 1 .. Len(Pairs)
  PROVE  StateAfter(trades, i) \in States(i)
<1> DEFINE n == TradesIn(trades, i)
           h == Len(Pairs[i].history)
<1>1. n \in Nat /\ n + 1 <= h /\ h \in Nat /\ DOMAIN Pairs[i].history = 1 .. h
  BY PairsAre DEF TradesSound
<1>2. 1 + n \in 1 .. h
  <2> HIDE DEF n, h
  <2> QED BY <1>1, SMT
<1> QED BY <1>1, <1>2 DEF StateAfter, States, Seqs!ToSet

(* What the answers about some pairs may be.                               *)
DetailsSound(pairs, details) ==
  \A i \in DOMAIN pairs :
    /\ ResultOf(details, 4 * (i - 1) + 1) \in {Failed, Pairs[pairs[i]].token0}
    /\ ResultOf(details, 4 * (i - 1) + 2) \in {Failed, Pairs[pairs[i]].token1}
    /\ ResultOf(details, 4 * (i - 1) + 3) \in {Failed} \cup {s.reserves : s \in States(pairs[i])}
    /\ ResultOf(details, 4 * (i - 1) + 4) \in {Failed} \cup {s.supply : s \in States(pairs[i])}

MetaSound(unknown, meta) ==
  \A i \in DOMAIN unknown :
    /\ ResultOf(meta, 2 * (i - 1) + 1) \in {Failed, Contracts[unknown[i]].symbol}
    /\ ResultOf(meta, 2 * (i - 1) + 2) \in {Failed, Contracts[unknown[i]].decimals}

FiguresSound(pairs, figures) ==
  /\ pairs \in Seq(1 .. Len(Pairs))
  /\ \A i \in DOMAIN pairs :
       /\ figures[3 * (i - 1) + 1] \in {Failed, Pairs[pairs[i]].token0}
       /\ figures[3 * (i - 1) + 2] \in {Failed, Pairs[pairs[i]].token1}
       /\ figures[3 * (i - 1) + 3] \in {Failed} \cup {s.reserves : s \in States(pairs[i])}

LEMMA NoDataIs == \A m : ResultOf(NoData, m) = Failed
BY DEF ResultOf

LEMMA DetailsBatchIs ==
  ASSUME NEW pairs \in Seq(1 .. Len(Pairs)), NEW created, NEW before, NEW after,
         TradesSound(before, created), TradesSound(after, created), NEW k
  PROVE  DetailsSound(pairs, WithFailure(DetailsBatch(pairs, before, after), k))
<1> DEFINE batch == DetailsBatch(pairs, before, after)
           n == Len(pairs)
<1>1. n \in Nat /\ DOMAIN pairs = 1 .. n /\ \A i \in 1 .. n : pairs[i] \in 1 .. Len(Pairs)
  BY LenProperties, ElementOfSeq
<1>2. ASSUME NEW i \in 1 .. n, NEW c \in 1 .. 4
      PROVE  batch[4 * (i - 1) + c] =
               << Pairs[pairs[i]].token0, Pairs[pairs[i]].token1, StateAfter(before, pairs[i]).reserves,
                  StateAfter(after, pairs[i]).supply >>[c]
  <2> DEFINE m == 4 * (i - 1) + c
  <2>1. i \in Nat /\ i > 0 /\ i <= n
    BY <1>1, SMT
  <2>2. m \in Nat /\ m > 0 /\ About(m, 4) = i /\ Which(m, 4) = c /\ m <= 4 * n
    <3>1. 4 \in Nat
      BY SMT
    <3>2. /\ m \in Nat /\ m > 0 /\ About(m, 4) = i /\ Which(m, 4) = c
          /\ \A l \in Nat : i <= l => m <= 4 * l
      BY <2>1, <3>1, CallIs, Zenon
    <3> QED BY <1>1, <2>1, <3>2, Zenon
  <2>3. m \in 1 .. 4 * n
    BY <1>1, <2>2, SMT
  <2> HIDE DEF m, n
  <2>4. batch[m] = << Pairs[pairs[i]].token0, Pairs[pairs[i]].token1, StateAfter(before, pairs[i]).reserves,
                      StateAfter(after, pairs[i]).supply >>[c]
    BY <2>2, <2>3 DEF DetailsBatch, n
  <2> QED BY <2>4 DEF m
<1> HIDE DEF batch, n
<1>3. 1 \in 1 .. 4 /\ 2 \in 1 .. 4 /\ 3 \in 1 .. 4 /\ 4 \in 1 .. 4
  BY SMT
<1>4. ASSUME NEW i \in 1 .. n
      PROVE  /\ ResultOf(WithFailure(batch, k), 4 * (i - 1) + 1) \in {Failed, Pairs[pairs[i]].token0}
             /\ ResultOf(WithFailure(batch, k), 4 * (i - 1) + 2) \in {Failed, Pairs[pairs[i]].token1}
             /\ ResultOf(WithFailure(batch, k), 4 * (i - 1) + 3) \in {Failed} \cup {s.reserves : s \in States(pairs[i])}
             /\ ResultOf(WithFailure(batch, k), 4 * (i - 1) + 4) \in {Failed} \cup {s.supply : s \in States(pairs[i])}
  <2>1. /\ batch[4 * (i - 1) + 1] = Pairs[pairs[i]].token0
        /\ batch[4 * (i - 1) + 2] = Pairs[pairs[i]].token1
        /\ batch[4 * (i - 1) + 3] = StateAfter(before, pairs[i]).reserves
        /\ batch[4 * (i - 1) + 4] = StateAfter(after, pairs[i]).supply
    BY <1>2, <1>3
  <2>2. StateAfter(before, pairs[i]) \in States(pairs[i]) /\ StateAfter(after, pairs[i]) \in States(pairs[i])
    BY <1>1, StateIs
  <2>3. \A m : ResultOf(WithFailure(batch, k), m) \in {Failed, batch[m]}
    BY FailureIs
  <2> QED BY <2>1, <2>2, <2>3
<1> QED BY <1>1, <1>4 DEF DetailsSound, batch

(* The batch of figures, call by call.                                     *)
LEMMA FiguresBatchIs ==
  ASSUME NEW T, NEW pairs \in Seq(T)
  PROVE  /\ DOMAIN FiguresBatch(pairs) = 1 .. 3 * Len(pairs)
         /\ \A i \in 1 .. Len(pairs) :
              /\ 3 * (i - 1) + 1 \in 1 .. 3 * Len(pairs)
              /\ 3 * (i - 1) + 2 \in 1 .. 3 * Len(pairs)
              /\ 3 * (i - 1) + 3 \in 1 .. 3 * Len(pairs)
              /\ 3 * (i - 1) + 3 = 3 * i
              /\ FiguresBatch(pairs)[3 * (i - 1) + 1] = Pairs[pairs[i]].token0
              /\ FiguresBatch(pairs)[3 * (i - 1) + 2] = Pairs[pairs[i]].token1
              /\ FiguresBatch(pairs)[3 * (i - 1) + 3] = StateOf(pairs[i]).reserves
<1> DEFINE n == Len(pairs)
           batch == FiguresBatch(pairs)
<1>1. n \in Nat
  BY LenProperties
<1>2. ASSUME NEW i \in 1 .. n, NEW c \in 1 .. 3
      PROVE  /\ 3 * (i - 1) + c \in 1 .. 3 * n
             /\ batch[3 * (i - 1) + c] =
                  <<Pairs[pairs[i]].token0, Pairs[pairs[i]].token1, StateOf(pairs[i]).reserves>>[c]
  <2> DEFINE m == 3 * (i - 1) + c
  <2>1. i \in Nat /\ i > 0 /\ i <= n
    BY <1>1, SMT
  <2>2. m \in Nat /\ m > 0 /\ About(m, 3) = i /\ Which(m, 3) = c /\ m <= 3 * n
    <3>1. 3 \in Nat
      BY SMT
    <3>2. /\ m \in Nat /\ m > 0 /\ About(m, 3) = i /\ Which(m, 3) = c
          /\ \A l \in Nat : i <= l => m <= 3 * l
      BY <2>1, <3>1, CallIs, Zenon
    <3> QED BY <1>1, <2>1, <3>2, Zenon
  <2>3. m \in 1 .. 3 * n
    BY <1>1, <2>2, SMT
  <2> HIDE DEF m, n
  <2>4. batch[m] = <<Pairs[pairs[i]].token0, Pairs[pairs[i]].token1, StateOf(pairs[i]).reserves>>[c]
    BY <2>2, <2>3 DEF FiguresBatch, n
  <2> QED BY <2>3, <2>4 DEF m
<1>3. 1 \in 1 .. 3 /\ 2 \in 1 .. 3 /\ 3 \in 1 .. 3
  BY SMT
<1>4. DOMAIN batch = 1 .. 3 * n
  BY DEF FiguresBatch
<1>5. \A i \in 1 .. n : 3 * (i - 1) + 3 = 3 * i
  BY <1>1, SMT
<1> HIDE DEF batch, n
<1>6. ASSUME NEW i \in 1 .. n
      PROVE  /\ 3 * (i - 1) + 1 \in 1 .. 3 * n
             /\ 3 * (i - 1) + 2 \in 1 .. 3 * n
             /\ 3 * (i - 1) + 3 \in 1 .. 3 * n
             /\ batch[3 * (i - 1) + 1] = Pairs[pairs[i]].token0
             /\ batch[3 * (i - 1) + 2] = Pairs[pairs[i]].token1
             /\ batch[3 * (i - 1) + 3] = StateOf(pairs[i]).reserves
  BY <1>2, <1>3
<1> QED BY <1>4, <1>5, <1>6 DEF batch, n

LEMMA FiguresBatchSound ==
  ASSUME NEW pairs \in Seq(1 .. Len(Pairs)), NEW created, TradesSound(page.trades, created), NEW k
  PROVE  FiguresSound(pairs, WithFailure(FiguresBatch(pairs), k))
<1> DEFINE batch == FiguresBatch(pairs)
<1>1. DOMAIN pairs = 1 .. Len(pairs) /\ \A i \in 1 .. Len(pairs) : pairs[i] \in 1 .. Len(Pairs)
  BY LenProperties, ElementOfSeq
<1>2. \A i \in 1 .. Len(pairs) : StateOf(pairs[i]) \in States(pairs[i])
  BY <1>1, StateIs DEF StateOf
<1>3. /\ DOMAIN batch = 1 .. 3 * Len(pairs)
      /\ \A i \in 1 .. Len(pairs) :
           /\ 3 * (i - 1) + 1 \in 1 .. 3 * Len(pairs)
           /\ 3 * (i - 1) + 2 \in 1 .. 3 * Len(pairs)
           /\ 3 * (i - 1) + 3 \in 1 .. 3 * Len(pairs)
           /\ 3 * (i - 1) + 3 = 3 * i
           /\ batch[3 * (i - 1) + 1] = Pairs[pairs[i]].token0
           /\ batch[3 * (i - 1) + 2] = Pairs[pairs[i]].token1
           /\ batch[3 * (i - 1) + 3] = StateOf(pairs[i]).reserves
  BY FiguresBatchIs
<1> HIDE DEF batch
<1>4. \A m \in DOMAIN batch : WithFailure(batch, k)[m] \in {Failed, batch[m]}
  BY DEF WithFailure
<1>5. ASSUME NEW i \in 1 .. Len(pairs)
      PROVE  /\ WithFailure(batch, k)[3 * (i - 1) + 1] \in {Failed, Pairs[pairs[i]].token0}
             /\ WithFailure(batch, k)[3 * (i - 1) + 2] \in {Failed, Pairs[pairs[i]].token1}
             /\ WithFailure(batch, k)[3 * (i - 1) + 3] \in {Failed} \cup {s.reserves : s \in States(pairs[i])}
  <2>1. PICK x, y, z : x = 3 * (i - 1) + 1 /\ y = 3 * (i - 1) + 2 /\ z = 3 * (i - 1) + 3
    OBVIOUS
  <2>2. /\ x \in DOMAIN batch /\ y \in DOMAIN batch /\ z \in DOMAIN batch
        /\ batch[x] = Pairs[pairs[i]].token0 /\ batch[y] = Pairs[pairs[i]].token1
        /\ batch[z] = StateOf(pairs[i]).reserves
    BY <1>3, <2>1, Zenon
  <2>3. /\ WithFailure(batch, k)[x] \in {Failed, Pairs[pairs[i]].token0}
        /\ WithFailure(batch, k)[y] \in {Failed, Pairs[pairs[i]].token1}
        /\ WithFailure(batch, k)[z] \in {Failed} \cup {s.reserves : s \in States(pairs[i])}
    BY <1>2, <1>4, <2>2
  <2> QED BY <2>1, <2>3
<1> QED BY <1>1, <1>5, Zenon DEF FiguresSound, batch

LEMMA MetaBatchIs ==
  ASSUME NEW T, NEW unknown \in Seq(T), NEW k
  PROVE  MetaSound(unknown, WithFailure(MetaBatch(unknown), k))
<1> DEFINE batch == MetaBatch(unknown)
           n == Len(unknown)
<1>1. n \in Nat /\ DOMAIN unknown = 1 .. n
  BY LenProperties
<1>2. ASSUME NEW i \in 1 .. n, NEW c \in 1 .. 2
      PROVE  batch[2 * (i - 1) + c] = <<Contracts[unknown[i]].symbol, Contracts[unknown[i]].decimals>>[c]
  <2> DEFINE m == 2 * (i - 1) + c
  <2>1. i \in Nat /\ i > 0 /\ i <= n
    BY <1>1, SMT
  <2>2. m \in Nat /\ m > 0 /\ About(m, 2) = i /\ Which(m, 2) = c /\ m <= 2 * n
    <3>1. 2 \in Nat
      BY SMT
    <3>2. /\ m \in Nat /\ m > 0 /\ About(m, 2) = i /\ Which(m, 2) = c
          /\ \A l \in Nat : i <= l => m <= 2 * l
      BY <2>1, <3>1, CallIs, Zenon
    <3> QED BY <1>1, <2>1, <3>2, Zenon
  <2>3. m \in 1 .. 2 * n
    BY <1>1, <2>2, SMT
  <2> HIDE DEF m, n
  <2>4. batch[m] = <<Contracts[unknown[i]].symbol, Contracts[unknown[i]].decimals>>[c]
    BY <2>2, <2>3 DEF MetaBatch, n
  <2> QED BY <2>4 DEF m
<1> HIDE DEF batch, n
<1>3. 1 \in 1 .. 2 /\ 2 \in 1 .. 2
  BY SMT
<1>4. ASSUME NEW i \in 1 .. n
      PROVE  /\ ResultOf(WithFailure(batch, k), 2 * (i - 1) + 1) \in {Failed, Contracts[unknown[i]].symbol}
             /\ ResultOf(WithFailure(batch, k), 2 * (i - 1) + 2) \in {Failed, Contracts[unknown[i]].decimals}
  <2>1. /\ batch[2 * (i - 1) + 1] = Contracts[unknown[i]].symbol
        /\ batch[2 * (i - 1) + 2] = Contracts[unknown[i]].decimals
    BY <1>2, <1>3
  <2>2. \A m : ResultOf(WithFailure(batch, k), m) \in {Failed, batch[m]}
    BY FailureIs
  <2> QED BY <2>1, <2>2
<1> QED BY <1>1, <1>4 DEF MetaSound, batch

-----------------------------------------------------------------------------
(* Rows.                                                                   *)

LEMMA PlacesAre ==
  ASSUME NEW n \in Nat, NEW S
  PROVE  LET w == Without([i \in 1 .. n |-> i], S)
         IN  /\ Len(w) \in Nat /\ DOMAIN w = 1 .. Len(w)
             /\ \A k \in DOMAIN w : w[k] \in 1 .. n /\ w[k] \notin S
             /\ \A i \in 1 .. n : i \notin S => \E k \in DOMAIN w : w[k] = i
<1> DEFINE all_ == [i \in 1 .. n |-> i]
           w == Without(all_, S)
<1>1. all_ \in Seq(1 .. n) /\ Seqs!ToSet(all_) = 1 .. n
  BY DEF Seqs!ToSet
<1> HIDE DEF all_
<1>2. w \in Seq(1 .. n) /\ Seqs!ToSet(w) = (1 .. n) \ S
  BY <1>1, WithoutPicks
<1> HIDE DEF w
<1>3. Len(w) \in Nat /\ DOMAIN w = 1 .. Len(w)
  BY <1>2, LenProperties
<1> QED BY <1>2, <1>3 DEF w, all_, Seqs!ToSet

LEMMA UnknownIs ==
  ASSUME NEW tokens, NEW pairs, Len(pairs) \in Nat, NEW details
  PROVE  \E T : Unknown(tokens, pairs, details) \in Seq(T)
<1> DEFINE mentioned == [m \in 1 .. (2 * Len(pairs)) |->
                           ResultOf(details, 4 * (About(m, 2) - 1) + Which(m, 2))]
           S == {a \in Seqs!ToSet(mentioned) : a = Failed \/ TokenByAddress(tokens, a) # NoToken}
           left_ == Without(mentioned, S)
           D == {i \in DOMAIN left_ : \E j \in 1 .. (i - 1) : left_[j] = left_[i]}
           first == Without([i \in DOMAIN left_ |-> i], D)
           T == {ResultOf(details, 4 * (About(m, 2) - 1) + Which(m, 2)) : m \in 1 .. (2 * Len(pairs))}
           U == {left_[first[n]] : n \in DOMAIN first}
<1>1. mentioned \in Seq(T)
  <2>1. 2 * Len(pairs) \in Nat
    BY SMT
  <2>2. mentioned \in [1 .. 2 * Len(pairs) -> T]
    BY Zenon
  <2> HIDE DEF mentioned, T
  <2> QED BY <2>1, <2>2
<1> HIDE DEF mentioned, T, S
<1>2. left_ \in Seq(T)
  BY <1>1, WithoutPicks
<1> HIDE DEF left_
<1>3. Len(left_) \in Nat /\ DOMAIN left_ = 1 .. Len(left_)
  BY <1>2, LenProperties
<1> HIDE DEF D
<1>4. Len(first) \in Nat /\ DOMAIN first = 1 .. Len(first)
  BY <1>3, PlacesAre
<1> HIDE DEF first
<1>5. [n \in DOMAIN first |-> left_[first[n]]] \in Seq(U)
  <2>1. [n \in DOMAIN first |-> left_[first[n]]] \in [1 .. Len(first) -> U]
    BY <1>4, Zenon
  <2> HIDE DEF U
  <2> QED BY <1>4, <2>1
<1>6. Unknown(tokens, pairs, details) = [n \in DOMAIN first |-> left_[first[n]]]
  BY DEF Unknown, Once, first, D, left_, S, mentioned
<1> QED BY <1>5, <1>6

LEMMA ResolveIs ==
  ASSUME NEW tokens \in Seq(Token), NEW unknown, NEW meta, MetaSound(unknown, meta), NEW a
  PROVE  LET token == Resolve(tokens, unknown, meta, a)
             listed == TokenByAddress(tokens, a)
         IN  /\ token.address = a
             /\ token.isStable = IF listed # NoToken THEN listed.isStable ELSE FALSE
             /\ token.known => /\ listed # NoToken /\ token.symbol = listed.symbol
                               /\ token.decimals = listed.decimals
             /\ ~token.known => /\ listed = NoToken
                                /\ token.decimals \in {Contracts[a].decimals, DEFAULT_DECIMALS}
<1> DEFINE listed == TokenByAddress(tokens, a)
           symbol == MetaOf(unknown, meta, a, 1)
           decimals == MetaOf(unknown, meta, a, 2)
<1>1. decimals \in {Failed, Contracts[a].decimals}
  <2> DEFINE at == {i \in DOMAIN unknown : unknown[i] = a}
             i == CHOOSE j \in at : TRUE
  <2>1. CASE at = {}
    BY <2>1 DEF MetaOf
  <2>2. CASE at # {}
    <3>1. i \in at
      BY <2>2
    <3>2. decimals = ResultOf(meta, 2 * (i - 1) + 2)
      BY <2>2 DEF MetaOf
    <3> HIDE DEF i
    <3>3. i \in DOMAIN unknown /\ unknown[i] = a
      BY <3>1
    <3> QED BY <3>2, <3>3 DEF MetaSound
  <2> QED BY <2>1, <2>2
<1>2. Resolve(tokens, unknown, meta, a) =
        IF listed # NoToken
        THEN [address |-> a, symbol |-> listed.symbol, decimals |-> listed.decimals,
              isStable |-> listed.isStable, known |-> TRUE]
        ELSE [address |-> a, symbol |-> IF symbol = Failed THEN Shortened ELSE symbol,
              decimals |-> IF decimals = Failed THEN DEFAULT_DECIMALS ELSE decimals,
              isStable |-> FALSE, known |-> FALSE]
  BY DEF Resolve
<1> HIDE DEF listed, symbol, decimals
<1>3. CASE listed # NoToken
  BY <1>2, <1>3 DEF listed
<1>4. CASE listed = NoToken
  BY <1>1, <1>2, <1>4 DEF listed
<1> QED BY <1>3, <1>4

(* A row is of one of the pairs, and shows it.                             *)
RowIs(tokens, unknown, meta, row) ==
  /\ row.pair \in 1 .. Len(Pairs)
  /\ row.token0 = Resolve(tokens, unknown, meta, Pairs[row.pair].token0)
  /\ row.token1 = Resolve(tokens, unknown, meta, Pairs[row.pair].token1)
  /\ \E s \in States(row.pair) : <<row.reserve0, row.reserve1>> = s.reserves
  /\ \E s \in States(row.pair) : row.totalSupply = s.supply

LEMMA RowsAre ==
  ASSUME NEW tokens, NEW unknown, NEW meta, NEW pairs \in Seq(1 .. Len(Pairs)), NEW details,
         DetailsSound(pairs, details),
         NEW rows, rows = Rows(tokens, unknown, meta, pairs, details)
  PROVE  /\ \E n \in Nat : DOMAIN rows = 1 .. n
         /\ \A n \in DOMAIN rows : RowIs(tokens, unknown, meta, rows[n])
<1> DEFINE S == {i \in DOMAIN pairs : ~Answered(details, i)}
           whole == Without([i \in DOMAIN pairs |-> i], S)
<1>1. Len(pairs) \in Nat /\ DOMAIN pairs = 1 .. Len(pairs) /\ \A i \in DOMAIN pairs : pairs[i] \in 1 .. Len(Pairs)
  BY LenProperties, ElementOfSeq
<1>2. rows = [n \in DOMAIN whole |-> Row(tokens, unknown, meta, pairs, details, whole[n])]
  BY DEF Rows
<1>3. \A i \in DOMAIN pairs : i \in S <=> ~Answered(details, i)
  OBVIOUS
<1> HIDE DEF S
<1>4. /\ Len(whole) \in Nat /\ DOMAIN whole = 1 .. Len(whole)
      /\ \A n \in DOMAIN whole : whole[n] \in DOMAIN pairs /\ whole[n] \notin S
  BY <1>1, PlacesAre
<1> HIDE DEF whole
<1>5. ASSUME NEW n \in DOMAIN rows
      PROVE  RowIs(tokens, unknown, meta, rows[n])
  <2>1. PICK i \in DOMAIN pairs : i = whole[n] /\ rows[n] = Row(tokens, unknown, meta, pairs, details, i)
    BY <1>2, <1>4
  <2>2. Answered(details, i) /\ pairs[i] \in 1 .. Len(Pairs)
    BY <1>1, <1>2, <1>3, <1>4, <2>1
  <2>3. 1 \in 1 .. 4 /\ 2 \in 1 .. 4 /\ 3 \in 1 .. 4 /\ 4 \in 1 .. 4
    BY SMT
  <2>4. \A m : ResultOf(details, m) # Failed => ResultOf(details, m) = details[m]
    BY DEF ResultOf
  <2>5. /\ details[4 * (i - 1) + 1] = Pairs[pairs[i]].token0
        /\ details[4 * (i - 1) + 2] = Pairs[pairs[i]].token1
        /\ details[4 * (i - 1) + 3] \in {s.reserves : s \in States(pairs[i])}
        /\ details[4 * (i - 1) + 4] \in {s.supply : s \in States(pairs[i])}
    <3>1. /\ ResultOf(details, 4 * (i - 1) + 1) # Failed /\ ResultOf(details, 4 * (i - 1) + 2) # Failed
          /\ ResultOf(details, 4 * (i - 1) + 3) # Failed /\ ResultOf(details, 4 * (i - 1) + 4) # Failed
      BY <2>2, <2>3 DEF Answered
    <3>2. /\ ResultOf(details, 4 * (i - 1) + 1) \in {Failed, Pairs[pairs[i]].token0}
          /\ ResultOf(details, 4 * (i - 1) + 2) \in {Failed, Pairs[pairs[i]].token1}
          /\ ResultOf(details, 4 * (i - 1) + 3) \in {Failed} \cup {s.reserves : s \in States(pairs[i])}
          /\ ResultOf(details, 4 * (i - 1) + 4) \in {Failed} \cup {s.supply : s \in States(pairs[i])}
      BY DEF DetailsSound
    <3> QED BY <2>4, <3>1, <3>2
  <2>6. /\ rows[n].pair = pairs[i]
        /\ rows[n].token0 = Resolve(tokens, unknown, meta, details[4 * (i - 1) + 1])
        /\ rows[n].token1 = Resolve(tokens, unknown, meta, details[4 * (i - 1) + 2])
        /\ rows[n].reserve0 = details[4 * (i - 1) + 3][1]
        /\ rows[n].reserve1 = details[4 * (i - 1) + 3][2]
        /\ rows[n].totalSupply = details[4 * (i - 1) + 4]
    BY <2>1 DEF Row
  <2>7. \A s \in States(pairs[i]) : s.reserves = <<s.reserves[1], s.reserves[2]>>
    BY <2>2, PairsAre
  <2>8. PICK s \in States(pairs[i]) : details[4 * (i - 1) + 3] = s.reserves
    BY <2>5
  <2>9. <<rows[n].reserve0, rows[n].reserve1>> = s.reserves
    BY <2>6, <2>7, <2>8
  <2>10. /\ rows[n].token0 = Resolve(tokens, unknown, meta, Pairs[pairs[i]].token0)
         /\ rows[n].token1 = Resolve(tokens, unknown, meta, Pairs[pairs[i]].token1)
    BY <2>5, <2>6
  <2>11. \E z \in States(pairs[i]) : rows[n].totalSupply = z.supply
    BY <2>5, <2>6
  <2>12. \E z \in States(pairs[i]) : <<rows[n].reserve0, rows[n].reserve1>> = z.reserves
    BY <2>9
  <2> QED BY <2>2, <2>6, <2>10, <2>11, <2>12 DEF RowIs
<1>6. \E n \in Nat : DOMAIN rows = 1 .. n
  BY <1>2, <1>4
<1> QED BY <1>5, <1>6

-----------------------------------------------------------------------------
(* What the pages hold.                                                    *)

PageFields ==
  {"entries", "record", "imports", "settings", "swap", "pool", "cache", "feed", "created", "trades"}
CacheFields == {"count", "addresses", "details", "meta", "balances", "figures"}

Shaped ==
  /\ DOMAIN page = PageFields
  /\ \A f \in {"imports", "settings", "swap", "pool", "cache", "feed"} : DOMAIN page[f] = Tab
  /\ \A t \in Tab : DOMAIN page.cache[t] = CacheFields

(* Settings that the inputs accept; once a tab was opened the storage holds*)
(* no others.                                                              *)
Accepted ==
  {s \in Settings : SlippageAccepted(s.slippageBps) /\ DeadlineAccepted(s.deadlineMinutes)}

SettingsInv ==
  /\ \A t \in Tab : page.settings[t] \in Accepted
  /\ page.record \in {NoData, Corrupt} \cup Settings
  /\ opened # {} /\ ~broken => page.record \in Accepted

ImportsInv ==
  /\ \A t \in Tab : ImportsSound(page.imports[t])
  /\ AsImported(page.entries)
  /\ opened # {} /\ ~broken => ImportsSound(page.entries)

FormsInv == \A t \in Tab : FormSound(page.swap[t]) /\ FormSound(page.pool[t])

BalancesSound(key, data) ==
  \A n \in DOMAIN key[2] :
    ResultOf(data, n) \in {Failed} \cup {s.shares[key[1]] : s \in States(key[2][n])}

(* Every answer is about what was asked, of some state of its pair.        *)
CacheSound(c, created) ==
  /\ c.count \in 0 .. created
  /\ c.addresses.data \in {NoData} \cup Seq((1 .. created) \cup {Failed})
  /\ c.details.data # NoData => DetailsSound(c.details.key, c.details.data)
  /\ c.meta.data # NoData => MetaSound(c.meta.key, c.meta.data)
  /\ c.balances.data # NoData => BalancesSound(c.balances.key, c.balances.data)
  /\ c.figures.data # NoData => FiguresSound(c.figures.key, c.figures.data)

ReadsInv ==
  /\ page.created \in 0 .. Len(Pairs) /\ TradesSound(page.trades, page.created)
  /\ \A t \in Tab : CacheSound(page.cache[t], page.created)

PageInv == Shaped /\ SettingsInv /\ ImportsInv /\ FormsInv /\ ReadsInv

-----------------------------------------------------------------------------
(* What a step leaves as it is.                                            *)

Quiet == broken' = broken /\ opened' = opened

Keeps(F) == DOMAIN page' = PageFields /\ \A f \in PageFields \ F : page'[f] = page[f]

LEMMA QuietSteps ==
  /\ Stays => Quiet
  /\ \A bound : StaysBut(bound) => Quiet
  /\ \A k : Counted(k) => Quiet
  /\ ActivityNext => Quiet /\ page' = page
<1>1. Stays => Quiet
  BY DEF Stays, Quiet, activityVars, observers
<1>2. \A bound : StaysBut(bound) => Quiet
  BY DEF StaysBut, Quiet, observers
<1>3. \A k : Counted(k) => Quiet
  BY DEF Counted, Quiet, observers
<1>4. ASSUME NEW t \in Tab, NEW x \in Tx, NEW a \in Account,
             \/ LeaveForm(t) \/ Clear(t) \/ SwitchAccount(t, a)
             \/ Ask(t, x) \/ NoticeReceipt(t, x) \/ NoticeError(t, x) \/ Dismiss(t, x)
      PROVE  Quiet /\ page' = page
  BY <1>4 DEF Quiet, LeaveForm, Clear, SwitchAccount, Ask, NoticeReceipt, NoticeError, Dismiss, observers
<1>5. ASSUME NEW x \in Tx, WalletRefuses(x) \/ WalletSends(x) \/ Ends(x) \/ Ages(x)
      PROVE  Quiet /\ page' = page
  BY <1>5 DEF Quiet, WalletRefuses, WalletSends, Ends, Ages, observers
<1>6. ASSUME NEW t \in Tab, LeaveForm(t) \/ Clear(t)
      PROVE  Quiet /\ page' = page
  BY <1>6 DEF Quiet, LeaveForm, Clear, observers
<1>7. ASSUME NEW t \in Tab, NEW x \in Tx, Ask(t, x) \/ NoticeReceipt(t, x) \/ NoticeError(t, x) \/ Dismiss(t, x)
      PROVE  Quiet /\ page' = page
  BY <1>7 DEF Quiet, Ask, NoticeReceipt, NoticeError, Dismiss, observers
<1>8. ASSUME NEW t \in Tab, NEW a \in Account, SwitchAccount(t, a)
      PROVE  Quiet /\ page' = page
  BY <1>8 DEF Quiet, SwitchAccount, observers
<1>9. ActivityNext => Quiet /\ page' = page
  BY <1>5, <1>6, <1>7, <1>8 DEF ActivityNext
<1> QED BY <1>1, <1>2, <1>3, <1>9

LEMMA SettingsKept ==
  ASSUME SettingsInv, Quiet, page'.settings = page.settings, page'.record = page.record
  PROVE  SettingsInv'
BY DEF SettingsInv, Quiet

LEMMA ImportsKept ==
  ASSUME ImportsInv, Quiet, page'.imports = page.imports, page'.entries = page.entries
  PROVE  ImportsInv'
BY DEF ImportsInv, Quiet

LEMMA FormsKept ==
  ASSUME FormsInv, page'.swap = page.swap, page'.pool = page.pool
  PROVE  FormsInv'
BY DEF FormsInv

LEMMA ReadsKept ==
  ASSUME ReadsInv, page'.cache = page.cache, page'.created = page.created, page'.trades = page.trades
  PROVE  ReadsInv'
BY DEF ReadsInv

LEMMA AllKept ==
  ASSUME PageInv, Quiet, page' = page
  PROVE  PageInv'
BY SettingsKept, ImportsKept, FormsKept, ReadsKept DEF PageInv, Shaped

-----------------------------------------------------------------------------
(* The settings.                                                           *)

LEMMA DefaultsAccepted == DEFAULT_SETTINGS \in Accepted
BY SMT DEF DEFAULT_SETTINGS, Accepted, Settings, SlippageAccepted, DeadlineAccepted

LEMMA HydratedAccepted ==
  ASSUME NEW record \in {NoData, Corrupt} \cup Settings
  PROVE  /\ HydratedSettings(record) \in Accepted
         /\ record \in Accepted => HydratedSettings(record) = record
<1>1. DEFAULT_SETTINGS \in Accepted
  BY DefaultsAccepted
<1>2. CASE record \in {NoData, Corrupt}
  <2>1. record \notin Accepted
    BY <1>2, SettingsAssumption DEF Accepted
  <2> QED BY <1>1, <1>2, <2>1 DEF HydratedSettings
<1>3. CASE record \notin {NoData, Corrupt}
  <2>1. record \in Settings
    BY <1>3
  <2> DEFINE bps == IF SlippageAccepted(record.slippageBps) THEN record.slippageBps
                    ELSE DEFAULT_SETTINGS.slippageBps
             minutes == IF DeadlineAccepted(record.deadlineMinutes) THEN record.deadlineMinutes
                        ELSE DEFAULT_SETTINGS.deadlineMinutes
  <2>2. HydratedSettings(record) = [slippageBps |-> bps, deadlineMinutes |-> minutes]
    BY <1>3 DEF HydratedSettings
  <2>3. /\ bps \in Int /\ SlippageAccepted(bps) /\ minutes \in Int /\ DeadlineAccepted(minutes)
    BY <1>1, <2>1 DEF Accepted, Settings
  <2>4. record \in Accepted => bps = record.slippageBps /\ minutes = record.deadlineMinutes
    BY DEF Accepted
  <2>5. record = [slippageBps |-> record.slippageBps, deadlineMinutes |-> record.deadlineMinutes]
    BY <2>1 DEF Settings
  <2> HIDE DEF bps, minutes
  <2> QED BY <2>2, <2>3, <2>4, <2>5 DEF Accepted, Settings
<1> QED BY <1>2, <1>3

(* Settings of a tab are changed, and written.                             *)
LEMMA SettingsSet ==
  ASSUME PageInv, Quiet, NEW t \in Tab, NEW s \in Accepted, WithSettings(t, s)
  PROVE  PageInv'
<1>1. /\ DOMAIN page = PageFields /\ DOMAIN page.settings = Tab
      /\ page' = [page EXCEPT !.settings[t] = s, !.record = Kept(@, s)]
  BY DEF PageInv, Shaped, WithSettings
<1>2. /\ DOMAIN page' = PageFields
      /\ page'.settings = [page.settings EXCEPT ![t] = s]
      /\ page'.record = Kept(page.record, s)
      /\ page'.entries = page.entries /\ page'.imports = page.imports
      /\ page'.swap = page.swap /\ page'.pool = page.pool /\ page'.cache = page.cache
      /\ page'.feed = page.feed /\ page'.created = page.created /\ page'.trades = page.trades
  BY <1>1 DEF PageFields
<1>3. Shaped'
  BY <1>1, <1>2 DEF PageInv, Shaped
<1>4. SettingsInv'
  <2>1. \A u \in Tab : page'.settings[u] \in Accepted
    BY <1>1, <1>2 DEF PageInv, SettingsInv
  <2> QED BY <1>2, <2>1 DEF PageInv, SettingsInv, Quiet, Kept, Accepted
<1> QED BY <1>2, <1>3, <1>4, ImportsKept, FormsKept, ReadsKept DEF PageInv

(* The three inputs, which accept no others.                               *)
LEMMA InputsAccepted ==
  ASSUME PageInv, NEW t \in Tab
  PROVE  /\ \A bps \in Slippages : SetSlippage(t, bps) => PageInv'
         /\ \A minutes \in Deadlines : SetDeadline(t, minutes) => PageInv'
         /\ ResetSettings(t) => PageInv'
<1>1. page.settings[t] \in Accepted
  BY DEF PageInv, SettingsInv
<1>2. ASSUME NEW bps \in Slippages, SetSlippage(t, bps) PROVE PageInv'
  <2>1. bps \in Int /\ SlippageAccepted(bps)
    BY <1>2, SettingsAssumption DEF SetSlippage
  <2>2. PICK s : s = [page.settings[t] EXCEPT !.slippageBps = bps]
    OBVIOUS
  <2>3. s \in Accepted
    BY <1>1, <2>1, <2>2 DEF Accepted, Settings
  <2>4. Quiet /\ WithSettings(t, s)
    BY <1>2, <2>2, QuietSteps DEF SetSlippage
  <2> QED BY <2>3, <2>4, SettingsSet
<1>3. ASSUME NEW minutes \in Deadlines, SetDeadline(t, minutes) PROVE PageInv'
  <2>1. minutes \in Int /\ DeadlineAccepted(minutes)
    BY <1>3, SettingsAssumption DEF SetDeadline
  <2>2. PICK s : s = [page.settings[t] EXCEPT !.deadlineMinutes = minutes]
    OBVIOUS
  <2>3. s \in Accepted
    BY <1>1, <2>1, <2>2 DEF Accepted, Settings
  <2>4. Quiet /\ WithSettings(t, s)
    BY <1>3, <2>2, QuietSteps DEF SetDeadline
  <2> QED BY <2>3, <2>4, SettingsSet
<1>4. ASSUME ResetSettings(t) PROVE PageInv'
  <2>1. Quiet /\ WithSettings(t, DEFAULT_SETTINGS)
    BY <1>4, QuietSteps DEF ResetSettings
  <2> QED BY <2>1, DefaultsAccepted, SettingsSet
<1> QED BY <1>2, <1>3, <1>4

-----------------------------------------------------------------------------
(* The imports, through the storage and back.                              *)

LEMMA LookedUp ==
  ASSUME NEW list, AsImported(list), NEW a, a # Native
  PROVE  TokenByAddress(list, a) = NoToken <=> \A i \in DOMAIN list : list[i].address # a
<1>1. list \in Seq(Token)
  BY AsImportedIs
<1> QED BY <1>1, ByAddressIs

LEMMA LeftImported ==
  ASSUME NEW list, AsImported(list), NEW S
  PROVE  /\ AsImported(Without(list, S))
         /\ \A i \in DOMAIN Without(list, S) :
              \E j \in DOMAIN list : Without(list, S)[i] = list[j] /\ list[j] \notin S
<1> DEFINE T == {Metadata(a) : a \in DOMAIN Contracts}
           w == Without(list, S)
           key == [x \in T |-> x.address]
<1>1. list \in Seq(T)
  BY DEF AsImported
<1>2. DOMAIN list = 1 .. Len(list) /\ \A i \in DOMAIN list : list[i] \in T
  BY <1>1, LenProperties, ElementOfSeq
<1>3. \A i \in DOMAIN list : \A j \in DOMAIN list : list[i].address = list[j].address => i = j
  BY DEF AsImported
<1>4. \A i \in DOMAIN list : \A j \in DOMAIN list : key[list[i]] = key[list[j]] => i = j
  BY <1>2, <1>3
<1>5. w \in Seq(T) /\ Seqs!ToSet(w) = Seqs!ToSet(list) \ S
  BY <1>1, WithoutPicks
<1> HIDE DEF T, key
<1>6. \A i \in DOMAIN w : \A j \in DOMAIN w : key[w[i]] = key[w[j]] => i = j
  BY <1>1, <1>4, WithoutDistinct
<1> HIDE DEF w
<1>7. \A i \in DOMAIN w : w[i] \in T
  BY <1>5, LenProperties, ElementOfSeq
<1>8. \A i \in DOMAIN w : \A j \in DOMAIN w : w[i].address = w[j].address => i = j
  BY <1>6, <1>7 DEF key
<1>9. AsImported(w)
  BY <1>5, <1>8 DEF AsImported, T
<1>10. \A i \in DOMAIN w : \E j \in DOMAIN list : w[i] = list[j] /\ list[j] \notin S
  BY <1>5 DEF Seqs!ToSet
<1> QED BY <1>9, <1>10 DEF w

LEMMA CleanIs ==
  ASSUME NEW list, AsImported(list)
  PROVE  /\ ImportsSound(Clean(list))
         /\ ImportsSound(list) => Clean(list) = Without(list, {e \in Seqs!ToSet(list) : ~Valid(e)})
<1> DEFINE S == {s \in Seqs!ToSet(list) : ~Valid(s) \/ TokenByAddress(TOKEN_LIST, s.address) # NoToken}
<1>1. Clean(list) = Without(list, S)
  BY DEF Clean
<1>2. \A i \in DOMAIN list : list[i] \notin S => Unlisted(list[i].address)
  BY DEF Unlisted, Seqs!ToSet
<1>3. ImportsSound(list) => S = {e \in Seqs!ToSet(list) : ~Valid(e)}
  BY DEF ImportsSound, Unlisted, Seqs!ToSet
<1> HIDE DEF S
<1>4. ImportsSound(Without(list, S))
  BY <1>2, LeftImported DEF ImportsSound
<1> QED BY <1>1, <1>3, <1>4

LEMMA RemovedIs ==
  ASSUME NEW list, ImportsSound(list), NEW a
  PROVE  ImportsSound(Removed(list, a))
BY LeftImported DEF Removed, ImportsSound

LEMMA ImportedIs ==
  ASSUME NEW list, ImportsSound(list), NEW a \in DOMAIN Contracts, Importable(Tokens(list), a)
  PROVE  /\ ImportsSound(Imported(list, Metadata(a)))
         /\ Unlisted(a)
<1> DEFINE token == Metadata(a)
           T == {Metadata(b) : b \in DOMAIN Contracts}
           new == Append(list, token)
<1>1. token.address = a /\ a # Native /\ token \in T
  BY MetadataIs
<1>2. list \in Seq(T) /\ AsImported(list)
  BY DEF ImportsSound, AsImported
<1>3. \A i \in DOMAIN TOKEN_LIST : TOKEN_LIST[i].address # a
  <2>1. \A i \in DOMAIN Tokens(list) : Tokens(list)[i].address # a
    BY <1>1, TokensIs, ByAddressIs DEF Importable
  <2> QED BY <2>1, TokensIs
<1>4. Unlisted(a)
  BY <1>3, TokenListIs, ByAddressIs DEF Unlisted
<1> HIDE DEF token, T
<1>5. CASE \E i \in DOMAIN list : list[i].address = a
  <2>1. Imported(list, token) = list
    BY <1>1, <1>2, <1>5, LookedUp DEF Imported
  <2> QED BY <1>4, <2>1 DEF token
<1>6. CASE \A i \in DOMAIN list : list[i].address # a
  <2>1. Imported(list, token) = new
    BY <1>1, <1>2, <1>4, <1>6, LookedUp DEF Imported, Unlisted
  <2>2. Len(list) \in Nat /\ DOMAIN list = 1 .. Len(list)
    BY <1>2, LenProperties
  <2>3. /\ new \in Seq(T) /\ Len(new) = Len(list) + 1
        /\ \A i \in 1 .. Len(list) : new[i] = list[i]
        /\ new[Len(list) + 1] = token
    BY <1>1, <1>2, AppendProperties
  <2> HIDE DEF new
  <2>4. DOMAIN new = 1 .. Len(list) + 1
    BY <2>3, LenProperties
  <2>5. \A i \in 1 .. Len(list) + 1 : i \in 1 .. Len(list) \/ i = Len(list) + 1
    BY <2>2, SMT
  <2>6. \A i \in DOMAIN new : \A j \in DOMAIN new : new[i].address = new[j].address => i = j
    BY <1>1, <1>2, <1>6, <2>2, <2>3, <2>4, <2>5 DEF AsImported
  <2>7. \A i \in DOMAIN new : Unlisted(new[i].address)
    BY <1>1, <1>4, <2>2, <2>3, <2>4, <2>5 DEF ImportsSound
  <2> QED BY <1>4, <2>1, <2>3, <2>6, <2>7 DEF ImportsSound, AsImported, T, token
<1> QED BY <1>5, <1>6

-----------------------------------------------------------------------------
(* Opening and closing a tab.                                              *)

LEMMA LinksSound ==
  ASSUME NEW imports, ImportsSound(imports), NEW link, NEW list \in {TOKEN_LIST, Tokens(imports)}
  PROVE  FormSound(SwapFromLink(list, Defaults, link)) /\ FormSound(PoolFromLink(list, Defaults, link))
<1>1. CASE list = TOKEN_LIST
  <2>1. list = Tokens(<<>>) /\ ImportsSound(<<>>)
    BY <1>1, NoImports
  <2> QED BY <2>1, DefaultsAre, SwapLinkSound, PoolLinkSound
<1>2. CASE list = Tokens(imports)
  BY <1>2, DefaultsAre, SwapLinkSound, PoolLinkSound
<1> QED BY <1>1, <1>2

LEMMA NothingRead ==
  ASSUME NEW created \in Nat
  PROVE  CacheSound(EmptyCache, created) /\ DOMAIN EmptyCache = CacheFields
<1>1. 0 \in 0 .. created
  BY SMT
<1>2. /\ EmptyCache.count = 0
      /\ EmptyCache.addresses.data = NoData /\ EmptyCache.details.data = NoData
      /\ EmptyCache.meta.data = NoData /\ EmptyCache.balances.data = NoData
      /\ EmptyCache.figures.data = NoData
  BY DEF EmptyCache, Nothing
<1>3. DOMAIN EmptyCache = CacheFields
  BY DEF EmptyCache, CacheFields
<1> QED BY <1>1, <1>2, <1>3 DEF CacheSound

(* Of a tab that takes over the imports and the settings.                  *)
LEMMA TabMounted ==
  ASSUME PageInv, NEW t \in Tab, MountTab(t)
  PROVE  /\ PageInv'
         /\ page'.imports[t] = HydratedImports(page.entries)
         /\ page'.settings[t] = HydratedSettings(page.record)
         /\ page'.entries = page.entries /\ page'.record = page.record
<1>1. Quiet /\ AsImported(page.entries) /\ page.record \in {NoData, Corrupt} \cup Settings
  BY DEF PageInv, SettingsInv, ImportsInv, MountTab, Mount, Quiet, observers
<1> DEFINE imports == HydratedImports(page.entries)
           settings == HydratedSettings(page.record)
<1>2. page' = [page EXCEPT
        !.imports[t] = imports, !.entries = page.entries,
        !.settings[t] = settings, !.record = page.record]
  BY DEF MountTab, FirstWrite
<1> HIDE DEF imports, settings
<1>3. DOMAIN page = PageFields /\ DOMAIN page.imports = Tab /\ DOMAIN page.settings = Tab
  BY DEF PageInv, Shaped
<1>4. /\ DOMAIN page' = PageFields
      /\ page'.imports = [page.imports EXCEPT ![t] = imports]
      /\ page'.settings = [page.settings EXCEPT ![t] = settings]
      /\ \A f \in PageFields \ {"imports", "settings"} : page'[f] = page[f]
  BY <1>2, <1>3 DEF PageFields
<1>5. /\ page'.entries = page.entries /\ page'.record = page.record
      /\ page'.swap = page.swap /\ page'.pool = page.pool
      /\ page'.cache = page.cache /\ page'.feed = page.feed
      /\ page'.created = page.created /\ page'.trades = page.trades
  BY <1>4 DEF PageFields
<1>6. Shaped'
  BY <1>3, <1>4, <1>5 DEF PageInv, Shaped
<1>7. settings \in Accepted
  BY <1>1, HydratedAccepted DEF settings
<1>8. ImportsSound(imports)
  BY <1>1, CleanIs DEF HydratedImports, imports
<1>9. SettingsInv'
  <2>1. \A u \in Tab : page'.settings[u] \in Accepted
    BY <1>3, <1>4, <1>7 DEF PageInv, SettingsInv
  <2> QED BY <1>1, <1>5, <2>1 DEF PageInv, SettingsInv, Quiet
<1>10. ImportsInv'
  <2>1. \A u \in Tab : ImportsSound(page'.imports[u])
    BY <1>3, <1>4, <1>8 DEF PageInv, ImportsInv
  <2> QED BY <1>1, <1>5, <2>1 DEF PageInv, ImportsInv, Quiet
<1>11. FormsInv'
  BY <1>5 DEF PageInv, FormsInv
<1>12. ReadsInv'
  BY <1>5, ReadsKept DEF PageInv
<1>13. page'.imports[t] = imports /\ page'.settings[t] = settings
  BY <1>3, <1>4
<1> QED BY <1>5, <1>6, <1>9, <1>10, <1>11, <1>12, <1>13 DEF PageInv, imports, settings

(* Of a tab that writes them back and fills its forms.                     *)
LEMMA TabOpened ==
  ASSUME PageInv, NEW t \in Tab, OpenTab(t)
  PROVE  PageInv'
<1>1. broken' = broken
  BY DEF OpenTab, Open
<1> DEFINE imports == page.imports[t]
           settings == page.settings[t]
<1>2. PICK swap, pool :
        /\ FormSound(swap) /\ FormSound(pool)
        /\ page' = [page EXCEPT
             !.entries = Kept(@, imports), !.record = Kept(@, settings),
             !.swap[t] = swap, !.pool[t] = pool]
  <2>1. PICK link \in left["links"], list \in {TOKEN_LIST, Tokens(imports)} :
          page' = [page EXCEPT
            !.entries = Kept(@, imports), !.record = Kept(@, settings),
            !.swap[t] = SwapFromLink(list, Defaults, link),
            !.pool[t] = PoolFromLink(list, Defaults, link)]
    BY DEF OpenTab, TokensOf
  <2>2. ImportsSound(imports)
    BY DEF PageInv, ImportsInv
  <2>3. FormSound(SwapFromLink(list, Defaults, link)) /\ FormSound(PoolFromLink(list, Defaults, link))
    BY <2>2, LinksSound
  <2> QED BY <2>1, <2>3
<1>3. /\ settings \in Accepted /\ ImportsSound(imports) /\ AsImported(page.entries)
      /\ page.record \in {NoData, Corrupt} \cup Settings
  BY DEF PageInv, SettingsInv, ImportsInv
<1> HIDE DEF imports, settings
<1>4. DOMAIN page = PageFields /\ DOMAIN page.swap = Tab /\ DOMAIN page.pool = Tab
  BY DEF PageInv, Shaped
<1>5. /\ DOMAIN page' = PageFields
      /\ page'.entries = Kept(page.entries, imports) /\ page'.record = Kept(page.record, settings)
      /\ page'.swap = [page.swap EXCEPT ![t] = swap]
      /\ page'.pool = [page.pool EXCEPT ![t] = pool]
      /\ page'.imports = page.imports /\ page'.settings = page.settings
      /\ page'.cache = page.cache /\ page'.feed = page.feed
      /\ page'.created = page.created /\ page'.trades = page.trades
  BY <1>2, <1>4 DEF PageFields
<1>6. Shaped'
  BY <1>4, <1>5 DEF PageInv, Shaped
<1>7. SettingsInv'
  <2>1. page'.record = IF broken THEN page.record ELSE settings
    BY <1>5 DEF Kept
  <2> QED BY <1>1, <1>3, <1>5, <2>1 DEF PageInv, SettingsInv, Accepted
<1>8. ImportsInv'
  <2>1. page'.entries = IF broken THEN page.entries ELSE imports
    BY <1>5 DEF Kept
  <2>2. AsImported(page'.entries) /\ (~broken => ImportsSound(page'.entries))
    BY <1>3, <2>1 DEF ImportsSound
  <2> QED BY <1>1, <1>5, <2>2 DEF PageInv, ImportsInv
<1>9. FormsInv'
  BY <1>2, <1>4, <1>5 DEF PageInv, FormsInv
<1>10. ReadsInv'
  BY <1>5, ReadsKept DEF PageInv
<1> QED BY <1>6, <1>7, <1>8, <1>9, <1>10 DEF PageInv

LEMMA TabClosed ==
  ASSUME PageInv, NEW t \in Tab, CloseTab(t)
  PROVE  PageInv'
<1>1. Quiet
  BY DEF CloseTab, Close, Quiet, observers
<1>2. /\ DOMAIN page = PageFields
      /\ DOMAIN page.imports = Tab /\ DOMAIN page.settings = Tab
      /\ DOMAIN page.swap = Tab /\ DOMAIN page.pool = Tab
      /\ DOMAIN page.cache = Tab /\ DOMAIN page.feed = Tab
  BY DEF PageInv, Shaped
<1>3. PICK empty : empty = EmptyCache
  OBVIOUS
<1>4. page' = [page EXCEPT
       !.imports[t] = <<>>, !.settings[t] = DEFAULT_SETTINGS,
       !.swap[t] = Defaults, !.pool[t] = Defaults,
       !.cache[t] = empty, !.feed[t] = NoData]
  BY <1>3 DEF CloseTab
<1>5. /\ DOMAIN page' = PageFields
      /\ page'.imports = [page.imports EXCEPT ![t] = <<>>]
      /\ page'.entries = page.entries
      /\ page'.settings = [page.settings EXCEPT ![t] = DEFAULT_SETTINGS]
      /\ page'.record = page.record
      /\ page'.swap = [page.swap EXCEPT ![t] = Defaults]
      /\ page'.pool = [page.pool EXCEPT ![t] = Defaults]
      /\ page'.cache = [page.cache EXCEPT ![t] = empty]
      /\ page'.feed = [page.feed EXCEPT ![t] = NoData]
      /\ page'.created = page.created /\ page'.trades = page.trades
  BY <1>2, <1>4 DEF PageFields
<1>6. page.created \in Nat
  <2>1. page.created \in 0 .. Len(Pairs) /\ Len(Pairs) \in Nat
    BY PairsAre DEF PageInv, ReadsInv
  <2> QED BY <2>1, PairsAre, SMT
<1>7. CacheSound(empty, page.created) /\ DOMAIN empty = CacheFields
  BY <1>3, <1>6, NothingRead
<1>8. Shaped'
  <2>1. \A u \in Tab : DOMAIN page'.cache[u] = CacheFields
    BY <1>2, <1>5, <1>7 DEF PageInv, Shaped
  <2> QED BY <1>2, <1>5, <2>1 DEF Shaped
<1>9. SettingsInv'
  <2>1. \A u \in Tab : page'.settings[u] \in Accepted
    BY <1>2, <1>5, DefaultsAccepted DEF PageInv, SettingsInv
  <2> QED BY <1>1, <1>5, <2>1 DEF PageInv, SettingsInv, Quiet
<1>10. ImportsInv'
  <2>1. \A u \in Tab : ImportsSound(page'.imports[u])
    BY <1>2, <1>5, NoImports DEF PageInv, ImportsInv
  <2> QED BY <1>1, <1>5, <2>1 DEF PageInv, ImportsInv, Quiet
<1>11. FormsInv'
  BY <1>2, <1>5, DefaultsAre DEF PageInv, FormsInv
<1>12. ReadsInv'
  <2>1. \A u \in Tab : CacheSound(page'.cache[u], page.created)
    BY <1>2, <1>5, <1>7 DEF PageInv, ReadsInv
  <2> QED BY <1>5, <2>1 DEF PageInv, ReadsInv
<1> QED BY <1>8, <1>9, <1>10, <1>11, <1>12 DEF PageInv

-----------------------------------------------------------------------------
(* The rows and positions that a tab shows.                                *)

LEMMA CreatedIs ==
  ASSUME ReadsInv
  PROVE  /\ page.created \in Nat /\ Len(Pairs) \in Nat /\ page.created <= Len(Pairs)
         /\ \A i \in 1 .. page.created : i \in 1 .. Len(Pairs)
<1>1. page.created \in 0 .. Len(Pairs) /\ Len(Pairs) \in Nat
  BY PairsAre DEF ReadsInv
<1> QED BY <1>1, SMT

LEMMA LatestIs == \A query, key : /\ Latest(query, key) # NoData => query.key = key
                                  /\ Latest(query, key) \in {NoData, query.data}
BY DEF Latest

LEMMA KnownPairsAre ==
  ASSUME ReadsInv, NEW t \in Tab
  PROVE  /\ KnownPairs(t) \in Seq(1 .. Len(Pairs)) /\ Len(KnownPairs(t)) \in Nat
         /\ Seqs!ToSet(KnownPairs(t)) \subseteq 1 .. page.created
<1> DEFINE addresses == Latest(page.cache[t].addresses, page.cache[t].count)
           T == (1 .. page.created) \cup {Failed}
           known == Without(addresses, {Failed})
<1>1. addresses \in {NoData} \cup Seq(T)
  BY LatestIs DEF ReadsInv, CacheSound
<1>2. KnownPairs(t) = IF addresses = NoData THEN <<>> ELSE known
  BY DEF KnownPairs, PairAddresses
<1> HIDE DEF addresses, T
<1>3. CASE addresses = NoData
  <2>1. <<>> \in Seq(1 .. Len(Pairs)) /\ Len(<<>>) = 0 /\ DOMAIN <<>> = {}
    BY EmptySeq
  <2> QED BY <1>2, <1>3, <2>1 DEF Seqs!ToSet
<1>4. CASE addresses # NoData
  <2>1. known \in Seq(T) /\ Seqs!ToSet(known) = Seqs!ToSet(addresses) \ {Failed}
    BY <1>1, <1>4, WithoutPicks
  <2>2. \A i \in DOMAIN addresses : addresses[i] \in T
    BY <1>1, <1>4, ElementOfSeq, LenProperties
  <2>3. Seqs!ToSet(known) \subseteq 1 .. page.created
    BY <2>1, <2>2 DEF Seqs!ToSet, T
  <2> HIDE DEF known
  <2>4. Len(known) \in Nat /\ DOMAIN known = 1 .. Len(known) /\ known = [i \in 1 .. Len(known) |-> known[i]]
    BY <2>1, LenProperties
  <2>5. \A i \in 1 .. Len(known) : known[i] \in 1 .. Len(Pairs)
    BY <2>3, <2>4, CreatedIs DEF Seqs!ToSet
  <2>6. known \in [1 .. Len(known) -> 1 .. Len(Pairs)]
    BY <2>4, <2>5
  <2>7. known \in Seq(1 .. Len(Pairs))
    BY <2>4, <2>6
  <2> QED BY <1>2, <1>4, <2>3, <2>4, <2>7
<1> QED BY <1>3, <1>4

LEMMA AnswersSound ==
  ASSUME ReadsInv, NEW t \in Tab
  PROVE  /\ DetailsSound(KnownPairs(t), Details(t))
         /\ MetaSound(UnknownTokens(t), Latest(page.cache[t].meta, UnknownTokens(t)))
<1>1. DetailsSound(KnownPairs(t), Details(t))
  <2>1. CASE Details(t) = NoData
    BY <2>1, NoDataIs DEF DetailsSound
  <2>2. CASE Details(t) # NoData
    BY <2>2, LatestIs DEF Details, ReadsInv, CacheSound
  <2> QED BY <2>1, <2>2
<1>2. ASSUME NEW unknown
      PROVE  MetaSound(unknown, Latest(page.cache[t].meta, unknown))
  <2>1. CASE Latest(page.cache[t].meta, unknown) = NoData
    BY <2>1, NoDataIs DEF MetaSound
  <2>2. CASE Latest(page.cache[t].meta, unknown) # NoData
    BY <2>2, LatestIs DEF ReadsInv, CacheSound
  <2> QED BY <2>1, <2>2
<1> QED BY <1>1, <1>2

(* What is shown of the token at an address.                               *)
ShownAs(list, token, a) ==
  LET listed == TokenByAddress(list, a)
  IN  /\ token.address = a
      /\ token.isStable = IF listed # NoToken THEN listed.isStable ELSE FALSE
      /\ token.known => /\ listed # NoToken /\ token.symbol = listed.symbol
                        /\ token.decimals = listed.decimals
      /\ ~token.known => /\ listed = NoToken
                         /\ token.decimals \in {Contracts[a].decimals, DEFAULT_DECIMALS}

ShownRow(list, row) ==
  LET pair == Pairs[row.pair]
  IN  /\ row.pair \in 1 .. Len(Pairs)
      /\ pair.token0 \in DOMAIN Contracts /\ pair.token1 \in DOMAIN Contracts /\ pair.token0 # pair.token1
      /\ ShownAs(list, row.token0, pair.token0) /\ ShownAs(list, row.token1, pair.token1)
      /\ \E s \in States(row.pair) : <<row.reserve0, row.reserve1>> = s.reserves
      /\ \E s \in States(row.pair) : row.totalSupply = s.supply

LEMMA PoolsAre ==
  ASSUME PageInv, NEW t \in Tab
  PROVE  /\ TokensOf(t) \in Seq(Token)
         /\ \E n \in Nat : DOMAIN Pools(t) = 1 .. n
         /\ \A n \in DOMAIN Pools(t) : ShownRow(TokensOf(t), Pools(t)[n])
<1> DEFINE list == TokensOf(t)
           unknown == UnknownTokens(t)
           meta == Latest(page.cache[t].meta, unknown)
           pairs == KnownPairs(t)
           details == Details(t)
           rows == Pools(t)
<1>1. list \in Seq(Token)
  BY TokensIs DEF PageInv, ImportsInv, TokensOf
<1>2. /\ pairs \in Seq(1 .. Len(Pairs))
      /\ DetailsSound(pairs, details) /\ MetaSound(unknown, meta)
  BY KnownPairsAre, AnswersSound DEF PageInv
<1>3. rows = Rows(list, unknown, meta, pairs, details)
  BY DEF Pools
<1> HIDE DEF list, unknown, meta, pairs, details, rows
<1>4. /\ \E n \in Nat : DOMAIN rows = 1 .. n
      /\ \A n \in DOMAIN rows : RowIs(list, unknown, meta, rows[n])
  BY <1>2, <1>3, RowsAre
<1>5. \A a : ShownAs(list, Resolve(list, unknown, meta, a), a)
  BY <1>1, <1>2, ResolveIs DEF ShownAs
<1>6. \A n \in DOMAIN rows : ShownRow(list, rows[n])
  BY <1>4, <1>5, PairsAre DEF ShownRow, RowIs
<1> QED BY <1>1, <1>4, <1>6 DEF list, rows

LEMMA PositionsAre ==
  ASSUME PageInv, NEW t \in Tab, NEW position \in PositionsOf(t)
  PROVE  /\ \E n \in DOMAIN Pools(t) : /\ position.pair = Pools(t)[n].pair
                                       /\ position.token0 = Pools(t)[n].token0
                                       /\ position.token1 = Pools(t)[n].token1
         /\ \E s \in States(position.pair) : position.lpBalance = s.shares[account[t]]
<1> DEFINE rows == Pools(t)
           key == BalancesKey(t, rows)
           balances == Latest(page.cache[t].balances, key)
<1>1. PositionsOf(t) = Positions(rows, balances)
  BY DEF PositionsOf
<1>2. key[1] = account[t] /\ key[2] = [i \in DOMAIN rows |-> rows[i].pair]
  BY DEF BalancesKey
<1>3. balances # NoData =>
        \A n \in DOMAIN key[2] : ResultOf(balances, n) \in {Failed} \cup {s.shares[key[1]] : s \in States(key[2][n])}
  <2>1. balances # NoData => page.cache[t].balances.key = key /\ page.cache[t].balances.data = balances
    BY LatestIs
  <2> HIDE DEF key, balances
  <2> QED BY <2>1 DEF PageInv, ReadsInv, CacheSound, BalancesSound
<1> HIDE DEF rows, key, balances
<1>4. PICK i \in DOMAIN rows : /\ ResultOf(balances, i) \notin {Failed, 0}
                               /\ position = Position(rows, rows[i], balances[i])
  BY <1>1 DEF Positions
<1>5. /\ position.pair = rows[i].pair /\ position.token0 = rows[i].token0
      /\ position.token1 = rows[i].token1 /\ position.lpBalance = balances[i]
  BY <1>4 DEF Position
<1>6. ResultOf(balances, i) = balances[i] /\ balances # NoData
  BY <1>4 DEF ResultOf
<1>7. \E s \in States(rows[i].pair) : balances[i] = s.shares[account[t]]
  BY <1>2, <1>3, <1>4, <1>6
<1> QED BY <1>4, <1>5, <1>7 DEF rows

-----------------------------------------------------------------------------
(* Choosing tokens.                                                        *)

(* A form of a tab is set.                                                 *)
LEMMA FormSet ==
  ASSUME PageInv, NEW t \in Tab, NEW form \in Form, NEW new, FormSound(new),
         DOMAIN page' = PageFields, page'[form] = [page[form] EXCEPT ![t] = new],
         \A f \in PageFields \ {form, "imports", "entries"} : page'[f] = page[f],
         DOMAIN page'.imports = Tab
  PROVE  Shaped' /\ FormsInv' /\ ReadsInv' /\ (Quiet => SettingsInv')
<1>1. /\ DOMAIN page.swap = Tab /\ DOMAIN page.pool = Tab
      /\ DOMAIN page.settings = Tab /\ DOMAIN page.cache = Tab /\ DOMAIN page.feed = Tab
  BY DEF PageInv, Shaped
<1>2. /\ page'.record = page.record /\ page'.settings = page.settings
      /\ page'.cache = page.cache /\ page'.feed = page.feed
      /\ page'.created = page.created /\ page'.trades = page.trades
      /\ \/ form = "swap" /\ page'.pool = page.pool
         \/ form = "pool" /\ page'.swap = page.swap
  <2>1. CASE form = "swap"
    BY <2>1 DEF PageFields
  <2>2. CASE form = "pool"
    BY <2>2 DEF PageFields
  <2> QED BY <2>1, <2>2 DEF Form
<1>3. FormsInv'
  <2>1. CASE form = "swap" /\ page'.pool = page.pool
    BY <1>1, <2>1 DEF PageInv, FormsInv
  <2>2. CASE form = "pool" /\ page'.swap = page.swap
    BY <1>1, <2>2 DEF PageInv, FormsInv
  <2> QED BY <1>2, <2>1, <2>2
<1>4. DOMAIN page'.swap = Tab /\ DOMAIN page'.pool = Tab
  BY <1>1, <1>2
<1>5. Shaped'
  BY <1>1, <1>2, <1>4 DEF PageInv, Shaped
<1> QED BY <1>2, <1>3, <1>5, ReadsKept, SettingsKept DEF PageInv

LEMMA OneFormSet ==
  ASSUME PageInv, Quiet, NEW t \in Tab, NEW form \in Form, NEW new, FormSound(new),
         page' = [page EXCEPT ![form][t] = new]
  PROVE  PageInv'
<1>1. DOMAIN page = PageFields /\ form \in PageFields
  BY DEF PageInv, Shaped, Form, PageFields
<1>2. /\ DOMAIN page' = PageFields /\ page'[form] = [page[form] EXCEPT ![t] = new]
      /\ \A f \in PageFields \ {form} : page'[f] = page[f]
  BY <1>1
<1>3. page'.imports = page.imports /\ page'.entries = page.entries
  BY <1>2 DEF Form, PageFields
<1>4. DOMAIN page'.imports = Tab
  BY <1>3 DEF PageInv, Shaped
<1>5. Shaped' /\ FormsInv' /\ ReadsInv' /\ SettingsInv'
  BY <1>2, <1>4, FormSet
<1> QED BY <1>3, <1>5, ImportsKept DEF PageInv

LEMMA SideIs ==
  ASSUME NEW t, NEW form \in Form, NEW side, NEW token
  PROVE  WithToken(form, t, side, token) = [page EXCEPT ![form][t] = [page[form][t] EXCEPT ![side] = token]]
<1>1. CASE form = "swap"
  BY <1>1 DEF WithToken
<1>2. CASE form = "pool"
  BY <1>2 DEF WithToken
<1> QED BY <1>1, <1>2 DEF Form

LEMMA FormIs ==
  ASSUME PageInv, NEW t \in Tab, NEW form \in Form
  PROVE  FormSound(page[form][t])
BY DEF PageInv, FormsInv, Form

LEMMA TokenPicked ==
  ASSUME PageInv, NEW t \in Tab, NEW form \in Form, NEW side \in Side, PickToken(t, form, side)
  PROVE  PageInv'
<1>1. PICK token \in Offered(TokensOf(t), page[form][t][OtherSide(side)]) :
        page' = [page EXCEPT ![form][t] = [page[form][t] EXCEPT ![side] = token]]
  BY SideIs DEF PickToken
<1>2. Quiet
  BY QuietSteps DEF PickToken
<1>3. FormToken(token) /\ ~SameToken(token, page[form][t][3 - side])
  BY KnownIsFormToken DEF Offered, OtherSide, TokensOf, PageInv, ImportsInv
<1>4. FormSound([page[form][t] EXCEPT ![side] = token])
  BY <1>3, FormIs, SideSet DEF Side
<1> QED BY <1>1, <1>2, <1>4, OneFormSet

(* The imports of a tab are changed, and written.                          *)
LEMMA ImportsSet ==
  ASSUME PageInv, Quiet, NEW t \in Tab, NEW imports, ImportsSound(imports),
         page'.imports = [page.imports EXCEPT ![t] = imports],
         page'.entries = Kept(page.entries, imports)
  PROVE  DOMAIN page'.imports = Tab /\ ImportsInv'
<1>1. DOMAIN page.imports = Tab
  BY DEF PageInv, Shaped
<1>2. \A u \in Tab : ImportsSound(page'.imports[u])
  BY <1>1 DEF PageInv, ImportsInv
<1>3. page'.entries = IF broken THEN page.entries ELSE imports
  BY DEF Kept
<1>4. AsImported(page'.entries) /\ (~broken => ImportsSound(page'.entries))
  BY <1>3 DEF PageInv, ImportsInv, ImportsSound
<1> QED BY <1>1, <1>2, <1>4 DEF ImportsInv, Quiet

LEMMA TokenImported ==
  ASSUME PageInv, NEW t \in Tab, NEW form \in Form, NEW side \in Side, ImportToken(t, form, side)
  PROVE  PageInv'
<1>0. PICK address \in DOMAIN Contracts :
        /\ Importable(TokensOf(t), address)
        /\ page' = [WithToken(form, t, side, Metadata(address)) EXCEPT
                      !.imports[t] = Imported(page.imports[t], Metadata(address)),
                      !.entries = Kept(@, Imported(page.imports[t], Metadata(address)))]
  BY DEF ImportToken
<1>1. PICK token, imports, new :
        /\ token = Metadata(address) /\ imports = Imported(page.imports[t], token)
        /\ new = [page[form][t] EXCEPT ![side] = token]
  OBVIOUS
<1>2. Quiet
  BY QuietSteps DEF ImportToken
<1>3. ImportsSound(page.imports[t])
  BY DEF PageInv, ImportsInv
<1>4. ImportsSound(imports) /\ Unlisted(address)
  BY <1>0, <1>1, <1>3, ImportedIs DEF TokensOf
<1>5. token.address = address /\ token.decimals = Contracts[address].decimals
  BY <1>1, MetadataIs
<1>6. FormToken(token) /\ ~IsListed(token)
  BY <1>4, <1>5, ListedIs, ContractsAssumption DEF FormToken
<1>7. FormSound(new)
  BY <1>1, <1>6, FormIs, SideSet, Zenon DEF Side
<1>8. DOMAIN page = PageFields /\ form \in PageFields
  BY DEF PageInv, Shaped, Form, PageFields
<1>9. PICK middle : middle = [page EXCEPT ![form][t] = new]
  OBVIOUS
<1>10. page' = [middle EXCEPT !.imports[t] = imports, !.entries = Kept(@, imports)]
  <2>1. WithToken(form, t, side, token) = middle
    BY <1>1, <1>9, SideIs
  <2>2. page' = [WithToken(form, t, side, token) EXCEPT !.imports[t] = imports, !.entries = Kept(@, imports)]
    BY <1>0, <1>1
  <2> QED BY <2>1, <2>2
<1>11. /\ DOMAIN middle = PageFields /\ middle[form] = [page[form] EXCEPT ![t] = new]
       /\ \A f \in PageFields \ {form} : middle[f] = page[f]
  BY <1>8, <1>9
<1>12. middle.imports = page.imports /\ middle.entries = page.entries
  BY <1>11 DEF Form, PageFields
<1>13. /\ DOMAIN page' = PageFields
       /\ page'.imports = [page.imports EXCEPT ![t] = imports]
       /\ page'.entries = Kept(page.entries, imports)
       /\ \A f \in PageFields \ {"imports", "entries"} : page'[f] = middle[f]
  BY <1>10, <1>11, <1>12 DEF PageFields
<1>14. /\ page'[form] = [page[form] EXCEPT ![t] = new]
       /\ \A f \in PageFields \ {form, "imports", "entries"} : page'[f] = page[f]
  BY <1>11, <1>13 DEF Form, PageFields
<1>15. DOMAIN page'.imports = Tab /\ ImportsInv'
  BY <1>2, <1>4, <1>13, ImportsSet
<1>16. Shaped' /\ FormsInv' /\ ReadsInv' /\ SettingsInv'
  BY <1>2, <1>7, <1>13, <1>14, <1>15, FormSet
<1> QED BY <1>15, <1>16 DEF PageInv

LEMMA TokenRemoved ==
  ASSUME PageInv, NEW t \in Tab, RemoveToken(t)
  PROVE  PageInv'
<1>1. PICK token \in Seqs!ToSet(page.imports[t]) :
        page' = [page EXCEPT !.imports[t] = Removed(page.imports[t], token.address),
                             !.entries = Kept(@, Removed(page.imports[t], token.address))]
  BY DEF RemoveToken
<1>2. PICK imports : imports = Removed(page.imports[t], token.address)
  OBVIOUS
<1>3. page' = [page EXCEPT !.imports[t] = imports, !.entries = Kept(@, imports)]
  BY <1>1, <1>2
<1>4. Quiet
  BY QuietSteps DEF RemoveToken
<1>5. ImportsSound(imports)
  BY <1>2, RemovedIs DEF PageInv, ImportsInv
<1>6. DOMAIN page = PageFields
  BY DEF PageInv, Shaped
<1>7. /\ DOMAIN page' = PageFields
      /\ page'.imports = [page.imports EXCEPT ![t] = imports]
      /\ page'.entries = Kept(page.entries, imports)
      /\ page'.settings = page.settings /\ page'.record = page.record
      /\ page'.swap = page.swap /\ page'.pool = page.pool /\ page'.cache = page.cache
      /\ page'.feed = page.feed /\ page'.created = page.created /\ page'.trades = page.trades
  BY <1>3, <1>6 DEF PageFields
<1>8. DOMAIN page'.imports = Tab /\ ImportsInv'
  BY <1>4, <1>5, <1>7, ImportsSet
<1>9. Shaped'
  BY <1>7, <1>8 DEF PageInv, Shaped
<1> QED BY <1>4, <1>7, <1>8, <1>9, SettingsKept, FormsKept, ReadsKept DEF PageInv

(* Row links and positions.                                                *)
LEMMA RowFollowed ==
  ASSUME PageInv, NEW t \in Tab, FollowRow(t)
  PROVE  PageInv'
<1>1. ImportsSound(page.imports[t]) /\ FormSound(page.swap[t]) /\ FormSound(page.pool[t])
  BY DEF PageInv, ImportsInv, FormsInv
<1>2. PICK link :
        \/ page' = [page EXCEPT !.swap[t] = SwapFromLink(TokensOf(t), @, link)]
        \/ page' = [page EXCEPT !.pool[t] = PoolFromLink(TokensOf(t), @, link)]
  BY DEF FollowRow
<1>3. Quiet
  BY QuietSteps DEF FollowRow
<1>4. "swap" \in Form /\ "pool" \in Form
  BY DEF Form
<1>5. PICK swap, pool : /\ swap = SwapFromLink(TokensOf(t), page.swap[t], link)
                        /\ pool = PoolFromLink(TokensOf(t), page.pool[t], link)
  OBVIOUS
<1>6. FormSound(swap) /\ FormSound(pool)
  BY <1>1, <1>5, SwapLinkSound, PoolLinkSound DEF TokensOf
<1>7. \/ page' = [page EXCEPT !["swap"][t] = swap]
      \/ page' = [page EXCEPT !["pool"][t] = pool]
  BY <1>2, <1>5
<1> QED BY <1>3, <1>4, <1>6, <1>7, OneFormSet

(* The token of a position, as the form gets it.                           *)
LEMMA AsTokenIs ==
  ASSUME NEW imports, ImportsSound(imports), NEW a \in DOMAIN Contracts, NEW token,
         ShownAs(Tokens(imports), token, a)
  PROVE  LET x == AsToken(Tokens(imports), token)
         IN  FormToken(x) /\ x.address = IF a = Wkash THEN Native ELSE a
<1> DEFINE list == Tokens(imports)
           listed == TokenByAddress(list, a)
           x == AsToken(list, token)
<1>1. token.address = a /\ a # Native
  BY ContractsAssumption DEF ShownAs
<1>2. list \in Seq(Token)
  BY TokensIs
<1>3. x = IF a = Wkash THEN KASH
          ELSE IF listed # NoToken THEN listed
          ELSE TokenWith(a, token.symbol, token.decimals, FALSE, TRUE)
  BY <1>1 DEF AsToken
<1> HIDE DEF x
<1>4. CASE a = Wkash
  <2>1. IsListed(KASH) /\ KASH.address = Native
    BY TokenListIs DEF IsListed, KASH, TokenWith
  <2> QED BY <1>3, <1>4, <2>1 DEF FormToken, x
<1>5. CASE a # Wkash /\ listed # NoToken
  <2>1. listed \in Seqs!ToSet(list) /\ listed.address = a
    BY <1>2, <1>5, ByAddressIs
  <2>2. FormToken(listed)
    BY <2>1, KnownIsFormToken
  <2> QED BY <1>3, <1>5, <2>1, <2>2 DEF x
<1>6. CASE a # Wkash /\ listed = NoToken
  <2>1. x.address = a /\ x.decimals = token.decimals
    BY <1>3, <1>6 DEF TokenWith
  <2>2. ~token.known /\ token.decimals \in {Contracts[a].decimals, DEFAULT_DECIMALS}
    BY <1>6 DEF ShownAs
  <2>3. Unlisted(a)
    <3>1. \A i \in DOMAIN list : list[i].address # a
      BY <1>1, <1>2, <1>6, ByAddressIs
    <3>2. \A i \in DOMAIN TOKEN_LIST : TOKEN_LIST[i].address # a
      BY <3>1, TokensIs
    <3> QED BY <3>2, TokenListIs, ByAddressIs DEF Unlisted
  <2> QED BY <1>6, <2>1, <2>2, <2>3 DEF FormToken, x
<1> QED BY <1>4, <1>5, <1>6 DEF x, list

LEMMA PositionManaged ==
  ASSUME PageInv, NEW t \in Tab, ManagePosition(t)
  PROVE  PageInv'
<1>1. PICK position \in PositionsOf(t) :
        page' = [page EXCEPT !.pool[t] = <<AsToken(TokensOf(t), position.token0),
                                           AsToken(TokensOf(t), position.token1)>>]
  BY DEF ManagePosition
<1>2. Quiet
  BY QuietSteps DEF ManagePosition
<1>3. PICK n \in DOMAIN Pools(t) : position.token0 = Pools(t)[n].token0 /\ position.token1 = Pools(t)[n].token1
  BY PositionsAre
<1>4. PICK row : row = Pools(t)[n] /\ ShownRow(TokensOf(t), row)
  BY PoolsAre
<1>5. PICK a \in DOMAIN Contracts, b \in DOMAIN Contracts :
        a # b /\ ShownAs(TokensOf(t), position.token0, a) /\ ShownAs(TokensOf(t), position.token1, b)
  BY <1>3, <1>4 DEF ShownRow
<1>6. PICK x, y : x = AsToken(TokensOf(t), position.token0) /\ y = AsToken(TokensOf(t), position.token1)
  OBVIOUS
<1>7. /\ FormToken(x) /\ x.address = IF a = Wkash THEN Native ELSE a
      /\ FormToken(y) /\ y.address = IF b = Wkash THEN Native ELSE b
  BY <1>5, <1>6, AsTokenIs DEF TokensOf, PageInv, ImportsInv
<1>8. ~SameToken(x, y)
  BY <1>5, <1>7, ContractsAssumption DEF SameToken
<1>9. FormSound(<<x, y>>)
  BY <1>7, <1>8, FormOf
<1>10. page' = [page EXCEPT !["pool"][t] = <<x, y>>]
  BY <1>1, <1>6
<1>11. "pool" \in Form
  BY DEF Form
<1> QED BY <1>2, <1>9, <1>10, <1>11, OneFormSet

-----------------------------------------------------------------------------
(* The chain.                                                              *)

LEMMA OneMoreTrade ==
  ASSUME NEW created, NEW trades \in Seq(1 .. created), NEW i \in 1 .. created, NEW j
  PROVE  TradesIn(Append(trades, i), j) = TradesIn(trades, j) + (IF j = i THEN 1 ELSE 0)
         /\ TradesIn(trades, j) \in Nat
<1> DEFINE n == Len(trades)
           new == Append(trades, i)
           old == {k \in 1 .. n : trades[k] = j}
<1>1. n \in Nat /\ DOMAIN trades = 1 .. n
  BY LenProperties
<1>2. /\ new \in Seq(1 .. created) /\ Len(new) = n + 1 /\ new[n + 1] = i
      /\ \A k \in 1 .. n : new[k] = trades[k]
  BY AppendProperties
<1> HIDE DEF n, new
<1>3. DOMAIN new = 1 .. n + 1
  BY <1>2, LenProperties
<1>4. IsFiniteSet(1 .. n) /\ old \subseteq 1 .. n
  BY <1>1, FS_Interval, SMT
<1>5. IsFiniteSet(old)
  BY <1>4, FS_Subset
<1>6. n + 1 \notin 1 .. n /\ \A k : k \in 1 .. n + 1 <=> k \in 1 .. n \/ k = n + 1
  BY <1>1, SMT
<1>7. TradesIn(trades, j) = Cardinality(old)
  BY <1>1 DEF TradesIn
<1>8. Cardinality(old) \in Nat
  BY <1>5, FS_CardinalityType
<1>9. CASE j = i
  <2>1. {k \in DOMAIN new : new[k] = j} = old \cup {n + 1}
    BY <1>2, <1>3, <1>6, <1>9
  <2>2. Cardinality(old \cup {n + 1}) = Cardinality(old) + 1
    BY <1>5, <1>6, FS_AddElement
  <2>3. TradesIn(new, j) = Cardinality(old) + 1
    BY <2>1, <2>2 DEF TradesIn
  <2> QED BY <1>7, <1>8, <1>9, <2>3 DEF new
<1>10. CASE j # i
  <2>1. {k \in DOMAIN new : new[k] = j} = old
    BY <1>2, <1>3, <1>6, <1>10
  <2>2. TradesIn(new, j) = Cardinality(old)
    BY <2>1 DEF TradesIn
  <2>3. Cardinality(old) + 0 = Cardinality(old)
    BY <1>8, SMT
  <2> QED BY <1>7, <1>8, <1>10, <2>2, <2>3 DEF new
<1> QED BY <1>9, <1>10

LEMMA TradedSound ==
  ASSUME ReadsInv, NEW i \in 1 .. Len(Pairs), Tradable(i)
  PROVE  TradesSound(Append(page.trades, i), page.created)
<1> DEFINE trades == page.trades
<1>1. page.created \in Nat /\ Len(Pairs) \in Nat
  BY CreatedIs
<1>2. i \in 1 .. page.created
  BY <1>1, SMT DEF Tradable
<1>3. /\ trades \in Seq(1 .. page.created)
      /\ \A j \in 1 .. Len(Pairs) : TradesIn(trades, j) \in Nat /\ TradesIn(trades, j) + 1 <= Len(Pairs[j].history)
  BY DEF ReadsInv, TradesSound
<1>4. TradesIn(trades, i) + 1 < Len(Pairs[i].history)
  BY DEF Tradable
<1> HIDE DEF trades
<1>5. Append(trades, i) \in Seq(1 .. page.created)
  BY <1>2, <1>3, AppendProperties
<1>6. ASSUME NEW j \in 1 .. Len(Pairs)
      PROVE  /\ TradesIn(Append(trades, i), j) \in Nat
             /\ TradesIn(Append(trades, i), j) + 1 <= Len(Pairs[j].history)
  <2>1. TradesIn(Append(trades, i), j) = TradesIn(trades, j) + (IF j = i THEN 1 ELSE 0)
    BY <1>2, <1>3, OneMoreTrade
  <2>2. TradesIn(trades, j) \in Nat /\ TradesIn(trades, j) + 1 <= Len(Pairs[j].history) /\ Len(Pairs[j].history) \in Nat
    BY <1>3, PairsAre
  <2>3. CASE j = i
    <3>1. TradesIn(Append(trades, i), j) = TradesIn(trades, j) + 1 /\ TradesIn(trades, j) + 1 < Len(Pairs[j].history)
      BY <1>4, <2>1, <2>3
    <3> QED BY <2>2, <3>1, SMT
  <2>4. CASE j # i
    <3>1. TradesIn(Append(trades, i), j) = TradesIn(trades, j) + 0
      BY <2>1, <2>4
    <3> QED BY <2>2, <3>1, SMT
  <2> QED BY <2>3, <2>4
<1> QED BY <1>5, <1>6 DEF TradesSound, trades

LEMMA GrownSound ==
  ASSUME NEW created \in Nat, NEW c, CacheSound(c, created)
  PROVE  CacheSound(c, created + 1)
<1> DEFINE addresses == c.addresses.data
<1>1. c.count \in 0 .. created + 1
  BY SMT DEF CacheSound
<1>2. addresses \in {NoData} \cup Seq((1 .. created) \cup {Failed})
  BY DEF CacheSound
<1>3. (1 .. created) \cup {Failed} \subseteq (1 .. created + 1) \cup {Failed}
  BY SMT
<1> HIDE DEF addresses
<1>4. addresses \in {NoData} \cup Seq((1 .. created + 1) \cup {Failed})
  BY <1>2, <1>3
<1> QED BY <1>1, <1>4 DEF CacheSound, addresses

LEMMA OthersKept ==
  ASSUME PageInv, Quiet, DOMAIN page' = PageFields,
         \A f \in PageFields \ {"cache", "feed", "created", "trades"} : page'[f] = page[f]
  PROVE  SettingsInv' /\ ImportsInv' /\ FormsInv'
<1>1. /\ page'.settings = page.settings /\ page'.record = page.record
      /\ page'.imports = page.imports /\ page'.entries = page.entries
      /\ page'.swap = page.swap /\ page'.pool = page.pool
  BY DEF PageFields
<1> QED BY <1>1, SettingsKept, ImportsKept, FormsKept DEF PageInv

LEMMA PairCreated ==
  ASSUME PageInv, CreatePair
  PROVE  PageInv'
<1>1. DOMAIN page = PageFields
  BY DEF PageInv, Shaped
<1>2. /\ page' = [page EXCEPT !.created = @ + 1] /\ page.created < Len(Pairs)
  BY DEF CreatePair
<1>3. Quiet
  BY QuietSteps DEF CreatePair
<1>4. /\ DOMAIN page' = PageFields /\ page'.created = page.created + 1
      /\ \A f \in PageFields \ {"created"} : page'[f] = page[f]
  BY <1>1, <1>2 DEF PageFields
<1>5. page'.cache = page.cache /\ page'.trades = page.trades
  BY <1>4 DEF PageFields
<1>6. \A f \in {"imports", "settings", "swap", "pool", "cache", "feed"} : page'[f] = page[f]
  BY <1>4 DEF PageFields
<1>7. Shaped'
  BY <1>4, <1>6 DEF PageInv, Shaped
<1>8. page.created \in Nat /\ Len(Pairs) \in Nat
  BY CreatedIs DEF PageInv
<1>9. page.created + 1 \in 0 .. Len(Pairs) /\ 1 .. page.created \subseteq 1 .. page.created + 1
  BY <1>2, <1>8, SMT
<1>10. TradesSound(page.trades, page.created + 1)
  <2>1. page.trades \in Seq(1 .. page.created)
    BY DEF PageInv, ReadsInv, TradesSound
  <2> DEFINE S == 1 .. page.created
             T == 1 .. page.created + 1
  <2>2. page.trades \in Seq(S) /\ S \subseteq T
    BY <1>9, <2>1
  <2> HIDE DEF S, T
  <2>3. page.trades \in Seq(T)
    BY <2>2
  <2> QED BY <2>3 DEF PageInv, ReadsInv, TradesSound, T
<1>11. \A t \in Tab : CacheSound(page.cache[t], page.created + 1)
  BY <1>8, GrownSound DEF PageInv, ReadsInv
<1>12. ReadsInv'
  BY <1>4, <1>5, <1>9, <1>10, <1>11 DEF ReadsInv
<1> QED BY <1>3, <1>4, <1>7, <1>12, OthersKept DEF PageInv

(* The answer to a query of a tab, with or without a trade before it.      *)
LEMMA CacheSet ==
  ASSUME PageInv, Quiet, NEW t \in Tab, NEW c, DOMAIN c = CacheFields, CacheSound(c, page.created),
         NEW trades, TradesSound(trades, page.created),
         DOMAIN page' = PageFields, page'.trades = trades, page'.cache = [page.cache EXCEPT ![t] = c],
         \A f \in PageFields \ {"trades", "cache"} : page'[f] = page[f]
  PROVE  PageInv'
<1>1. DOMAIN page.cache = Tab
  BY DEF PageInv, Shaped
<1>3. /\ page'.created = page.created
      /\ \A f \in {"imports", "settings", "swap", "pool", "feed"} : page'[f] = page[f]
  BY DEF PageFields
<1>4. DOMAIN page'.cache = Tab /\ \A u \in Tab : page'.cache[u] = IF u = t THEN c ELSE page.cache[u]
  BY <1>1
<1>5. Shaped'
  BY <1>3, <1>4 DEF PageInv, Shaped
<1>6. ReadsInv'
  BY <1>3, <1>4 DEF PageInv, ReadsInv
<1> QED BY <1>5, <1>6, OthersKept DEF PageInv

LEMMA Traded ==
  ASSUME PageInv, NEW i \in 1 .. Len(Pairs), Trade(i)
  PROVE  PageInv'
<1>1. DOMAIN page = PageFields
  BY DEF PageInv, Shaped
<1>2. PICK trades : trades = Append(page.trades, i)
  OBVIOUS
<1>3. page' = [page EXCEPT !.trades = trades] /\ Tradable(i) /\ Quiet
  BY <1>2, QuietSteps DEF Trade
<1>4. /\ DOMAIN page' = PageFields /\ page'.trades = trades
      /\ \A f \in PageFields \ {"trades"} : page'[f] = page[f]
  BY <1>1, <1>3 DEF PageFields
<1>5. /\ page'.created = page.created /\ page'.cache = page.cache
      /\ \A f \in {"imports", "settings", "swap", "pool", "cache", "feed"} : page'[f] = page[f]
  BY <1>4 DEF PageFields
<1>6. Shaped'
  BY <1>4, <1>5 DEF PageInv, Shaped
<1>7. TradesSound(trades, page.created)
  BY <1>2, <1>3, TradedSound DEF PageInv
<1>8. ReadsInv'
  BY <1>4, <1>5, <1>7 DEF PageInv, ReadsInv
<1> QED BY <1>3, <1>4, <1>6, <1>8, OthersKept DEF PageInv

-----------------------------------------------------------------------------
(* Reads.                                                                  *)

LEMMA CacheAnswered ==
  ASSUME PageInv, Quiet, NEW t \in Tab, NEW c, DOMAIN c = CacheFields, CacheSound(c, page.created),
         page' = [page EXCEPT !.cache[t] = c]
  PROVE  PageInv'
<1>1. DOMAIN page = PageFields
  BY DEF PageInv, Shaped
<1>2. /\ DOMAIN page' = PageFields /\ page'.cache = [page.cache EXCEPT ![t] = c]
      /\ \A f \in PageFields \ {"cache"} : page'[f] = page[f]
  BY <1>1 DEF PageFields
<1>3. page'.trades = page.trades
  BY <1>2 DEF PageFields
<1>4. TradesSound(page.trades, page.created)
  BY DEF PageInv, ReadsInv
<1> QED BY <1>2, <1>3, <1>4, CacheSet

LEMMA CacheIs ==
  ASSUME PageInv, NEW t \in Tab
  PROVE  DOMAIN page.cache[t] = CacheFields /\ CacheSound(page.cache[t], page.created)
BY DEF PageInv, Shaped, ReadsInv

LEMMA CountRead ==
  ASSUME PageInv, NEW t \in Tab, ReadCount(t)
  PROVE  PageInv'
<1>1. PICK c : c = [page.cache[t] EXCEPT !.count = page.created]
  OBVIOUS
<1>2. page' = [page EXCEPT !.cache[t] = c] /\ Quiet
  BY <1>1, QuietSteps DEF ReadCount
<1>3. DOMAIN c = CacheFields /\ c.count = page.created
      /\ c.addresses = page.cache[t].addresses /\ c.details = page.cache[t].details
      /\ c.meta = page.cache[t].meta /\ c.balances = page.cache[t].balances
      /\ c.figures = page.cache[t].figures
  BY <1>1, CacheIs DEF CacheFields
<1>4. page.created \in 0 .. page.created
  BY CreatedIs, SMT DEF PageInv
<1>5. CacheSound(c, page.created)
  BY <1>3, <1>4, CacheIs DEF CacheSound
<1> QED BY <1>2, <1>3, <1>5, CacheAnswered

LEMMA AddressesRead ==
  ASSUME PageInv, NEW t \in Tab, AddressesAnswered(t)
  PROVE  PageInv'
<1> DEFINE n == page.cache[t].count
           batch == [i \in 1 .. n |-> i]
<1>1. PICK k : page' = [page EXCEPT !.cache[t].addresses = Answer(n, batch, k)] /\ Counted(k)
  BY DEF AddressesAnswered
<1>2. PICK answer, data : answer = Answer(n, batch, k) /\ data = WithFailure(batch, k)
  OBVIOUS
<1>3. answer.data = data
  BY <1>2 DEF Answer
<1>4. PICK c : c = [page.cache[t] EXCEPT !.addresses = answer]
  OBVIOUS
<1>5. page' = [page EXCEPT !.cache[t] = c] /\ Quiet
  BY <1>1, <1>2, <1>4, QuietSteps
<1>6. DOMAIN c = CacheFields /\ c.count = page.cache[t].count /\ c.addresses = answer
      /\ c.details = page.cache[t].details
      /\ c.meta = page.cache[t].meta /\ c.balances = page.cache[t].balances
      /\ c.figures = page.cache[t].figures
  BY <1>4, CacheIs DEF CacheFields
<1>7. data \in Seq((1 .. page.created) \cup {Failed})
  <2> DEFINE T == (1 .. page.created) \cup {Failed}
  <2>1. n \in 0 .. page.created /\ page.created \in Nat
    BY CacheIs, CreatedIs DEF CacheSound, PageInv
  <2> HIDE DEF n
  <2>2. n \in Nat /\ 1 .. n \subseteq 1 .. page.created
    BY <2>1, SMT
  <2>3. data = [i \in 1 .. n |-> IF i = k THEN Failed ELSE i]
    BY <1>2 DEF WithFailure
  <2>4. data \in [1 .. n -> T]
    BY <2>2, <2>3
  <2> HIDE DEF T
  <2>5. data \in Seq(T)
    BY <2>2, <2>4
  <2> QED BY <2>5 DEF T
<1>8. CacheSound(c, page.created)
  BY <1>3, <1>6, <1>7, CacheIs DEF CacheSound
<1> QED BY <1>5, <1>6, <1>8, CacheAnswered

(* An answer about the details of the pairs that a tab knows.              *)
LEMMA DetailsSet ==
  ASSUME PageInv, NEW t \in Tab, NEW answer, NEW before, NEW after, NEW k,
         answer = Answer(KnownPairs(t), DetailsBatch(KnownPairs(t), before, after), k),
         TradesSound(before, page.created), TradesSound(after, page.created),
         NEW c, c = [page.cache[t] EXCEPT !.details = answer]
  PROVE  DOMAIN c = CacheFields /\ CacheSound(c, page.created)
<1>1. /\ answer.key = KnownPairs(t)
      /\ answer.data = WithFailure(DetailsBatch(KnownPairs(t), before, after), k)
  BY DEF Answer
<1>2. KnownPairs(t) \in Seq(1 .. Len(Pairs))
  BY KnownPairsAre DEF PageInv
<1>3. DetailsSound(answer.key, answer.data)
  BY <1>1, <1>2, DetailsBatchIs
<1>4. DOMAIN c = CacheFields /\ c.count = page.cache[t].count /\ c.details = answer
      /\ c.addresses = page.cache[t].addresses
      /\ c.meta = page.cache[t].meta /\ c.balances = page.cache[t].balances
      /\ c.figures = page.cache[t].figures
  BY CacheIs DEF CacheFields
<1> QED BY <1>3, <1>4, CacheIs DEF CacheSound

LEMMA DetailsRead ==
  ASSUME PageInv, NEW t \in Tab, ReadDetails(t)
  PROVE  PageInv'
<1>1. PICK k : /\ page' = [page EXCEPT !.cache[t].details =
                    Answer(KnownPairs(t), DetailsBatch(KnownPairs(t), page.trades, page.trades), k)]
               /\ Counted(k)
  BY DEF ReadDetails
<1>2. PICK answer : answer = Answer(KnownPairs(t), DetailsBatch(KnownPairs(t), page.trades, page.trades), k)
  OBVIOUS
<1>3. PICK c : c = [page.cache[t] EXCEPT !.details = answer]
  OBVIOUS
<1>4. page' = [page EXCEPT !.cache[t] = c] /\ Quiet
  BY <1>1, <1>2, <1>3, QuietSteps
<1>5. TradesSound(page.trades, page.created)
  BY DEF PageInv, ReadsInv
<1>6. DOMAIN c = CacheFields /\ CacheSound(c, page.created)
  BY <1>2, <1>3, <1>5, DetailsSet
<1> QED BY <1>4, <1>6, CacheAnswered

LEMMA DetailsReadAcross ==
  ASSUME PageInv, NEW t \in Tab, NEW i \in 1 .. Len(Pairs), ReadDetailsAcross(t, i)
  PROVE  PageInv'
<1>1. PICK trades : trades = Append(page.trades, i)
  OBVIOUS
<1>2. PICK at \in {<<page.trades, trades>>, <<trades, page.trades>>} :
        page' = [page EXCEPT !.trades = trades, !.cache[t].details =
          Answer(KnownPairs(t), DetailsBatch(KnownPairs(t), at[1], at[2]), 0)]
  BY <1>1 DEF ReadDetailsAcross
<1>3. PICK answer : answer = Answer(KnownPairs(t), DetailsBatch(KnownPairs(t), at[1], at[2]), 0)
  OBVIOUS
<1>4. PICK c : c = [page.cache[t] EXCEPT !.details = answer]
  OBVIOUS
<1>5. page' = [page EXCEPT !.trades = trades, !.cache[t] = c]
  BY <1>2, <1>3, <1>4
<1>6. Quiet /\ Tradable(i)
  BY QuietSteps DEF ReadDetailsAcross
<1>7. TradesSound(page.trades, page.created)
  BY DEF PageInv, ReadsInv
<1>8. TradesSound(trades, page.created)
  BY <1>1, <1>6, TradedSound DEF PageInv
<1>9. TradesSound(at[1], page.created) /\ TradesSound(at[2], page.created)
  BY <1>2, <1>7, <1>8
<1>10. DOMAIN c = CacheFields /\ CacheSound(c, page.created)
  BY <1>3, <1>4, <1>9, DetailsSet
<1>11. DOMAIN page = PageFields
  BY DEF PageInv, Shaped
<1>12. /\ DOMAIN page' = PageFields /\ page'.trades = trades /\ page'.cache = [page.cache EXCEPT ![t] = c]
       /\ \A f \in PageFields \ {"trades", "cache"} : page'[f] = page[f]
  BY <1>5, <1>11 DEF PageFields
<1> QED BY <1>6, <1>8, <1>10, <1>12, CacheSet

LEMMA MetaRead ==
  ASSUME PageInv, NEW t \in Tab, ReadMeta(t)
  PROVE  PageInv'
<1>1. PICK unknown : unknown = UnknownTokens(t)
  OBVIOUS
<1>2. PICK k : /\ page' = [page EXCEPT !.cache[t].meta = Answer(unknown, MetaBatch(unknown), k)]
               /\ Counted(k)
  BY <1>1 DEF ReadMeta
<1>3. PICK answer : answer = Answer(unknown, MetaBatch(unknown), k)
  OBVIOUS
<1>4. PICK c : c = [page.cache[t] EXCEPT !.meta = answer]
  OBVIOUS
<1>5. page' = [page EXCEPT !.cache[t] = c] /\ Quiet
  BY <1>2, <1>3, <1>4, QuietSteps
<1>6. PICK T : unknown \in Seq(T)
  BY <1>1, KnownPairsAre, UnknownIs DEF UnknownTokens, PageInv
<1>7. answer.key = unknown /\ answer.data = WithFailure(MetaBatch(unknown), k)
  BY <1>3 DEF Answer
<1>8. MetaSound(answer.key, answer.data)
  BY <1>6, <1>7, MetaBatchIs
<1>9. DOMAIN c = CacheFields /\ c.count = page.cache[t].count /\ c.meta = answer
      /\ c.addresses = page.cache[t].addresses
      /\ c.details = page.cache[t].details /\ c.balances = page.cache[t].balances
      /\ c.figures = page.cache[t].figures
  BY <1>4, CacheIs DEF CacheFields
<1>10. CacheSound(c, page.created)
  BY <1>8, <1>9, CacheIs DEF CacheSound
<1> QED BY <1>5, <1>9, <1>10, CacheAnswered

LEMMA BalancesRead ==
  ASSUME PageInv, NEW t \in Tab, ReadBalances(t)
  PROVE  PageInv'
<1> DEFINE shares == [n \in DOMAIN Pools(t) |-> StateOf(Pools(t)[n].pair).shares[account[t]]]
<1>1. PICK k : /\ page' = [page EXCEPT !.cache[t].balances = Answer(BalancesKey(t, Pools(t)), shares, k)]
               /\ Counted(k)
  BY DEF ReadBalances
<1>2. PICK rows : rows = Pools(t) /\ \A n \in DOMAIN rows : rows[n].pair \in 1 .. Len(Pairs)
  BY PoolsAre DEF ShownRow
<1>3. PICK answer : answer = Answer(BalancesKey(t, Pools(t)), shares, k)
  OBVIOUS
<1>4. PICK c : c = [page.cache[t] EXCEPT !.balances = answer]
  OBVIOUS
<1>5. page' = [page EXCEPT !.cache[t] = c] /\ Quiet
  BY <1>1, <1>3, <1>4, QuietSteps
<1>6. /\ answer.key = <<account[t], [n \in DOMAIN rows |-> rows[n].pair]>>
      /\ answer.data = WithFailure(shares, k)
  BY <1>2, <1>3 DEF Answer, BalancesKey
<1>7. \A n \in DOMAIN rows : shares[n] = StateOf(rows[n].pair).shares[account[t]]
  BY <1>2
<1> HIDE DEF shares
<1>8. BalancesSound(answer.key, answer.data)
  <2>1. answer.key[1] = account[t] /\ answer.key[2] = [n \in DOMAIN rows |-> rows[n].pair]
    BY <1>6
  <2>2. \A n \in DOMAIN rows : StateOf(rows[n].pair) \in States(rows[n].pair)
    <3>1. TradesSound(page.trades, page.created)
      BY DEF PageInv, ReadsInv
    <3> QED BY <1>2, <3>1, StateIs DEF StateOf
  <2>3. ASSUME NEW n \in DOMAIN rows
        PROVE  ResultOf(answer.data, n) \in {Failed} \cup {s.shares[account[t]] : s \in States(rows[n].pair)}
    <3>1. ResultOf(answer.data, n) \in {Failed, shares[n]}
      BY <1>6, FailureIs
    <3> QED BY <1>7, <2>2, <3>1
  <2> QED BY <2>1, <2>3 DEF BalancesSound
<1>9. DOMAIN c = CacheFields /\ c.count = page.cache[t].count /\ c.balances = answer
      /\ c.addresses = page.cache[t].addresses
      /\ c.details = page.cache[t].details /\ c.meta = page.cache[t].meta
      /\ c.figures = page.cache[t].figures
  BY <1>4, CacheIs DEF CacheFields
<1>10. CacheSound(c, page.created)
  BY <1>8, <1>9, CacheIs DEF CacheSound
<1> QED BY <1>5, <1>9, <1>10, CacheAnswered

LEMMA FiguresRead ==
  ASSUME PageInv, NEW t \in Tab, ReadFigures(t)
  PROVE  PageInv'
<1>1. PICK k : /\ page' = [page EXCEPT !.cache[t].figures =
                    Answer(KnownPairs(t), FiguresBatch(KnownPairs(t)), k)]
               /\ Counted(k)
  BY DEF ReadFigures
<1>2. PICK answer : answer = Answer(KnownPairs(t), FiguresBatch(KnownPairs(t)), k)
  OBVIOUS
<1>3. PICK c : c = [page.cache[t] EXCEPT !.figures = answer]
  OBVIOUS
<1>4. page' = [page EXCEPT !.cache[t] = c] /\ Quiet
  BY <1>1, <1>2, <1>3, QuietSteps
<1>5. DOMAIN c = CacheFields /\ c.count = page.cache[t].count
      /\ c.addresses = page.cache[t].addresses /\ c.details = page.cache[t].details
      /\ c.meta = page.cache[t].meta /\ c.balances = page.cache[t].balances
      /\ c.figures = answer
  BY <1>3, CacheIs DEF CacheFields
<1>6. answer.key = KnownPairs(t) /\ answer.data = WithFailure(FiguresBatch(KnownPairs(t)), k)
  BY <1>2 DEF Answer
<1>7. FiguresSound(answer.key, answer.data)
  <2>1. TradesSound(page.trades, page.created) /\ KnownPairs(t) \in Seq(1 .. Len(Pairs))
    BY KnownPairsAre DEF PageInv, ReadsInv
  <2> QED BY <1>6, <2>1, FiguresBatchSound
<1>8. CacheSound(c, page.created)
  BY <1>5, <1>7, CacheIs DEF CacheSound
<1> QED BY <1>4, <1>5, <1>8, CacheAnswered

LEMMA FeedRead ==
  ASSUME PageInv, NEW t \in Tab, ReadFeed(t)
  PROVE  PageInv'
<1>1. PICK feed, k : page' = [page EXCEPT !.feed[t] = feed] /\ Counted(k)
  BY DEF ReadFeed
<1>2. DOMAIN page = PageFields
  BY DEF PageInv, Shaped
<1>3. /\ DOMAIN page' = PageFields /\ page'.feed = [page.feed EXCEPT ![t] = feed]
      /\ \A f \in PageFields \ {"feed"} : page'[f] = page[f]
  BY <1>1, <1>2 DEF PageFields
<1>4. Quiet
  BY <1>1, QuietSteps
<1>5. /\ page'.created = page.created /\ page'.trades = page.trades /\ page'.cache = page.cache
      /\ \A f \in {"imports", "settings", "swap", "pool", "cache"} : page'[f] = page[f]
  BY <1>3 DEF PageFields
<1>6. DOMAIN page'.feed = Tab
  BY <1>3 DEF PageInv, Shaped
<1>7. Shaped'
  BY <1>3, <1>5, <1>6 DEF PageInv, Shaped
<1> QED BY <1>3, <1>4, <1>5, <1>7, OthersKept, ReadsKept DEF PageInv

-----------------------------------------------------------------------------
LEMMA InitPage == Init => PageInv
<1> SUFFICES ASSUME Init PROVE PageInv
  OBVIOUS
<1>1. PICK o \in Openings : ActivityInit(o) /\
        page = [entries |-> o.entries, record |-> o.record,
                imports |-> [t \in Tab |-> <<>>], settings |-> [t \in Tab |-> DEFAULT_SETTINGS],
                swap |-> [t \in Tab |-> Defaults], pool |-> [t \in Tab |-> Defaults],
                cache |-> [t \in Tab |-> EmptyCache], feed |-> [t \in Tab |-> NoData],
                created |-> o.created, trades |-> <<>>]
  BY DEF Init
<1>2. opened = {}
  BY <1>1 DEF ActivityInit
<1>3. /\ AsImported(o.entries) /\ o.record \in {NoData, Corrupt} \cup Settings
      /\ o.created \in 0 .. Len(Pairs)
  BY OpeningsAssumption
<1>4. /\ DOMAIN page = PageFields /\ page.entries = o.entries /\ page.record = o.record
      /\ page.created = o.created /\ page.trades = <<>>
      /\ page.imports = [t \in Tab |-> <<>>] /\ page.settings = [t \in Tab |-> DEFAULT_SETTINGS]
      /\ page.swap = [t \in Tab |-> Defaults] /\ page.pool = [t \in Tab |-> Defaults]
      /\ page.cache = [t \in Tab |-> EmptyCache] /\ page.feed = [t \in Tab |-> NoData]
  BY <1>1 DEF PageFields
<1>5. o.created \in Nat
  BY <1>3, PairsAre, SMT
<1>6. Shaped
  BY <1>4, NothingRead, <1>5 DEF Shaped
<1>7. SettingsInv
  BY <1>2, <1>3, <1>4, DefaultsAccepted DEF SettingsInv
<1>8. ImportsInv
  BY <1>2, <1>3, <1>4, NoImports DEF ImportsInv
<1>9. FormsInv
  BY <1>4, DefaultsAre DEF FormsInv
<1>10. TradesSound(<<>>, o.created)
  <2>1. <<>> \in Seq(1 .. o.created) /\ DOMAIN <<>> = {}
    BY EmptySeq
  <2>2. ASSUME NEW i \in 1 .. Len(Pairs)
        PROVE  TradesIn(<<>>, i) \in Nat /\ TradesIn(<<>>, i) + 1 <= Len(Pairs[i].history)
    <3>1. TradesIn(<<>>, i) = 0
      BY <2>1, FS_EmptySet DEF TradesIn
    <3>2. Len(Pairs[i].history) \in Nat \ {0}
      BY PairsAre
    <3> QED BY <3>1, <3>2, SMT
  <2> QED BY <2>1, <2>2 DEF TradesSound
<1>11. ReadsInv
  BY <1>3, <1>4, <1>5, <1>10, NothingRead DEF ReadsInv
<1> QED BY <1>6, <1>7, <1>8, <1>9, <1>11 DEF PageInv

LEMMA NextPage == PageInv /\ [Next]_vars => PageInv'
<1> SUFFICES ASSUME PageInv, [Next]_vars PROVE PageInv'
  OBVIOUS
<1>1. CASE ActivityNext
  BY <1>1, QuietSteps, AllKept
<1>2. CASE CreatePair
  BY <1>2, PairCreated
<1>3. ASSUME NEW i \in 1 .. Len(Pairs), Trade(i) PROVE PageInv'
  BY <1>3, Traded
<1>4. ASSUME NEW t \in Tab, MountTab(t) \/ OpenTab(t) PROVE PageInv'
  BY <1>4, TabMounted, TabOpened
<1>5. ASSUME NEW t \in Tab, CloseTab(t) PROVE PageInv'
  BY <1>5, TabClosed
<1>6. ASSUME NEW t \in Tab,
             \/ \E bps \in Slippages : SetSlippage(t, bps)
             \/ \E minutes \in Deadlines : SetDeadline(t, minutes)
             \/ ResetSettings(t)
      PROVE  PageInv'
  BY <1>6, InputsAccepted
<1>7. ASSUME NEW t \in Tab, NEW form \in Form, NEW side \in Side,
             PickToken(t, form, side) \/ ImportToken(t, form, side)
      PROVE  PageInv'
  BY <1>7, TokenPicked, TokenImported
<1>8. ASSUME NEW t \in Tab, RemoveToken(t) \/ FollowRow(t) \/ ManagePosition(t) PROVE PageInv'
  BY <1>8, TokenRemoved, RowFollowed, PositionManaged
<1>9. ASSUME NEW t \in Tab, ReadCount(t) \/ ReadAddresses(t) \/ Refocus(t) PROVE PageInv'
  BY <1>9, CountRead, AddressesRead DEF ReadAddresses, Refocus
<1>10. ASSUME NEW t \in Tab, ReadDetails(t) \/ ReadMeta(t) \/ ReadBalances(t) \/ ReadFigures(t) \/ ReadFeed(t)
       PROVE  PageInv'
  BY <1>10, DetailsRead, MetaRead, BalancesRead, FiguresRead, FeedRead
<1>11. ASSUME NEW t \in Tab, NEW i \in 1 .. Len(Pairs), ReadDetailsAcross(t, i) PROVE PageInv'
  BY <1>11, DetailsReadAcross
<1>12. CASE UNCHANGED vars
  <2>1. Quiet /\ page' = page
    BY <1>12 DEF vars, activityVars, observers, Quiet
  <2> QED BY <2>1, AllKept
<1> QED BY <1>1, <1>2, <1>3, <1>4, <1>5, <1>6, <1>7, <1>8, <1>9, <1>10, <1>11, <1>12 DEF Next

-----------------------------------------------------------------------------
(* What holds in every state.                                              *)

LEMMA CountedOnce ==
  ASSUME NEW list, Listing(list)
  PROVE  list \in Seqs!BoundedSeq(Item, MAX_ITEMS) /\ Cardinality(TxsOf(list)) = Len(list)
<1> DEFINE n == Len(list)
           f == [i \in 1 .. n |-> list[i].tx]
           S == TxsOf(list)
<1>1. list \in Seq(Item) /\ n <= MAX_ITEMS /\ Unlike(list)
  BY DEF Listing
<1>2. n \in Nat /\ DOMAIN list = 1 .. n /\ list \in [1 .. n -> Item]
  BY <1>1, LenProperties
<1>3. n \in 0 .. MAX_ITEMS
  BY <1>1, <1>2, ActivityAssumption, SMT
<1>4. list \in Seqs!BoundedSeq(Item, MAX_ITEMS)
  BY <1>2, <1>3 DEF Seqs!BoundedSeq, Seqs!SeqOf
<1>5. S = {list[i].tx : i \in 1 .. n}
  BY <1>2 DEF TxsOf
<1>6. \A i \in 1 .. n : \A j \in 1 .. n : list[i].tx = list[j].tx => i = j
  BY <1>1, <1>2 DEF Unlike
<1> HIDE DEF n, S
<1>7. f \in Injection(1 .. n, S)
  <2>1. f \in [1 .. n -> S]
    BY <1>5
  <2> QED BY <1>6, <2>1 DEF Injection, IsInjective
<1>8. f \in Surjection(1 .. n, S)
  BY <1>5, <1>7 DEF Surjection, Injection
<1>9. ExistsBijection(1 .. n, S)
  BY <1>7, <1>8 DEF ExistsBijection, Bijection
<1>10. Cardinality(S) = n
  BY <1>2, <1>9, FS_CountingElements
<1> QED BY <1>4, <1>10 DEF S, n

LEMMA AllTyped == ActivityInv /\ PageInv => TypeOK
<1> SUFFICES ASSUME ActivityInv, PageInv PROVE TypeOK
  OBVIOUS
<1>1. ActivityTypeOK
  <2>1. chain \in [Tx -> {"unsent", "asked", "refused", "pending"} \cup Ended]
    BY DEF ActivityInv, Recorded
  <2>2. \A t \in Tab : Listing(all[t]) /\ watching[t] \subseteq TxsOf(all[t])
    BY DEF ActivityInv, TrueLists, TrueList, TabsInv
  <2>3. Listing(stored)
    BY DEF ActivityInv, TrueLists, TrueList
  <2> QED BY <2>1, <2>2, <2>3, CountedOnce DEF ActivityTypeOK
<1>2. \A t \in Tab : SlippageAccepted(page.settings[t].slippageBps) /\ DeadlineAccepted(page.settings[t].deadlineMinutes)
  BY DEF PageInv, SettingsInv, Accepted
<1>3. ASSUME NEW t \in Tab
      PROVE  \A token \in Seqs!ToSet(page.imports[t]) : token.isImported /\ token.address \in DOMAIN Contracts
  BY AsImportedIs DEF PageInv, ImportsInv, ImportsSound, Seqs!ToSet
<1>4. \A t \in Tab : page.cache[t].count <= page.created
  <2>1. \A t \in Tab : page.cache[t].count \in 0 .. page.created
    BY DEF PageInv, ReadsInv, CacheSound
  <2>2. page.created \in Nat
    BY CreatedIs DEF PageInv
  <2> QED BY <2>1, <2>2, SMT
<1>5. page.created <= Len(Pairs) /\ page.trades \in Seq(1 .. page.created)
  BY CreatedIs DEF PageInv, ReadsInv, TradesSound
<1> QED BY <1>1, <1>2, <1>3, <1>4, <1>5 DEF TypeOK

LEMMA AllListedWin == PageInv => ListedTokensWin
<1> SUFFICES ASSUME PageInv, NEW t \in Tab, NEW token \in Seqs!ToSet(TOKEN_LIST)
             PROVE  /\ ResolveToken(TokensOf(t), TokenParam(token)) = token
                    /\ token.address # Native => TokenByAddress(TokensOf(t), token.address) = token
  BY DEF ListedTokensWin
<1>1. ImportsSound(page.imports[t])
  BY DEF PageInv, ImportsInv
<1>2. token \in Seqs!ToSet(Tokens(page.imports[t]))
  BY <1>1, TokensIs
<1> QED BY <1>1, <1>2, ParamResolves, KnownByAddress DEF TokensOf

LEMMA AllOnOneSide == PageInv => ListedOnOneSide
BY FormIs DEF ListedOnOneSide, FormSound

LEMMA BarsReopen == PageInv => AddressBarReopens
<1> SUFFICES ASSUME PageInv, NEW t \in Tab, NEW form \in Form, NEW list \in {TOKEN_LIST, TokensOf(t)},
                    page[form][t][1] \in Seqs!ToSet(list), page[form][t][2] \in Seqs!ToSet(list),
                    ~SameToken(page[form][t][1], page[form][t][2])
             PROVE  IF form = "swap"
                    THEN SwapFromLink(list, Defaults, <<TokenParam(page[form][t][1]), TokenParam(page[form][t][2])>>)
                           = page[form][t]
                    ELSE PoolFromLink(list, Defaults, <<TokenParam(page[form][t][1]), TokenParam(page[form][t][2])>>)
                           = page[form][t]
  BY DEF AddressBarReopens
<1>1. PICK imports : ImportsSound(imports) /\ list = Tokens(imports)
  <2>1. ImportsSound(page.imports[t])
    BY DEF PageInv, ImportsInv
  <2> QED BY <2>1, NoImports DEF TokensOf
<1>2. PICK two : two = page[form][t]
  OBVIOUS
<1>3. two = <<two[1], two[2]>>
  BY <1>2, FormIs DEF FormSound
<1>4. /\ SwapFromLink(Tokens(imports), Defaults, <<TokenParam(two[1]), TokenParam(two[2])>>) = two
      /\ PoolFromLink(Tokens(imports), Defaults, <<TokenParam(two[1]), TokenParam(two[2])>>) = two
  BY <1>1, <1>2, <1>3, BarReopens
<1> QED BY <1>1, <1>2, <1>4, Zenon

-----------------------------------------------------------------------------
(* Links from the pools table.                                             *)

Routed(token) == IF token.address = Native THEN Wkash ELSE token.address

(* What a link resolves to, if anything, is the token of the row.          *)
LEMMA RowTokenResolves ==
  ASSUME PageInv, NEW t \in Tab, NEW a \in DOMAIN Contracts, NEW token, ShownAs(TokensOf(t), token, a),
         ~(token.known /\ Ambiguous(t, token))
  PROVE  LET found == ResolveToken(TokensOf(t), LinkParam(token))
         IN  /\ found # NoToken => Routed(found) = a /\ (a # Wkash => found.address = a)
                                   /\ (a = Wkash => found.address = Native)
             /\ token.known => found # NoToken
<1> DEFINE list == TokensOf(t)
           found == ResolveToken(list, LinkParam(token))
<1>1. ImportsSound(page.imports[t]) /\ list = Tokens(page.imports[t])
  BY DEF PageInv, ImportsInv, TokensOf
<1>2. list \in Seq(Token)
  BY <1>1, TokensIs
<1>3. token.address = a /\ a # Native /\ Wkash # Native
  BY ContractsAssumption, TokensAssumption DEF ShownAs
<1>4. CASE a = Wkash
  <2>1. KASH \in Seqs!ToSet(list) /\ KASH.address = Native
    BY <1>1, TokensIs, TokenListIs DEF KASH, TokenWith
  <2>2. found = KASH
    BY <1>1, <1>3, <1>4, <2>1, ParamResolves DEF LinkParam
  <2>3. KASH # NoToken
    BY <1>1, <2>1, KnownIsFormToken, TokensAssumption
  <2> QED BY <1>4, <2>1, <2>2, <2>3 DEF Routed
<1>5. CASE a # Wkash /\ token.known
  <2>1. found = TokenBySymbol(list, token.symbol)
    BY <1>3, <1>5 DEF LinkParam, BySymbol, ResolveToken
  <2>2. PICK listed : /\ listed = TokenByAddress(list, a) /\ listed # NoToken
                      /\ token.symbol = listed.symbol
    BY <1>5 DEF ShownAs
  <2>3. listed \in Seqs!ToSet(list) /\ listed.address = a
    BY <1>2, <2>2, ByAddressIs
  <2>4. PICK i \in DOMAIN list : list[i] = listed
    BY <2>3 DEF Seqs!ToSet
  <2>5. found # NoToken
    BY <1>2, <2>1, <2>2, <2>4, BySymbolIs
  <2>6. PICK k \in DOMAIN list : found = list[k] /\ list[k].symbol = token.symbol
    BY <1>2, <2>1, <2>5, BySymbolIs
  <2>7. found \in Seqs!ToSet(list) /\ found.symbol = token.symbol
    BY <2>6 DEF Seqs!ToSet
  <2>8. found.address = a
    BY <1>3, <1>5, <2>7 DEF Ambiguous
  <2> QED BY <1>3, <1>5, <2>5, <2>8 DEF Routed
<1>6. CASE a # Wkash /\ ~token.known
  <2>1. found = TokenByAddress(list, a)
    BY <1>3, <1>6 DEF LinkParam, ByAddress, ResolveToken
  <2>2. found = NoToken
    BY <1>6, <2>1 DEF ShownAs
  <2> QED BY <1>6, <2>2
<1> QED BY <1>4, <1>5, <1>6

LEMMA RowsOpen == PageInv => RowLinksOpenTheirPool
<1> SUFFICES ASSUME PageInv, NEW t \in Tab, NEW row \in Seqs!ToSet(Pools(t)), NEW form,
                    form = SwapFromLink(TokensOf(t), page.swap[t], <<LinkParam(row.token0), LinkParam(row.token1)>>)
             PROVE  LET tokens == <<row.token0, row.token1>>
                    IN  \A i \in Side :
                          ~(tokens[i].known /\ Ambiguous(t, tokens[i])) =>
                            /\ form[i] = page.swap[t][i] \/ Routed(form[i]) = tokens[i].address
                            /\ (\A j \in Side : tokens[j].known /\ ~Ambiguous(t, tokens[j]))
                               => Routed(form[i]) = tokens[i].address
  BY DEF RowLinksOpenTheirPool, Routed
<1>1. ShownRow(TokensOf(t), row)
  BY PoolsAre DEF Seqs!ToSet
<1>2. PICK a \in DOMAIN Contracts, b \in DOMAIN Contracts :
        a # b /\ ShownAs(TokensOf(t), row.token0, a) /\ ShownAs(TokensOf(t), row.token1, b)
  BY <1>1 DEF ShownRow
<1>3. row.token0.address = a /\ row.token1.address = b /\ a # Native /\ b # Native
  BY <1>2, ContractsAssumption DEF ShownAs
<1>4. PICK in, out : /\ in = ResolveToken(TokensOf(t), LinkParam(row.token0))
                     /\ out = ResolveToken(TokensOf(t), LinkParam(row.token1))
  OBVIOUS
<1> DEFINE nextIn == IF in = NoToken THEN page.swap[t][1] ELSE in
           nextOut == IF out = NoToken THEN page.swap[t][2] ELSE out
<1>5. /\ form[1] = IF in # NoToken /\ ~SameToken(in, nextOut) THEN in ELSE page.swap[t][1]
      /\ form[2] = IF out # NoToken /\ ~SameToken(out, nextIn) THEN out ELSE page.swap[t][2]
  BY <1>4 DEF SwapFromLink
<1> DEFINE clear0 == ~(row.token0.known /\ Ambiguous(t, row.token0))
           clear1 == ~(row.token1.known /\ Ambiguous(t, row.token1))
<1>6. /\ clear0 => /\ in # NoToken => Routed(in) = a /\ in.address = IF a = Wkash THEN Native ELSE a
                   /\ row.token0.known => in # NoToken
      /\ clear1 => /\ out # NoToken => Routed(out) = b /\ out.address = IF b = Wkash THEN Native ELSE b
                   /\ row.token1.known => out # NoToken
  BY <1>2, <1>4, RowTokenResolves
<1>7. ASSUME clear0 PROVE form[1] = page.swap[t][1] \/ Routed(form[1]) = a
  BY <1>5, <1>6, <1>7
<1>8. ASSUME clear1 PROVE form[2] = page.swap[t][2] \/ Routed(form[2]) = b
  BY <1>5, <1>6, <1>8
<1>9. ASSUME clear0, clear1, row.token0.known, row.token1.known
      PROVE  Routed(form[1]) = a /\ Routed(form[2]) = b
  <2>1. in # NoToken /\ out # NoToken /\ nextIn = in /\ nextOut = out
    BY <1>6, <1>9
  <2>2. ~SameToken(in, out) /\ ~SameToken(out, in)
    BY <1>2, <1>3, <1>6, <1>9, <2>1 DEF SameToken
  <2>3. form[1] = in /\ form[2] = out
    BY <1>5, <2>1, <2>2
  <2> QED BY <1>6, <1>9, <2>1, <2>3
<1>10. Side = {1, 2}
  BY DEF Side
<1> DEFINE tokens == <<row.token0, row.token1>>
<1>11. tokens[1] = row.token0 /\ tokens[2] = row.token1
  OBVIOUS
<1> HIDE DEF tokens
<1>12. ASSUME NEW i \in Side, ~(tokens[i].known /\ Ambiguous(t, tokens[i]))
       PROVE  /\ form[i] = page.swap[t][i] \/ Routed(form[i]) = tokens[i].address
              /\ (\A j \in Side : tokens[j].known /\ ~Ambiguous(t, tokens[j]))
                 => Routed(form[i]) = tokens[i].address
  BY <1>3, <1>7, <1>8, <1>9, <1>10, <1>11, <1>12
<1> QED BY <1>12 DEF tokens

(* config/tokens.ts, state/tokens.tsx, useUrlToken.ts and PoolsView.tsx:   *)
(* whatever order of picks, imports, removals and links led there, the two *)
(* sides of a form hold the tokens that were meant, and links lead back.   *)
THEOREM ChoicesAlwaysSound == Spec => []ChoicesAreSound
<1>1. ActivityInv /\ PageInv => ChoicesAreSound
  BY AllTyped, AllListedWin, AllOnOneSide, BarsReopen, RowsOpen DEF ChoicesAreSound
<1> QED BY <1>1, InitActivity, NextActivity, InitPage, NextPage, PTL DEF Spec

-----------------------------------------------------------------------------
(* What a tab that is opened takes over.                                   *)

LEMMA OnlyMountingMounts ==
  ASSUME Recorded, [Next]_vars, NEW t \in Tab, t \notin mounting, t \in mounting'
  PROVE  MountTab(t)
<1>1. ActivityNext => mounting' = mounting
  <2>1. ASSUME NEW u \in Tab, NEW x \in Tx,
               Ask(u, x) \/ NoticeReceipt(u, x) \/ NoticeError(u, x) \/ Dismiss(u, x)
        PROVE  mounting' = mounting
    BY <2>1 DEF Ask, NoticeReceipt, NoticeError, Dismiss
  <2>2. ASSUME NEW u \in Tab, NEW a \in Account, SwitchAccount(u, a) PROVE mounting' = mounting
    BY <2>2 DEF SwitchAccount
  <2>3. ASSUME NEW u \in Tab, LeaveForm(u) \/ Clear(u) PROVE mounting' = mounting
    BY <2>3 DEF LeaveForm, Clear
  <2>4. ASSUME NEW x \in Tx, WalletRefuses(x) \/ WalletSends(x) \/ Ends(x) \/ Ages(x)
        PROVE  mounting' = mounting
    BY <2>4 DEF WalletRefuses, WalletSends, Ends, Ages
  <2> QED BY <2>1, <2>2, <2>3, <2>4 DEF ActivityNext
<1>2. Aside => mounting' = mounting
  BY DEF Aside
<1>3. ASSUME NEW u \in Tab, MountTab(u) PROVE u = t
  BY <1>3 DEF MountTab, Mount
<1>4. ASSUME NEW u \in Tab, OpenTab(u) \/ CloseTab(u) PROVE FALSE
  BY <1>4 DEF OpenTab, Open, CloseTab, Close
<1> QED BY <1>1, <1>2, <1>3, <1>4, StepsAre

LEMMA ReopenedAsKept ==
  ASSUME Recorded, PageInv, [Next]_vars, NEW t \in Tab, t \notin mounting, t \in mounting',
         opened # {}, ~broken
  PROVE  /\ page'.imports[t] = Without(page.entries, {e \in Seqs!ToSet(page.entries) : ~Valid(e)})
         /\ page'.settings[t] = page.record
         /\ page'.entries = page.entries /\ page'.record = page.record
<1>1. /\ page'.imports[t] = HydratedImports(page.entries)
      /\ page'.settings[t] = HydratedSettings(page.record)
      /\ page'.entries = page.entries /\ page'.record = page.record
  BY OnlyMountingMounts, TabMounted
<1>2. ImportsSound(page.entries) /\ AsImported(page.entries) /\ page.record \in Accepted
      /\ page.record \in {NoData, Corrupt} \cup Settings
  BY DEF PageInv, ImportsInv, SettingsInv
<1>3. HydratedSettings(page.record) = page.record
  BY <1>2, HydratedAccepted
<1>4. HydratedImports(page.entries) = Without(page.entries, {e \in Seqs!ToSet(page.entries) : ~Valid(e)})
  BY <1>2, CleanIs DEF HydratedImports
<1> QED BY <1>1, <1>3, <1>4

(* lib/storage.ts, state/tokens.tsx, state/settings.tsx and                *)
(* state/activity.tsx: a tab that is opened takes over what was imported   *)
(* and set, whichever tab wrote it, and leaves it in the storage until it  *)
(* has; and while a tab is open nothing but the user, or a full list, takes*)
(* a pending transaction off its list.                                     *)
THEOREM NothingEverForgotten == Spec => NothingIsForgotten
<1>1. Recorded /\ PageInv /\ [Next]_vars =>
        (\A t \in Tab : t \notin mounting /\ t \in mounting' /\ opened # {} /\ ~broken =>
           /\ page'.imports[t] = Without(page.entries, {e \in Seqs!ToSet(page.entries) : ~Valid(e)})
           /\ page'.settings[t] = page.record
           /\ page'.entries = page.entries /\ page'.record = page.record)
  BY ReopenedAsKept
<1>2. ActivityInv => Recorded
  BY DEF ActivityInv
<1>3. Spec => ReopeningKeepsChoices
  BY <1>1, <1>2, InitActivity, NextActivity, InitPage, NextPage, PTL DEF Spec, ReopeningKeepsChoices
<1> QED BY <1>3, PendingLeavesOnlyIfDropped DEF NothingIsForgotten

-----------------------------------------------------------------------------
(* What the tables show.                                                   *)

LEMMA KnownDecimals ==
  ASSUME NEW imports, ImportsSound(imports), NEW token \in Seqs!ToSet(Tokens(imports)), token.address # Native
  PROVE  token.decimals = Contracts[token.address].decimals
<1>1. CASE token \in Seqs!ToSet(TOKEN_LIST)
  <2>1. token \in {WKASH} \cup Seqs!ToSet(Deployed)
    BY <1>1, TokenListIs DEF KASH, TokenWith
  <2> QED BY <2>1, ContractsAssumption
<1>2. CASE token \in Seqs!ToSet(imports)
  <2>1. token.address \in DOMAIN Contracts /\ token = Metadata(token.address)
    BY <1>2, AsImportedIs DEF ImportsSound, Seqs!ToSet
  <2> QED BY <2>1, MetadataIs
<1> QED BY <1>1, <1>2, TokensIs

LEMMA ScalesAre == PageInv => ScaleIsOwnOrDefault
<1> SUFFICES ASSUME PageInv, NEW t \in Tab PROVE
      /\ \A row \in Seqs!ToSet(Pools(t)) : \A token \in {row.token0, row.token1} :
           token.decimals \in {Contracts[token.address].decimals}
                                \cup (IF token.known THEN {} ELSE {DEFAULT_DECIMALS})
      /\ \A form \in Form, i \in Side :
           IsListed(page[form][t][i])
           \/ page[form][t][i].decimals \in {Contracts[page[form][t][i].address].decimals, DEFAULT_DECIMALS}
  BY DEF ScaleIsOwnOrDefault
<1>1. ImportsSound(page.imports[t]) /\ TokensOf(t) = Tokens(page.imports[t])
  BY DEF PageInv, ImportsInv, TokensOf
<1>2. TokensOf(t) \in Seq(Token)
  BY <1>1, TokensIs
<1>3. ASSUME NEW token, NEW a \in DOMAIN Contracts, ShownAs(TokensOf(t), token, a)
      PROVE  token.decimals \in {Contracts[token.address].decimals}
                                  \cup (IF token.known THEN {} ELSE {DEFAULT_DECIMALS})
  <2>1. token.address = a
    BY <1>3 DEF ShownAs
  <2>2. CASE token.known
    <3>1. PICK listed : /\ listed = TokenByAddress(TokensOf(t), a) /\ listed # NoToken
                        /\ token.decimals = listed.decimals
      BY <1>3, <2>2 DEF ShownAs
    <3>2. listed \in Seqs!ToSet(TokensOf(t)) /\ listed.address = a /\ a # Native
      BY <1>2, <3>1, ByAddressIs
    <3>3. listed.decimals = Contracts[a].decimals
      BY <1>1, <3>2, KnownDecimals
    <3> QED BY <2>1, <2>2, <3>1, <3>3
  <2>3. CASE ~token.known
    BY <1>3, <2>1, <2>3 DEF ShownAs
  <2> QED BY <2>2, <2>3
<1>4. ASSUME NEW row \in Seqs!ToSet(Pools(t)), NEW token \in {row.token0, row.token1}
      PROVE  token.decimals \in {Contracts[token.address].decimals}
                                  \cup (IF token.known THEN {} ELSE {DEFAULT_DECIMALS})
  <2>1. ShownRow(TokensOf(t), row)
    BY PoolsAre DEF Seqs!ToSet
  <2>2. PICK a \in DOMAIN Contracts : ShownAs(TokensOf(t), token, a)
    BY <2>1 DEF ShownRow
  <2> QED BY <1>3, <2>2
<1>5. \A form \in Form, i \in Side : FormToken(page[form][t][i])
  BY FormIs DEF FormSound, Side
<1> QED BY <1>4, <1>5 DEF FormToken

LEMMA RowsAreTheirPairs == PageInv => RowsShowTheirPair
<1> SUFFICES ASSUME PageInv, NEW t \in Tab, NEW row \in Seqs!ToSet(Pools(t)) PROVE
      /\ row.token0.address = Pairs[row.pair].token0 /\ row.token1.address = Pairs[row.pair].token1
      /\ \E s \in Seqs!ToSet(Pairs[row.pair].history) : <<row.reserve0, row.reserve1>> = s.reserves
      /\ \E s \in Seqs!ToSet(Pairs[row.pair].history) : row.totalSupply = s.supply
  BY DEF RowsShowTheirPair
<1>1. ShownRow(TokensOf(t), row)
  BY PoolsAre DEF Seqs!ToSet
<1> QED BY <1>1 DEF ShownRow, ShownAs, States

LEMMA PositionsAreOwn == PageInv => PositionsAreTheirOwn
BY PositionsAre DEF PositionsAreTheirOwn, States

-----------------------------------------------------------------------------
(* A function defined by recursion from 0 exists.                          *)
Steps(f, n, D, b, G) ==
  f \in [0 .. n -> D] /\ f[0] = b /\ \A i \in 1 .. n : f[i] = G[<<i, f[i - 1]>>]

LEMMA RecursionFromZero ==
  ASSUME NEW n \in Nat, NEW D, NEW b \in D, NEW G \in [(1 .. n) \X D -> D]
  PROVE  \E f : Steps(f, n, D, b, G)
<1> DEFINE H == [z \in (1 .. n + 1) \X D |-> IF z[1] \in 1 .. n THEN G[<<z[1], z[2]>>] ELSE z[2]]
<1>1. H \in [(1 .. n + 1) \X D -> D]
  OBVIOUS
<1>2. n + 1 \in Nat
  BY SMT
<1>3. PICK h : Climbs(h, n + 1, D, b, H)
  <2> HIDE DEF H
  <2> QED BY <1>1, <1>2, Recursion
<1> DEFINE f == [i \in 0 .. n |-> h[i + 1]]
<1>4. /\ \A i \in 0 .. n : i + 1 \in 1 .. n + 1
      /\ 0 + 1 = 1 /\ 0 \in 0 .. n /\ n + 1 >= 1
      /\ \A i \in 1 .. n : i \in 1 .. (n + 1) - 1 /\ i \in 1 .. n + 1 /\ i - 1 \in 0 .. n /\ i \in 0 .. n /\ (i - 1) + 1 = i
  BY SMT
<1>5. f \in [0 .. n -> D] /\ f[0] = b
  BY <1>3, <1>4 DEF Climbs
<1>6. ASSUME NEW i \in 1 .. n
      PROVE  f[i] = G[<<i, f[i - 1]>>]
  <2>1. h[i + 1] = H[<<i, h[i]>>] /\ h[i] \in D
    BY <1>3, <1>4 DEF Climbs
  <2>2. H[<<i, h[i]>>] = G[<<i, h[i]>>]
    BY <1>4, <2>1
  <2>3. f[i] = h[i + 1] /\ f[i - 1] = h[i]
    BY <1>4
  <2> QED BY <2>1, <2>2, <2>3
<1> QED BY <1>5, <1>6 DEF Steps

-----------------------------------------------------------------------------
(* Powers of ten.                                                          *)
LEMMA TenToTheIs ==
  ASSUME NEW n \in Nat
  PROVE  TenToThe(n) \in Nat \ {0}
<1> DEFINE Step(f, i) == IF i = 0 THEN 1 ELSE 10 * f[i - 1]
           Is(f) == f = [i \in 0 .. n |-> Step(f, i)]
           D == Nat \ {0}
           G == [z \in (1 .. n) \X D |-> 10 * z[2]]
           g == CHOOSE f : Is(f)
<1>1. TenToThe(n) = g[n]
  BY DEF TenToThe
<1>2. 1 \in D /\ G \in [(1 .. n) \X D -> D]
  <2>1. \A x \in D : 10 * x \in D
    BY SMT
  <2> QED BY <2>1
<1>3. \E f : Is(f)
  <2>0. PICK f : Steps(f, n, D, 1, G)
    <3> HIDE DEF D, G
    <3> QED BY <1>2, RecursionFromZero
  <2>1. f \in [0 .. n -> D] /\ f[0] = 1 /\ \A i \in 1 .. n : f[i] = G[<<i, f[i - 1]>>]
    BY <2>0 DEF Steps
  <2>2. /\ \A i \in 0 .. n : i # 0 => i \in 1 .. n
        /\ \A i \in 1 .. n : i - 1 \in 0 .. n
    BY SMT
  <2>3. ASSUME NEW i \in 1 .. n PROVE f[i] = 10 * f[i - 1]
    <3>1. f[i - 1] \in D
      BY <2>1, <2>2
    <3>2. <<i, f[i - 1]>> \in (1 .. n) \X D /\ <<i, f[i - 1]>>[1] = i /\ <<i, f[i - 1]>>[2] = f[i - 1]
      BY <3>1
    <3>3. G[<<i, f[i - 1]>>] = 10 * f[i - 1]
      BY <3>2, Zenon
    <3> QED BY <2>1, <3>3
  <2>4. ASSUME NEW i \in 0 .. n PROVE f[i] = Step(f, i)
    <3> HIDE DEF G
    <3> QED BY <2>1, <2>2, <2>3
  <2>5. f = [i \in 0 .. n |-> Step(f, i)]
    <3> HIDE DEF Step, G
    <3> QED BY <2>1, <2>4
  <2> HIDE DEF Step
  <2> QED BY <2>5
<1>4. \A i \in 0 .. n : g[i] = Step(g, i)
  <2>1. Is(g)
    <3> HIDE DEF Is
    <3> QED BY <1>3
  <2> HIDE DEF g
  <2> QED BY <2>1
<1> HIDE DEF g
<1> DEFINE Q == {k \in Nat : k <= n => g[k] \in D}
<1>5. 0 \in Q
  BY <1>4, SMT
<1>6. ASSUME NEW k \in 0 .. n - 1, k \in Q PROVE k + 1 \in Q
  <2>1. k <= n /\ k + 1 \in 0 .. n /\ k + 1 # 0 /\ (k + 1) - 1 = k /\ k + 1 \in Nat
    BY SMT
  <2>2. g[k] \in D /\ g[k + 1] = 10 * g[k]
    BY <1>4, <1>6, <2>1
  <2>3. g[k + 1] \in D
    BY <2>2, SMT
  <2> QED BY <2>1, <2>3
<1>7. n \in Q
  <2>1. n \in 0 .. n
    BY SMT
  <2> HIDE DEF Q
  <2> QED BY <1>5, <1>6, <2>1, UpTo
<1> QED BY <1>1, <1>7, SMT

-----------------------------------------------------------------------------
(* Sums.                                                                   *)

(* f adds up the first items of a.                                         *)
AddsUp(f, n, a) ==
  f \in [0 .. n -> Nat] /\ f[0] = 0 /\ \A i \in 1 .. n : f[i] = f[i - 1] + a[i]

(* SumOf adds up the items.                                                *)
LEMMA SumIs ==
  ASSUME NEW n \in Nat, NEW a \in [1 .. n -> Nat]
  PROVE  \E f : AddsUp(f, n, a) /\ SumOf(a) = f[n]
<1> DEFINE Step(f, i) == IF i = 0 THEN 0 ELSE f[i - 1] + a[i]
           Is(f) == f = [i \in 0 .. n |-> Step(f, i)]
           G == [z \in (1 .. n) \X Nat |-> z[2] + a[z[1]]]
           g == CHOOSE f : Is(f)
<1>1. Len(a) = n
  <2>1. a \in Seq(Nat) /\ DOMAIN a = 1 .. n
    OBVIOUS
  <2>2. Len(a) \in Nat /\ DOMAIN a = 1 .. Len(a)
    BY <2>1, LenProperties
  <2> QED BY <2>1, <2>2, SMT
<1>2. SumOf(a) = g[n]
  BY <1>1 DEF SumOf
<1>3. 0 \in Nat /\ G \in [(1 .. n) \X Nat -> Nat]
  <2>1. \A x \in Nat, y \in Nat : x + y \in Nat
    BY SMT
  <2> QED BY <2>1
<1>4. \E f : Is(f)
  <2>0. PICK f : Steps(f, n, Nat, 0, G)
    <3> HIDE DEF G
    <3> QED BY <1>3, RecursionFromZero
  <2>1. f \in [0 .. n -> Nat] /\ f[0] = 0 /\ \A i \in 1 .. n : f[i] = G[<<i, f[i - 1]>>]
    BY <2>0 DEF Steps
  <2>2. /\ \A i \in 0 .. n : i # 0 => i \in 1 .. n
        /\ \A i \in 1 .. n : i - 1 \in 0 .. n
    BY SMT
  <2>3. ASSUME NEW i \in 1 .. n PROVE f[i] = f[i - 1] + a[i]
    <3>1. f[i - 1] \in Nat
      BY <2>1, <2>2
    <3>2. <<i, f[i - 1]>> \in (1 .. n) \X Nat /\ <<i, f[i - 1]>>[1] = i /\ <<i, f[i - 1]>>[2] = f[i - 1]
      BY <3>1
    <3>3. G[<<i, f[i - 1]>>] = f[i - 1] + a[i]
      BY <3>2, Zenon
    <3> QED BY <2>1, <3>3
  <2>4. ASSUME NEW i \in 0 .. n PROVE f[i] = Step(f, i)
    <3> HIDE DEF G
    <3> QED BY <2>1, <2>2, <2>3
  <2>5. f = [i \in 0 .. n |-> Step(f, i)]
    <3> HIDE DEF Step, G
    <3> QED BY <2>1, <2>4
  <2> HIDE DEF Step
  <2> QED BY <2>5
<1>5. g = [i \in 0 .. n |-> Step(g, i)]
  <2>1. Is(g)
    <3> HIDE DEF Is
    <3> QED BY <1>4
  <2> HIDE DEF g
  <2> QED BY <2>1
<1> HIDE DEF g
<1>6. \A i \in 0 .. n : g[i] = Step(g, i)
  BY <1>5
<1> DEFINE Q == {k \in Nat : k <= n => g[k] \in Nat}
<1>7. 0 \in Q
  BY <1>6, SMT
<1>8. ASSUME NEW k \in 0 .. n - 1, k \in Q PROVE k + 1 \in Q
  <2>1. k <= n /\ k + 1 \in 0 .. n /\ k + 1 # 0 /\ (k + 1) - 1 = k /\ k + 1 \in Nat /\ k + 1 \in 1 .. n
    BY SMT
  <2>2. g[k] \in Nat /\ g[k + 1] = g[k] + a[k + 1] /\ a[k + 1] \in Nat
    BY <1>6, <1>8, <2>1
  <2>3. g[k + 1] \in Nat
    BY <2>2, SMT
  <2> QED BY <2>1, <2>3
<1>9. \A k \in 0 .. n : g[k] \in Nat
  <2>1. \A k \in 0 .. n : k \in Q
    <3> HIDE DEF Q
    <3> QED BY <1>7, <1>8, UpTo
  <2>2. \A k \in 0 .. n : k <= n
    BY SMT
  <2> QED BY <2>1, <2>2
<1>10. AddsUp(g, n, a)
  <2>1. g \in [0 .. n -> Nat]
    BY <1>5, <1>9
  <2>2. 0 \in 0 .. n /\ \A i \in 1 .. n : i \in 0 .. n /\ i # 0
    BY SMT
  <2>3. g[0] = 0 /\ \A i \in 1 .. n : g[i] = g[i - 1] + a[i]
    BY <1>6, <2>2
  <2> QED BY <2>1, <2>3 DEF AddsUp
<1> QED BY <1>2, <1>10

(* What holds of nothing and moves on with each item holds of the sums.    *)
LEMMA SumsMoveOn ==
  ASSUME NEW n \in Nat, NEW a \in [1 .. n -> Nat], NEW b \in [1 .. n -> Nat], NEW c \in [1 .. n -> Nat],
         NEW R, <<0, 0, 0, 0>> \in R,
         \A k \in 0 .. n - 1 : \A x \in Nat, y \in Nat, z \in Nat :
           <<k, x, y, z>> \in R => <<k + 1, x + a[k + 1], y + b[k + 1], z + c[k + 1]>> \in R
  PROVE  /\ SumOf(a) \in Nat /\ SumOf(b) \in Nat /\ SumOf(c) \in Nat
         /\ <<n, SumOf(a), SumOf(b), SumOf(c)>> \in R
<1>1. PICK f, g, h : /\ AddsUp(f, n, a) /\ AddsUp(g, n, b) /\ AddsUp(h, n, c)
                     /\ SumOf(a) = f[n] /\ SumOf(b) = g[n] /\ SumOf(c) = h[n]
  <2>1. PICK f : AddsUp(f, n, a) /\ SumOf(a) = f[n]
    BY SumIs
  <2>2. PICK g : AddsUp(g, n, b) /\ SumOf(b) = g[n]
    BY SumIs
  <2>3. PICK h : AddsUp(h, n, c) /\ SumOf(c) = h[n]
    BY SumIs
  <2> QED BY <2>1, <2>2, <2>3
<1>2. /\ f \in [0 .. n -> Nat] /\ g \in [0 .. n -> Nat] /\ h \in [0 .. n -> Nat]
      /\ f[0] = 0 /\ g[0] = 0 /\ h[0] = 0
      /\ \A i \in 1 .. n : f[i] = f[i - 1] + a[i] /\ g[i] = g[i - 1] + b[i] /\ h[i] = h[i - 1] + c[i]
  BY <1>1 DEF AddsUp
<1> DEFINE Q == {k \in 0 .. n : <<k, f[k], g[k], h[k]>> \in R}
<1>3. 0 \in 0 .. n /\ n \in 0 .. n
  BY SMT
<1>4. 0 \in Q
  BY <1>2, <1>3
<1>5. ASSUME NEW k \in 0 .. n - 1, k \in Q PROVE k + 1 \in Q
  <2>1. k \in 0 .. n /\ k + 1 \in 0 .. n /\ k + 1 \in 1 .. n /\ (k + 1) - 1 = k
    BY SMT
  <2>2. f[k] \in Nat /\ g[k] \in Nat /\ h[k] \in Nat
    BY <1>2, <2>1
  <2>3. <<k + 1, f[k] + a[k + 1], g[k] + b[k + 1], h[k] + c[k + 1]>> \in R
    BY <1>5, <2>2
  <2>4. f[k + 1] = f[k] + a[k + 1] /\ g[k + 1] = g[k] + b[k + 1] /\ h[k + 1] = h[k] + c[k + 1]
    BY <1>2, <2>1
  <2> QED BY <2>1, <2>3, <2>4
<1>6. \A k \in 0 .. n : k \in Q
  <2> HIDE DEF Q
  <2> QED BY <1>4, <1>5, UpTo
<1> QED BY <1>1, <1>2, <1>3, <1>6

(* Item by item, or all of one and all of the other.                       *)
LEMMA SumOfSums ==
  ASSUME NEW n \in Nat, NEW a \in [1 .. n -> Nat], NEW b \in [1 .. n -> Nat], NEW c \in [1 .. n -> Nat],
         \A i \in 1 .. n : c[i] = a[i] + b[i]
  PROVE  /\ SumOf(a) \in Nat /\ SumOf(b) \in Nat /\ SumOf(c) \in Nat
         /\ SumOf(c) = SumOf(a) + SumOf(b)
<1> DEFINE R == {w \in Nat \X Nat \X Nat \X Nat : w[4] = w[2] + w[3]}
<1>1. <<0, 0, 0, 0>> \in R
  BY SMT
<1>2. ASSUME NEW k \in 0 .. n - 1, NEW x \in Nat, NEW y \in Nat, NEW z \in Nat, <<k, x, y, z>> \in R
      PROVE  <<k + 1, x + a[k + 1], y + b[k + 1], z + c[k + 1]>> \in R
  <2>1. k + 1 \in 1 .. n /\ k + 1 \in Nat /\ z = x + y
    BY <1>2, SMT
  <2>2. a[k + 1] \in Nat /\ b[k + 1] \in Nat /\ c[k + 1] \in Nat /\ c[k + 1] = a[k + 1] + b[k + 1]
    BY <2>1
  <2>3. /\ x + a[k + 1] \in Nat /\ y + b[k + 1] \in Nat /\ z + c[k + 1] \in Nat
        /\ z + c[k + 1] = (x + a[k + 1]) + (y + b[k + 1])
    <3>1. PICK u \in Nat, v \in Nat, w \in Nat : u = a[k + 1] /\ v = b[k + 1] /\ w = c[k + 1] /\ w = u + v
      BY <2>2
    <3>2. \A s \in Nat, t \in Nat : x + s \in Nat /\ y + t \in Nat
            /\ (x + y) + (s + t) \in Nat /\ (x + y) + (s + t) = (x + s) + (y + t)
      BY SMT
    <3>3. z + w = (x + y) + (u + v)
      BY <2>1, <3>1
    <3>4. x + u \in Nat /\ y + v \in Nat /\ z + w \in Nat /\ z + w = (x + u) + (y + v)
      BY <3>2, <3>3
    <3> QED BY <3>1, <3>4
  <2> QED BY <2>1, <2>3
<1>3. \A k \in 0 .. n - 1 : \A x \in Nat, y \in Nat, z \in Nat :
        <<k, x, y, z>> \in R => <<k + 1, x + a[k + 1], y + b[k + 1], z + c[k + 1]>> \in R
  BY <1>2
<1>4. /\ SumOf(a) \in Nat /\ SumOf(b) \in Nat /\ SumOf(c) \in Nat
      /\ <<n, SumOf(a), SumOf(b), SumOf(c)>> \in R
  <2> HIDE DEF R
  <2> QED BY <1>1, <1>3, SumsMoveOn
<1> QED BY <1>4

(* Each bounded, the sums are.                                             *)
LEMMA SumOfBounded ==
  ASSUME NEW n \in Nat, NEW a \in [1 .. n -> Nat], NEW b \in [1 .. n -> Nat], NEW c \in [1 .. n -> Nat],
         \A i \in 1 .. n : a[i] <= b[i] /\ b[i] <= a[i] + c[i]
  PROVE  /\ SumOf(a) \in Nat /\ SumOf(b) \in Nat /\ SumOf(c) \in Nat
         /\ SumOf(a) <= SumOf(b) /\ SumOf(b) <= SumOf(a) + SumOf(c)
<1> DEFINE R == {w \in Nat \X Nat \X Nat \X Nat : w[2] <= w[3] /\ w[3] <= w[2] + w[4]}
<1>1. <<0, 0, 0, 0>> \in R
  BY SMT
<1>2. ASSUME NEW k \in 0 .. n - 1, NEW x \in Nat, NEW y \in Nat, NEW z \in Nat, <<k, x, y, z>> \in R
      PROVE  <<k + 1, x + a[k + 1], y + b[k + 1], z + c[k + 1]>> \in R
  <2>1. k + 1 \in 1 .. n /\ k + 1 \in Nat /\ x <= y /\ y <= x + z
    BY <1>2, SMT
  <2>2. /\ a[k + 1] \in Nat /\ b[k + 1] \in Nat /\ c[k + 1] \in Nat
        /\ a[k + 1] <= b[k + 1] /\ b[k + 1] <= a[k + 1] + c[k + 1]
    BY <2>1
  <2>3. /\ x + a[k + 1] \in Nat /\ y + b[k + 1] \in Nat /\ z + c[k + 1] \in Nat
        /\ x + a[k + 1] <= y + b[k + 1]
        /\ y + b[k + 1] <= (x + a[k + 1]) + (z + c[k + 1])
    <3>1. \A u \in Nat, v \in Nat, w \in Nat : u <= v /\ v <= u + w =>
            /\ x + u \in Nat /\ y + v \in Nat /\ z + w \in Nat
            /\ x + u <= y + v /\ y + v <= (x + u) + (z + w)
      BY <2>1, SMT
    <3> QED BY <2>2, <3>1
  <2> QED BY <2>1, <2>3
<1>3. \A k \in 0 .. n - 1 : \A x \in Nat, y \in Nat, z \in Nat :
        <<k, x, y, z>> \in R => <<k + 1, x + a[k + 1], y + b[k + 1], z + c[k + 1]>> \in R
  BY <1>2
<1>4. /\ SumOf(a) \in Nat /\ SumOf(b) \in Nat /\ SumOf(c) \in Nat
      /\ <<n, SumOf(a), SumOf(b), SumOf(c)>> \in R
  <2> HIDE DEF R
  <2> QED BY <1>1, <1>3, SumsMoveOn
<1> QED BY <1>4

(* All but one of them nothing.                                            *)
LEMMA SumOfOne ==
  ASSUME NEW n \in Nat, NEW a \in [1 .. n -> Nat], NEW j, \A i \in 1 .. n : i # j => a[i] = 0
  PROVE  SumOf(a) = IF j \in 1 .. n THEN a[j] ELSE 0
<1> DEFINE R == {w \in Nat \X Nat \X Nat \X Nat :
                   /\ (\E i \in 1 .. w[1] : i = j) => w[2] = a[j]
                   /\ ~(\E i \in 1 .. w[1] : i = j) => w[2] = 0}
<1>1. <<0, 0, 0, 0>> \in R
  <2>1. 0 \in Nat /\ \A i \in 1 .. 0 : FALSE
    BY SMT
  <2> QED BY <2>1
<1>2. ASSUME NEW k \in 0 .. n - 1, NEW x \in Nat, NEW y \in Nat, NEW z \in Nat, <<k, x, y, z>> \in R
      PROVE  <<k + 1, x + a[k + 1], y + a[k + 1], z + a[k + 1]>> \in R
  <2>1. /\ k + 1 \in 1 .. n /\ k + 1 \in Nat
        /\ \A i : i \in 1 .. k + 1 <=> i \in 1 .. k \/ i = k + 1
        /\ k + 1 \notin 1 .. k
    BY SMT
  <2>2. a[k + 1] \in Nat
    BY <2>1
  <2>3. \A u \in Nat : /\ x + u \in Nat /\ y + u \in Nat /\ z + u \in Nat
                       /\ x + 0 = x /\ (x = 0 => x + u = u)
    BY SMT
  <2>4. (\E i \in 1 .. k : i = j) => x = a[j]
    BY <1>2
  <2>5. ~(\E i \in 1 .. k : i = j) => x = 0
    BY <1>2
  <2>6. CASE k + 1 = j
    <3>1. x + a[k + 1] = a[j]
      BY <2>1, <2>2, <2>3, <2>5, <2>6
    <3> QED BY <2>1, <2>2, <2>3, <2>6, <3>1
  <2>7. CASE k + 1 # j
    <3>1. a[k + 1] = 0
      BY <2>1, <2>7
    <3>2. x + a[k + 1] = x
      BY <2>3, <3>1
    <3>3. (\E i \in 1 .. k + 1 : i = j) <=> (\E i \in 1 .. k : i = j)
      BY <2>1, <2>7
    <3> QED BY <2>1, <2>2, <2>3, <2>4, <2>5, <3>2, <3>3
  <2> QED BY <2>6, <2>7
<1>3. \A k \in 0 .. n - 1 : \A x \in Nat, y \in Nat, z \in Nat :
        <<k, x, y, z>> \in R => <<k + 1, x + a[k + 1], y + a[k + 1], z + a[k + 1]>> \in R
  BY <1>2
<1>4. <<n, SumOf(a), SumOf(a), SumOf(a)>> \in R
  <2> HIDE DEF R
  <2> QED BY <1>1, <1>3, SumsMoveOn
<1> QED BY <1>4

(* Two by two.                                                             *)
LEMMA SumInPairs ==
  ASSUME NEW n \in Nat, NEW a \in [1 .. 2 * n -> Nat], NEW c \in [1 .. n -> Nat],
         \A i \in 1 .. n : c[i] = a[2 * i - 1] + a[2 * i]
  PROVE  SumOf(a) = SumOf(c)
<1>1. 2 * n \in Nat
  BY SMT
<1>2. PICK f : AddsUp(f, 2 * n, a) /\ SumOf(a) = f[2 * n]
  BY <1>1, SumIs
<1>3. PICK g : AddsUp(g, n, c) /\ SumOf(c) = g[n]
  BY SumIs
<1> DEFINE Q == {k \in 0 .. n : f[2 * k] = g[k]}
<1>4. 0 \in 0 .. n /\ n \in 0 .. n /\ 2 * 0 = 0
  BY SMT
<1>5. 0 \in Q
  BY <1>2, <1>3, <1>4 DEF AddsUp
<1>6. ASSUME NEW k \in 0 .. n - 1, k \in Q PROVE k + 1 \in Q
  <2>1. /\ k \in 0 .. n /\ k + 1 \in 0 .. n /\ k + 1 \in 1 .. n /\ (k + 1) - 1 = k
        /\ 2 * k \in 0 .. 2 * n /\ 2 * k + 1 \in 1 .. 2 * n /\ 2 * k + 2 \in 1 .. 2 * n
        /\ (2 * k + 1) - 1 = 2 * k /\ (2 * k + 2) - 1 = 2 * k + 1
        /\ 2 * (k + 1) = 2 * k + 2 /\ 2 * (k + 1) - 1 = 2 * k + 1
    BY SMT
  <2>2. f[2 * k + 1] = f[2 * k] + a[2 * k + 1] /\ f[2 * k + 2] = f[2 * k + 1] + a[2 * k + 2]
    BY <1>2, <2>1 DEF AddsUp
  <2>3. g[k + 1] = g[k] + c[k + 1] /\ c[k + 1] = a[2 * k + 1] + a[2 * k + 2]
    BY <1>3, <2>1 DEF AddsUp
  <2>4. f[2 * k] \in Nat /\ a[2 * k + 1] \in Nat /\ a[2 * k + 2] \in Nat /\ f[2 * k] = g[k]
    BY <1>2, <1>6, <2>1 DEF AddsUp
  <2>5. \A x \in Nat, y \in Nat, z \in Nat : (x + y) + z = x + (y + z)
    BY SMT
  <2>6. f[2 * k + 2] = g[k + 1]
    <3>1. f[2 * k + 2] = (f[2 * k] + a[2 * k + 1]) + a[2 * k + 2]
      BY <2>2, Zenon
    <3>2. g[k + 1] = f[2 * k] + (a[2 * k + 1] + a[2 * k + 2])
      BY <2>3, <2>4, Zenon
    <3> QED BY <2>4, <2>5, <3>1, <3>2, Zenon
  <2> QED BY <2>1, <2>6
<1>7. \A k \in 0 .. n : k \in Q
  <2> HIDE DEF Q
  <2> QED BY <1>5, <1>6, UpTo
<1> QED BY <1>2, <1>3, <1>4, <1>7

(* The totals of the rows and of the columns of a table.                   *)
Column(w, m, j) == [i \in 1 .. m |-> w[i][j]]

Totals(w, m, n, rows, columns) ==
  /\ m \in Nat /\ n \in Nat /\ w \in [1 .. m -> [1 .. n -> Nat]]
  /\ rows \in [1 .. m -> Nat] /\ columns \in [1 .. n -> Nat]
  /\ \A i \in 1 .. m : rows[i] = SumOf(w[i])
  /\ \A j \in 1 .. n : columns[j] = SumOf(Column(w, m, j))

(* A table has one total, by rows or by columns.                           *)
LEMMA SumsInEitherOrder ==
  ASSUME NEW w, NEW m, NEW n, NEW rows, NEW columns, Totals(w, m, n, rows, columns)
  PROVE  SumOf(rows) = SumOf(columns)
<1> m \in Nat /\ n \in Nat /\ w \in [1 .. m -> [1 .. n -> Nat]]
  BY DEF Totals
<1> rows \in [1 .. m -> Nat] /\ columns \in [1 .. n -> Nat]
  BY DEF Totals
<1>0. /\ \A i \in 1 .. m : rows[i] = SumOf(w[i])
      /\ \A j \in 1 .. n : columns[j] = SumOf(Column(w, m, j))
  BY DEF Totals
<1>1. PICK f : AddsUp(f, m, rows) /\ SumOf(rows) = f[m]
  BY SumIs
<1> DEFINE column(j) == Column(w, m, j)
           Is(g, j) == AddsUp(g, m, column(j)) /\ SumOf(column(j)) = g[m]
           g == [j \in 1 .. n |-> CHOOSE h : Is(h, j)]
<1>2. \A j \in 1 .. n : column(j) \in [1 .. m -> Nat] /\ \A i \in 1 .. m : column(j)[i] = w[i][j]
  BY DEF Column
<1>3. \A j \in 1 .. n : Is(g[j], j)
  <2> HIDE DEF column
  <2>1. \A j \in 1 .. n : \E h : Is(h, j)
    BY <1>2, SumIs
  <2> HIDE DEF Is
  <2> QED BY <2>1
<1> HIDE DEF g, column
<1>4. \A j \in 1 .. n : /\ g[j] \in [0 .. m -> Nat] /\ g[j][0] = 0
                        /\ \A i \in 1 .. m : g[j][i] = g[j][i - 1] + w[i][j]
                        /\ columns[j] = g[j][m]
  <2> SUFFICES ASSUME NEW j \in 1 .. n
               PROVE  /\ g[j] \in [0 .. m -> Nat] /\ g[j][0] = 0
                      /\ \A i \in 1 .. m : g[j][i] = g[j][i - 1] + w[i][j]
                      /\ columns[j] = g[j][m]
    OBVIOUS
  <2>1. AddsUp(g[j], m, column(j)) /\ SumOf(column(j)) = g[j][m]
    BY <1>3
  <2>2. columns[j] = SumOf(column(j))
    BY <1>0 DEF column
  <2>3. \A i \in 1 .. m : column(j)[i] = w[i][j]
    BY <1>2
  <2> QED BY <2>1, <2>2, <2>3 DEF AddsUp
<1> DEFINE upTo(k) == [j \in 1 .. n |-> g[j][k]]
<1>5. \A k \in 0 .. m : upTo(k) \in [1 .. n -> Nat] /\ \A j \in 1 .. n : upTo(k)[j] = g[j][k]
  BY <1>4
<1> HIDE DEF upTo
<1> DEFINE Q == {k \in 0 .. m : f[k] = SumOf(upTo(k))}
<1>6. 0 \in 0 .. m /\ m \in 0 .. m
  BY SMT
<1>7. 0 \in Q
  <2>1. \A j \in 1 .. n : upTo(0)[j] = 0
    BY <1>4, <1>5, <1>6
  <2>2. 0 \notin 1 .. n
    BY SMT
  <2>3. SumOf(upTo(0)) = 0
    BY <1>5, <1>6, <2>1, <2>2, SumOfOne
  <2> QED BY <1>1, <1>6, <2>3 DEF AddsUp
<1>8. ASSUME NEW k \in 0 .. m - 1, k \in Q PROVE k + 1 \in Q
  <2>1. k \in 0 .. m /\ k + 1 \in 0 .. m /\ k + 1 \in 1 .. m /\ (k + 1) - 1 = k
    BY SMT
  <2>2. f[k + 1] = f[k] + rows[k + 1] /\ rows[k + 1] = SumOf(w[k + 1]) /\ w[k + 1] \in [1 .. n -> Nat]
    BY <1>0, <1>1, <2>1 DEF AddsUp
  <2>3. ASSUME NEW j \in 1 .. n PROVE upTo(k + 1)[j] = upTo(k)[j] + w[k + 1][j]
    <3>1. upTo(k + 1)[j] = g[j][k + 1] /\ upTo(k)[j] = g[j][k]
      BY <1>5, <2>1
    <3>2. g[j][k + 1] = g[j][k] + w[k + 1][j]
      BY <1>4, <2>1
    <3> QED BY <3>1, <3>2
  <2>4. SumOf(upTo(k + 1)) = SumOf(upTo(k)) + SumOf(w[k + 1])
    BY <1>5, <2>1, <2>2, <2>3, SumOfSums
  <2> QED BY <1>8, <2>1, <2>2, <2>4
<1>9. \A k \in 0 .. m : k \in Q
  <2> HIDE DEF Q
  <2> QED BY <1>7, <1>8, UpTo
<1>10. upTo(m) = columns
  <2>1. \A j \in 1 .. n : upTo(m)[j] = columns[j]
    BY <1>4, <1>5, <1>6
  <2> QED BY <1>5, <1>6, <2>1
<1> QED BY <1>1, <1>6, <1>9, <1>10

(* On another scale: each of those that are not nothing may lose a unit.   *)
OnScale(a, b, c, n, from, to) ==
  \A i \in 1 .. n : b[i] = Rescale(a[i], from, to) /\ (c[i] = 1 \/ a[i] = 0)

LEMMA SumRescaled ==
  ASSUME NEW n \in Nat, NEW a \in [1 .. n -> Nat], NEW b \in [1 .. n -> Nat], NEW c \in [1 .. n -> Nat],
         NEW from \in Nat, NEW to \in Nat, OnScale(a, b, c, n, from, to)
  PROVE  /\ SumOf(a) \in Nat /\ SumOf(b) \in Nat /\ SumOf(c) \in Nat
         /\ Rescale(SumOf(a), from, to) \in Nat
         /\ SumOf(b) <= Rescale(SumOf(a), from, to)
         /\ Rescale(SumOf(a), from, to) <= SumOf(b) + (IF from > to THEN SumOf(c) ELSE 0)
<1>1. CASE from > to
  <2>1. PICK d \in Nat : d > 0 /\ d = TenToThe(from - to)
    <3>1. from - to \in Nat
      BY <1>1, SMT
    <3>2. TenToThe(from - to) \in Nat \ {0}
      BY <3>1, TenToTheIs
    <3> QED BY <3>2, SMT
  <2>2. \A x : Rescale(x, from, to) = x \div d
    BY <1>1, <2>1 DEF Rescale
  <2> DEFINE R == {w \in Nat \X Nat \X Nat \X Nat : w[3] * d <= w[2] /\ w[2] <= (w[3] + w[4]) * d}
  <2>3. <<0, 0, 0, 0>> \in R
    <3>1. 0 * d <= 0 /\ 0 <= (0 + 0) * d
      BY SMT
    <3> QED BY <3>1
  <2>4. ASSUME NEW k \in 0 .. n - 1, NEW x \in Nat, NEW y \in Nat, NEW z \in Nat, <<k, x, y, z>> \in R
        PROVE  <<k + 1, x + a[k + 1], y + b[k + 1], z + c[k + 1]>> \in R
    <3>1. k + 1 \in 1 .. n /\ k + 1 \in Nat
      BY SMT
    <3>2. y * d <= x /\ x <= (y + z) * d
      BY <2>4
    <3>3. PICK u \in Nat, v \in Nat, e \in Nat :
            u = a[k + 1] /\ v = b[k + 1] /\ e = c[k + 1] /\ v = u \div d /\ (e = 1 \/ u = 0)
      <4>1. b[k + 1] = Rescale(a[k + 1], from, to) /\ (c[k + 1] = 1 \/ a[k + 1] = 0)
        BY <3>1 DEF OnScale
      <4>2. a[k + 1] \in Nat /\ b[k + 1] \in Nat /\ c[k + 1] \in Nat
        BY <3>1
      <4> QED BY <2>2, <4>1, <4>2, Zenon
    <3>4. v * d <= u /\ u < (v + 1) * d
      BY <2>1, <3>3, DivBounds
    <3>5. u <= (v + e) * d
      <4>1. (v + e) * d \in Nat
        BY SMT
      <4>2. CASE e = 1
        <5>1. (v + 1) * d \in Nat
          BY SMT
        <5> QED BY <3>4, <4>2, <5>1, SMT
      <4>3. CASE u = 0
        BY <4>1, <4>3, SMT
      <4> QED BY <3>3, <4>2, <4>3
    <3>6. (y + v) * d = y * d + v * d /\ ((y + v) + (z + e)) * d = (y + z) * d + (v + e) * d
      BY SMT
    <3>7. y * d \in Nat /\ v * d \in Nat /\ (y + z) * d \in Nat /\ (v + e) * d \in Nat
      BY SMT
    <3>8. y * d + v * d <= x + u /\ x + u <= (y + z) * d + (v + e) * d
      <4> DEFINE p == y * d
                 q == v * d
                 r == (y + z) * d
                 s == (v + e) * d
      <4>1. p \in Nat /\ q \in Nat /\ r \in Nat /\ s \in Nat /\ p <= x /\ q <= u /\ x <= r /\ u <= s
        BY <3>2, <3>4, <3>5, <3>7
      <4> HIDE DEF p, q, r, s
      <4>2. p + q <= x + u /\ x + u <= r + s
        BY <4>1, SMT
      <4> QED BY <4>2 DEF p, q, r, s
    <3>9. (y + v) * d <= x + u /\ x + u <= ((y + v) + (z + e)) * d
      BY <3>6, <3>8
    <3>10. x + u \in Nat /\ y + v \in Nat /\ z + e \in Nat
      BY SMT
    <3>11. <<k + 1, x + u, y + v, z + e>> \in R
      BY <3>1, <3>9, <3>10
    <3> QED BY <3>3, <3>11
  <2>5. \A k \in 0 .. n - 1 : \A x \in Nat, y \in Nat, z \in Nat :
          <<k, x, y, z>> \in R => <<k + 1, x + a[k + 1], y + b[k + 1], z + c[k + 1]>> \in R
    BY <2>4
  <2>6. /\ SumOf(a) \in Nat /\ SumOf(b) \in Nat /\ SumOf(c) \in Nat
        /\ <<n, SumOf(a), SumOf(b), SumOf(c)>> \in R
    <3> HIDE DEF R
    <3> QED BY <2>3, <2>5, SumsMoveOn
  <2>7. PICK x \in Nat, y \in Nat, z \in Nat : x = SumOf(a) /\ y = SumOf(b) /\ z = SumOf(c)
                                               /\ y * d <= x /\ x <= (y + z) * d
    BY <2>6
  <2>8. x \div d \in Nat /\ (x \div d) * d <= x /\ y <= x \div d
    BY <2>1, <2>7, DivBounds, DivLowerBound
  <2>9. x \div d <= y + z
    <3>1. PICK q \in Nat : q = x \div d
      BY <2>8
    <3>2. y + z \in Nat /\ q * d \in Nat /\ (y + z) * d \in Nat
      BY SMT
    <3>3. q * d <= (y + z) * d
      <4>1. q * d <= x
        BY <2>8, <3>1
      <4> DEFINE p == q * d
                 r == (y + z) * d
      <4>2. p \in Nat /\ r \in Nat /\ p <= x /\ x <= r
        BY <2>7, <3>2, <4>1
      <4> HIDE DEF p, r
      <4>3. p <= r
        BY <4>2, SMT
      <4> QED BY <4>3 DEF p, r
    <3>4. q <= y + z
      BY <2>1, <3>2, <3>3, MulCancel
    <3> QED BY <3>1, <3>4
  <2> QED BY <1>1, <2>2, <2>7, <2>8, <2>9
<1>2. CASE ~(from > to)
  <2>1. PICK d \in Nat : d = TenToThe(to - from)
    <3>1. to - from \in Nat
      BY <1>2, SMT
    <3> QED BY <3>1, TenToTheIs
  <2>2. \A x : Rescale(x, from, to) = x * d
    BY <1>2, <2>1 DEF Rescale
  <2> DEFINE R == {w \in Nat \X Nat \X Nat \X Nat : w[3] = w[2] * d}
  <2>3. <<0, 0, 0, 0>> \in R
    <3>1. 0 = 0 * d
      BY SMT
    <3> QED BY <3>1
  <2>4. ASSUME NEW k \in 0 .. n - 1, NEW x \in Nat, NEW y \in Nat, NEW z \in Nat, <<k, x, y, z>> \in R
        PROVE  <<k + 1, x + a[k + 1], y + b[k + 1], z + c[k + 1]>> \in R
    <3>1. k + 1 \in 1 .. n /\ k + 1 \in Nat
      BY SMT
    <3>2. y = x * d
      BY <2>4
    <3>3. PICK u \in Nat, v \in Nat, e \in Nat : u = a[k + 1] /\ v = b[k + 1] /\ e = c[k + 1] /\ v = u * d
      <4>1. b[k + 1] = Rescale(a[k + 1], from, to)
        BY <3>1 DEF OnScale
      <4>2. a[k + 1] \in Nat /\ b[k + 1] \in Nat /\ c[k + 1] \in Nat
        BY <3>1
      <4> QED BY <2>2, <4>1, <4>2, Zenon
    <3>4. x + u \in Nat /\ y + v \in Nat /\ z + e \in Nat /\ (x + u) * d = x * d + u * d
      BY SMT
    <3>5. y + v = (x + u) * d
      BY <3>2, <3>3, <3>4, Zenon
    <3>6. <<k + 1, x + u, y + v, z + e>> \in R
      BY <3>1, <3>4, <3>5
    <3> QED BY <3>3, <3>6
  <2>5. \A k \in 0 .. n - 1 : \A x \in Nat, y \in Nat, z \in Nat :
          <<k, x, y, z>> \in R => <<k + 1, x + a[k + 1], y + b[k + 1], z + c[k + 1]>> \in R
    BY <2>4
  <2>6. /\ SumOf(a) \in Nat /\ SumOf(b) \in Nat /\ SumOf(c) \in Nat
        /\ <<n, SumOf(a), SumOf(b), SumOf(c)>> \in R
    <3> HIDE DEF R
    <3> QED BY <2>3, <2>5, SumsMoveOn
  <2>7. Rescale(SumOf(a), from, to) = SumOf(b)
    BY <2>2, <2>6
  <2>8. \A x \in Nat : x <= x /\ x <= x + 0
    BY SMT
  <2> QED BY <1>2, <2>6, <2>7, <2>8
<1> QED BY <1>1, <1>2

(* As many as there are.                                                   *)
LEMMA SumCounts ==
  ASSUME NEW n \in Nat, NEW S, NEW c \in [1 .. n -> Nat],
         \A i \in 1 .. n : c[i] = IF i \in S THEN 1 ELSE 0
  PROVE  SumOf(c) = Cardinality({i \in 1 .. n : i \in S})
<1> DEFINE upTo(k) == {i \in 1 .. k : i \in S}
           R == {w \in Nat \X Nat \X Nat \X Nat : w[2] = Cardinality(upTo(w[1]))}
<1>1. <<0, 0, 0, 0>> \in R
  <2>1. upTo(0) = {}
    BY SMT
  <2> QED BY <2>1, FS_EmptySet
<1>2. ASSUME NEW k \in 0 .. n - 1, NEW x \in Nat, NEW y \in Nat, NEW z \in Nat, <<k, x, y, z>> \in R
      PROVE  <<k + 1, x + c[k + 1], y + c[k + 1], z + c[k + 1]>> \in R
  <2>1. /\ k + 1 \in 1 .. n /\ k + 1 \in Nat /\ k \in Nat
        /\ \A i : i \in 1 .. k + 1 <=> i \in 1 .. k \/ i = k + 1
        /\ k + 1 \notin 1 .. k
    BY SMT
  <2>2. \A u \in Nat : x + u \in Nat /\ y + u \in Nat /\ z + u \in Nat /\ x + 0 = x
    BY SMT
  <2>3. IsFiniteSet(upTo(k))
    <3>1. IsFiniteSet(1 .. k)
      BY <2>1, FS_Interval, SMT
    <3> QED BY <3>1, FS_Subset
  <2>4. x = Cardinality(upTo(k)) /\ c[k + 1] \in Nat
    BY <1>2, <2>1
  <2>5. CASE k + 1 \in S
    <3>1. upTo(k + 1) = upTo(k) \cup {k + 1} /\ k + 1 \notin upTo(k)
      BY <2>1, <2>5
    <3> HIDE DEF upTo
    <3>2. Cardinality(upTo(k + 1)) = x + 1
      BY <2>3, <2>4, <3>1, FS_AddElement
    <3>3. c[k + 1] = 1
      BY <2>1, <2>5
    <3> QED BY <2>1, <2>2, <2>4, <3>2, <3>3
  <2>6. CASE k + 1 \notin S
    <3>1. upTo(k + 1) = upTo(k)
      BY <2>1, <2>6
    <3> HIDE DEF upTo
    <3>2. c[k + 1] = 0 /\ x + c[k + 1] = x
      BY <2>1, <2>2, <2>6
    <3> QED BY <2>1, <2>2, <2>4, <3>1, <3>2
  <2> QED BY <2>5, <2>6
<1>3. \A k \in 0 .. n - 1 : \A x \in Nat, y \in Nat, z \in Nat :
        <<k, x, y, z>> \in R => <<k + 1, x + c[k + 1], y + c[k + 1], z + c[k + 1]>> \in R
  BY <1>2
<1>4. <<n, SumOf(c), SumOf(c), SumOf(c)>> \in R
  <2> HIDE DEF R
  <2> QED BY <1>1, <1>3, SumsMoveOn
<1> QED BY <1>4

(* Nothing is left out.                                                    *)
LEMMA NoneLeftOut ==
  ASSUME NEW n \in Nat, NEW S, \A i \in 1 .. n : i \notin S
  PROVE  Without([i \in 1 .. n |-> i], S) = [i \in 1 .. n |-> i]
<1> DEFINE s == [i \in 1 .. n |-> i]
           w == Without(s, S)
<1>1. s \in Seq(1 .. n) /\ Len(s) = n /\ Seqs!ToSet(s) = 1 .. n /\ \A i \in 1 .. n : s[i] = i
  <2>1. s \in Seq(1 .. n) /\ DOMAIN s = 1 .. n
    OBVIOUS
  <2>2. Len(s) = n
    <3> HIDE DEF s
    <3>1. Len(s) \in Nat /\ DOMAIN s = 1 .. Len(s)
      BY <2>1, LenProperties
    <3> QED BY <2>1, <3>1, SMT
  <2> QED BY <2>1, <2>2 DEF Seqs!ToSet
<1> HIDE DEF s
<1>2. /\ w \in Seq(1 .. n) /\ Seqs!ToSet(w) = (1 .. n) \ S /\ Len(w) <= n /\ Picked(w, s, n)
  BY <1>1, WithoutPicks
<1> HIDE DEF w
<1>3. Len(w) \in Nat /\ DOMAIN w = 1 .. Len(w)
  BY <1>2, LenProperties
<1>4. PICK at \in [1 .. Len(w) -> 1 .. n] :
        /\ \A i \in 1 .. Len(w) : w[i] = s[at[i]]
        /\ \A i \in 1 .. Len(w) : \A j \in 1 .. Len(w) : i < j => at[i] < at[j]
  BY <1>2 DEF Picked
<1>5. \A i \in 1 .. Len(w) : w[i] = at[i]
  BY <1>1, <1>4
<1>6. \A i \in 1 .. n : \E j \in 1 .. Len(w) : at[j] = i
  BY <1>2, <1>3, <1>5 DEF Seqs!ToSet
<1> DEFINE m == Len(w)
           Q == {k \in 0 .. n : k <= m /\ \A i \in 1 .. k : at[i] = i}
<1>7. m \in Nat /\ m <= n /\ at \in [1 .. m -> 1 .. n]
  BY <1>2, <1>3, <1>4
<1> HIDE DEF m
<1>8. 0 \in Q
  BY <1>7, SMT
<1>9. ASSUME NEW k \in 0 .. n - 1, k \in Q PROVE k + 1 \in Q
  <2>1. k + 1 \in 1 .. n /\ k + 1 \in 0 .. n /\ k \in Nat /\ k <= m
    BY <1>9, SMT
  <2>2. PICK j \in 1 .. m : at[j] = k + 1
    BY <1>6, <2>1 DEF m
  <2>3. ~(j \in 1 .. k)
    <3>1. j \in 1 .. k => at[j] = j /\ j # k + 1
      BY <1>9, SMT
    <3> QED BY <2>2, <3>1
  <2>4. j \in Nat /\ j >= k + 1 /\ k + 1 <= m /\ k + 1 \in 1 .. m
    BY <1>7, <2>1, <2>3, SMT
  <2>5. k # 0 => at[k] < at[k + 1] /\ at[k] = k
    <3>1. k # 0 => k \in 1 .. k /\ k \in 1 .. m /\ k < k + 1
      BY <1>7, <2>1, SMT
    <3> QED BY <1>4, <1>9, <2>4, <3>1 DEF m
  <2>6. at[k + 1] \in 1 .. n /\ at[k + 1] >= k + 1
    <3>1. at[k + 1] \in 1 .. n
      BY <1>7, <2>4
    <3> QED BY <2>1, <2>5, <3>1, SMT
  <2>7. j = k + 1
    <3>1. k + 1 < j => at[k + 1] < k + 1
      BY <1>4, <2>2, <2>4 DEF m
    <3> QED BY <2>1, <2>4, <2>6, <3>1, SMT
  <2>8. \A i : i \in 1 .. k + 1 <=> i \in 1 .. k \/ i = k + 1
    BY <2>1, SMT
  <2> QED BY <1>9, <2>1, <2>2, <2>4, <2>7, <2>8
<1>10. n \in Q
  <2>1. n \in 0 .. n
    BY SMT
  <2> HIDE DEF Q
  <2> QED BY <1>8, <1>9, <2>1, UpTo
<1>11. m = n /\ \A i \in 1 .. n : at[i] = i
  BY <1>7, <1>10, SMT
<1>12. w = [i \in 1 .. n |-> w[i]]
  BY <1>2, <1>3, <1>11 DEF m
<1>13. \A i \in 1 .. n : w[i] = i
  BY <1>5, <1>11 DEF m
<1> QED BY <1>12, <1>13 DEF w, s

-----------------------------------------------------------------------------
(* The figures of the landing page.                                        *)

(* A pair as the page knows it once its three reads were answered.         *)
SummaryOf(pairs, figures, i) ==
  LET token(a) == IF a = Failed THEN NoToken ELSE TokenByAddress(TOKEN_LIST, a)
  IN  [pair |-> pairs[i], token0 |-> token(figures[3 * (i - 1) + 1]),
       token1 |-> token(figures[3 * (i - 1) + 2]),
       reserve0 |-> figures[3 * (i - 1) + 3][1], reserve1 |-> figures[3 * (i - 1) + 3][2]]

(* A summary is made of a pair's own three answers, wherever others are    *)
(* missing.                                                                *)
LEMMA SummariesAre ==
  ASSUME NEW T, NEW pairs \in Seq(T), NEW figures
  PROVE  LET shown == Summaries(pairs, figures)
         IN  /\ \E n \in Nat : DOMAIN shown = 1 .. n
             /\ \A n \in DOMAIN shown : \E i \in DOMAIN pairs :
                  ResultOf(figures, 3 * i) # Failed /\ shown[n] = SummaryOf(pairs, figures, i)
             /\ (\A i \in DOMAIN pairs : ResultOf(figures, 3 * i) # Failed) =>
                  /\ DOMAIN shown = DOMAIN pairs
                  /\ \A i \in DOMAIN pairs : shown[i] = SummaryOf(pairs, figures, i)
<1> DEFINE S == {i \in DOMAIN pairs : ResultOf(figures, 3 * i) = Failed}
           answered == Without([i \in DOMAIN pairs |-> i], S)
           shown == Summaries(pairs, figures)
<1>1. shown = [n \in DOMAIN answered |-> SummaryOf(pairs, figures, answered[n])]
  BY DEF Summaries, SummaryOf
<1>2. \A i \in DOMAIN pairs : i \in S <=> ResultOf(figures, 3 * i) = Failed
  OBVIOUS
<1> HIDE DEF S
<1>3. Len(pairs) \in Nat /\ DOMAIN pairs = 1 .. Len(pairs)
  BY LenProperties
<1>4. /\ Len(answered) \in Nat /\ DOMAIN answered = 1 .. Len(answered)
      /\ \A n \in DOMAIN answered : answered[n] \in DOMAIN pairs /\ answered[n] \notin S
  BY <1>3, PlacesAre
<1>5. (\A i \in DOMAIN pairs : i \notin S) => answered = [i \in DOMAIN pairs |-> i]
  BY <1>3, NoneLeftOut
<1> HIDE DEF answered
<1>6. \E n \in Nat : DOMAIN shown = 1 .. n
  BY <1>1, <1>4
<1>7. \A n \in DOMAIN shown : \E i \in DOMAIN pairs :
        ResultOf(figures, 3 * i) # Failed /\ shown[n] = SummaryOf(pairs, figures, i)
  BY <1>1, <1>2, <1>4
<1>8. ASSUME \A i \in DOMAIN pairs : ResultOf(figures, 3 * i) # Failed
      PROVE  DOMAIN shown = DOMAIN pairs /\ \A i \in DOMAIN pairs : shown[i] = SummaryOf(pairs, figures, i)
  <2>1. answered = [i \in DOMAIN pairs |-> i]
    BY <1>2, <1>5, <1>8
  <2>2. DOMAIN answered = DOMAIN pairs /\ \A i \in DOMAIN pairs : answered[i] = i
    BY <2>1
  <2> QED BY <1>1, <2>2
<1> HIDE DEF shown
<1>9. /\ \E n \in Nat : DOMAIN shown = 1 .. n
      /\ \A n \in DOMAIN shown : \E i \in DOMAIN pairs :
           ResultOf(figures, 3 * i) # Failed /\ shown[n] = SummaryOf(pairs, figures, i)
      /\ (\A i \in DOMAIN pairs : ResultOf(figures, 3 * i) # Failed) =>
           /\ DOMAIN shown = DOMAIN pairs
           /\ \A i \in DOMAIN pairs : shown[i] = SummaryOf(pairs, figures, i)
  BY <1>6, <1>7, <1>8
<1> QED BY <1>9 DEF shown

-----------------------------------------------------------------------------
(* What is locked.                                                         *)

(* The tokens the landing page knows.                                      *)
LEMMA ListedAre ==
  LET listed(a) == TokenByAddress(TOKEN_LIST, a)
  IN  /\ listed(Wkash) = WKASH /\ WKASH # NoToken /\ WKASH.address = Wkash
      /\ Len(Deployed) \in Nat /\ DOMAIN Deployed = 1 .. Len(Deployed)
      /\ \A n \in DOMAIN Deployed :
           /\ Deployed[n] # NoToken /\ Deployed[n].address # Wkash /\ Deployed[n].address # Native
           /\ Deployed[n].decimals \in Nat
           /\ listed(Deployed[n].address) = Deployed[n]
           /\ \A m \in DOMAIN Deployed : Deployed[n].address = Deployed[m].address => n = m
      /\ \A a : listed(a) # NoToken =>
           /\ listed(a).address = a
           /\ listed(a) = WKASH \/ \E n \in DOMAIN Deployed : listed(a) = Deployed[n]
<1> DEFINE listed(a) == TokenByAddress(TOKEN_LIST, a)
<1>1. /\ Deployed \in Seq(Token) /\ Len(Deployed) \in Nat /\ DOMAIN Deployed = 1 .. Len(Deployed)
      /\ \A n \in DOMAIN Deployed : Deployed[n] \in Token /\ Deployed[n] \in Seqs!ToSet(Deployed)
  BY TokensAssumption, LenProperties, ElementOfSeq DEF Seqs!ToSet
<1>2. WKASH \in Token /\ WKASH.address = Wkash /\ KASH.address = Native /\ Wkash # Native
  <2>1. "wkash" \in Symbol /\ Wkash \in Nat /\ Wkash # Native /\ DEFAULT_DECIMALS \in Nat
    BY TokensAssumption
  <2> QED BY <2>1 DEF WKASH, KASH, TokenWith, Token
<1>3. \A token \in Token : token # NoToken /\ token.address \in Nat /\ token.decimals \in Nat
  BY TokensAssumption DEF Token
<1>4. \A n \in DOMAIN Deployed : Deployed[n].address \notin {Native, Wkash}
  BY TokensAssumption
<1>5. \A n \in DOMAIN Deployed, m \in DOMAIN Deployed : Deployed[n].address = Deployed[m].address => n = m
  BY TokensAssumption
<1>6. /\ TOKEN_LIST \in Seq(Token) /\ Seqs!ToSet(TOKEN_LIST) = {KASH, WKASH} \cup Seqs!ToSet(Deployed)
      /\ \A i \in DOMAIN TOKEN_LIST : \A j \in DOMAIN TOKEN_LIST :
           TOKEN_LIST[i].address = TOKEN_LIST[j].address => i = j
  BY TokenListIs
<1>7. ASSUME NEW token \in Seqs!ToSet(TOKEN_LIST), token.address # Native
      PROVE  listed(token.address) = token
  <2>1. PICK i \in DOMAIN TOKEN_LIST : token = TOKEN_LIST[i]
    BY DEF Seqs!ToSet
  <2>2. listed(token.address) # NoToken
    BY <1>6, <1>7, <2>1, ByAddressIs
  <2>3. listed(token.address) \in Seqs!ToSet(TOKEN_LIST) /\ listed(token.address).address = token.address
    BY <1>6, <2>2, ByAddressIs
  <2> HIDE DEF listed
  <2>4. PICK j \in DOMAIN TOKEN_LIST : listed(token.address) = TOKEN_LIST[j]
    BY <2>3 DEF Seqs!ToSet
  <2> QED BY <1>6, <2>1, <2>3, <2>4
<1>8. ASSUME NEW a, listed(a) # NoToken
      PROVE  /\ listed(a).address = a
             /\ listed(a) = WKASH \/ \E n \in DOMAIN Deployed : listed(a) = Deployed[n]
  <2>1. listed(a) \in Seqs!ToSet(TOKEN_LIST) /\ listed(a).address = a /\ a # Native
    BY <1>6, <1>8, ByAddressIs
  <2> HIDE DEF listed
  <2>2. listed(a) # KASH
    BY <1>2, <2>1
  <2> QED BY <1>6, <2>1, <2>2 DEF Seqs!ToSet
<1>9. listed(Wkash) = WKASH
  BY <1>2, <1>6, <1>7
<1>10. \A n \in DOMAIN Deployed : listed(Deployed[n].address) = Deployed[n]
  BY <1>1, <1>4, <1>6, <1>7
<1> HIDE DEF listed
<1>11. /\ listed(Wkash) = WKASH /\ WKASH # NoToken /\ WKASH.address = Wkash
       /\ Len(Deployed) \in Nat /\ DOMAIN Deployed = 1 .. Len(Deployed)
       /\ \A n \in DOMAIN Deployed :
            /\ Deployed[n] # NoToken /\ Deployed[n].address # Wkash /\ Deployed[n].address # Native
            /\ Deployed[n].decimals \in Nat
            /\ listed(Deployed[n].address) = Deployed[n]
            /\ \A m \in DOMAIN Deployed : Deployed[n].address = Deployed[m].address => n = m
       /\ \A a : listed(a) # NoToken =>
            /\ listed(a).address = a
            /\ listed(a) = WKASH \/ \E n \in DOMAIN Deployed : listed(a) = Deployed[n]
  BY <1>1, <1>2, <1>3, <1>4, <1>5, <1>8, <1>9, <1>10
<1> QED BY <1>11 DEF listed

(* Scaling keeps nothing nothing, and loses nothing of fewer decimals.     *)
LEMMA InStableIs ==
  ASSUME NEW token, token.decimals \in Nat
  PROVE  /\ \A x \in Nat : InStable(token, x) \in Nat
         /\ InStable(token, 0) = 0
         /\ token.decimals <= STABLE_DECIMALS => \A x \in Nat : x > 0 => InStable(token, x) > 0
<1>1. STABLE_DECIMALS \in Nat
  BY AnswersAssumption
<1>2. CASE token.decimals > STABLE_DECIMALS
  <2>1. token.decimals - STABLE_DECIMALS \in Nat
    BY <1>1, <1>2, SMT
  <2>2. PICK d \in Nat : d > 0 /\ d = TenToThe(token.decimals - STABLE_DECIMALS)
    <3>1. TenToThe(token.decimals - STABLE_DECIMALS) \in Nat \ {0}
      BY <2>1, TenToTheIs
    <3> QED BY <3>1, SMT
  <2>3. \A x : InStable(token, x) = x \div d
    BY <1>2, <2>2 DEF InStable, Rescale
  <2>4. \A x \in Nat : x \div d \in Nat
    BY <2>2, DivBounds
  <2>5. 0 \div d = 0
    BY <2>2, SMT
  <2>6. ~(token.decimals <= STABLE_DECIMALS)
    BY <1>1, <1>2, SMT
  <2> QED BY <2>3, <2>4, <2>5, <2>6
<1>3. CASE ~(token.decimals > STABLE_DECIMALS)
  <2>1. STABLE_DECIMALS - token.decimals \in Nat
    BY <1>1, <1>3, SMT
  <2>2. PICK d \in Nat : d > 0 /\ d = TenToThe(STABLE_DECIMALS - token.decimals)
    <3>1. TenToThe(STABLE_DECIMALS - token.decimals) \in Nat \ {0}
      BY <2>1, TenToTheIs
    <3> QED BY <3>1, SMT
  <2>3. \A x : InStable(token, x) = x * d
    BY <1>3, <2>2 DEF InStable, Rescale
  <2>4. \A x \in Nat : x * d \in Nat /\ (x > 0 => x * d > 0)
    <3>1. \A x \in Nat : x > 0 => 1 * 1 <= x * d
      BY <2>2, MulMonotone, SMT
    <3>2. \A x \in Nat : x * d \in Nat
      BY <2>2, SMT
    <3>3. 1 * 1 = 1 /\ \A y \in Nat : 1 <= y => y > 0
      BY SMT
    <3> QED BY <3>1, <3>2, <3>3
  <2>5. 0 * d = 0
    BY <2>2, SMT
  <2> QED BY <2>3, <2>4, <2>5
<1> QED BY <1>2, <1>3

(* The states of a pair, and its tokens.                                   *)
LEMMA ReservesAre ==
  /\ \A i \in 1 .. Len(Pairs) : Pairs[i].token0 \in Nat /\ Pairs[i].token1 \in Nat
  /\ \A i \in 1 .. Len(Pairs) : \A s \in States(i) :
       s.reserves \in Nat \X Nat /\ s.reserves[1] \in Nat /\ s.reserves[2] \in Nat
<1> DEFINE State == [reserves : Nat \X Nat, supply : Nat, shares : [Account -> Nat]]
           P == [token0 : DOMAIN Contracts, token1 : DOMAIN Contracts, history : Seq(State)]
<1>1. Pairs \in Seq(P)
  BY PairsAssumption
<1>2. \A i \in 1 .. Len(Pairs) : Pairs[i] \in P
  BY <1>1, LenProperties, ElementOfSeq
<1>3. \A i \in 1 .. Len(Pairs) : Pairs[i].token0 \in Nat /\ Pairs[i].token1 \in Nat
  BY PairsAre, ContractsAssumption
<1>4. ASSUME NEW i \in 1 .. Len(Pairs), NEW s \in States(i)
      PROVE  s.reserves \in Nat \X Nat
  <2> HIDE DEF State
  <2>1. Pairs[i].history \in Seq(State)
    BY <1>2
  <2>2. s \in State
    BY <2>1, LenProperties, ElementOfSeq DEF States, Seqs!ToSet
  <2> QED BY <2>2 DEF State
<1>5. \A r \in Nat \X Nat : r[1] \in Nat /\ r[2] \in Nat
  OBVIOUS
<1> QED BY <1>3, <1>4, <1>5

(* The pairs in the order of the factory.                                  *)
LEMMA PlacesUpTo ==
  ASSUME NEW n \in Nat, NEW s, s = [i \in 1 .. n |-> i]
  PROVE  /\ s \in Seq(1 .. n) /\ DOMAIN s = 1 .. n /\ Len(s) = n
         /\ \A i \in 1 .. n : s[i] = i
<1>1. s \in Seq(1 .. n) /\ DOMAIN s = 1 .. n
  OBVIOUS
<1>2. Len(s) \in Nat /\ DOMAIN s = 1 .. Len(s)
  BY <1>1, LenProperties
<1>3. Len(s) = n
  BY <1>1, <1>2, SMT
<1> QED BY <1>1, <1>3

(* The figures when every read was answered.                               *)
LEMMA FiguresWhole ==
  ASSUME ReadsInv, NEW pairs, pairs = [i \in 1 .. page.created |-> i]
  PROVE  LET shown == Summaries(pairs, WithFailure(FiguresBatch(pairs), 0))
         IN  /\ DOMAIN shown = 1 .. page.created
             /\ \A i \in 1 .. page.created :
                  /\ shown[i].token0 = TokenByAddress(TOKEN_LIST, Pairs[i].token0)
                  /\ shown[i].token1 = TokenByAddress(TOKEN_LIST, Pairs[i].token1)
                  /\ shown[i].reserve0 = StateOf(i).reserves[1]
                  /\ shown[i].reserve1 = StateOf(i).reserves[2]
<1> DEFINE n == page.created
           batch == FiguresBatch(pairs)
           figures == WithFailure(batch, 0)
           V == Nat \cup (Nat \X Nat)
           shown == Summaries(pairs, figures)
<1>1. n \in Nat /\ \A i \in 1 .. n : i \in 1 .. Len(Pairs)
  BY CreatedIs
<1>2. pairs \in Seq(1 .. n) /\ DOMAIN pairs = 1 .. n /\ Len(pairs) = n /\ \A i \in 1 .. n : pairs[i] = i
  BY <1>1, PlacesUpTo
<1>3. ASSUME NEW i \in 1 .. n
      PROVE  /\ StateOf(i).reserves \in Nat \X Nat
             /\ Pairs[i].token0 \in Nat /\ Pairs[i].token1 \in Nat
  <2>1. TradesSound(page.trades, page.created)
    BY DEF ReadsInv
  <2> QED BY <1>1, <2>1, StateIs, ReservesAre DEF StateOf
<1> HIDE DEF n
<1>4. \A x \in V : x # Failed
  BY AnswersAssumption
<1>5. /\ DOMAIN batch = 1 .. 3 * n
      /\ \A i \in 1 .. n :
           /\ 3 * (i - 1) + 1 \in 1 .. 3 * n /\ 3 * (i - 1) + 2 \in 1 .. 3 * n
           /\ 3 * (i - 1) + 3 \in 1 .. 3 * n /\ 3 * (i - 1) + 3 = 3 * i
           /\ batch[3 * (i - 1) + 1] = Pairs[i].token0
           /\ batch[3 * (i - 1) + 2] = Pairs[i].token1
           /\ batch[3 * (i - 1) + 3] = StateOf(i).reserves
  <2> HIDE DEF batch
  <2>0. PICK T : pairs \in Seq(T)
    BY <1>2
  <2>1. /\ DOMAIN batch = 1 .. 3 * Len(pairs)
        /\ \A i \in 1 .. Len(pairs) :
             /\ 3 * (i - 1) + 1 \in 1 .. 3 * Len(pairs) /\ 3 * (i - 1) + 2 \in 1 .. 3 * Len(pairs)
             /\ 3 * (i - 1) + 3 \in 1 .. 3 * Len(pairs) /\ 3 * (i - 1) + 3 = 3 * i
             /\ batch[3 * (i - 1) + 1] = Pairs[pairs[i]].token0
             /\ batch[3 * (i - 1) + 2] = Pairs[pairs[i]].token1
             /\ batch[3 * (i - 1) + 3] = StateOf(pairs[i]).reserves
    BY <2>0, FiguresBatchIs DEF batch
  <2> QED BY <1>2, <2>1
<1>6. \A m \in 1 .. 3 * n : batch[m] \in V
  <2> SUFFICES ASSUME NEW m \in 1 .. 3 * n PROVE batch[m] \in V
    OBVIOUS
  <2>1. About(m, 3) \in 1 .. n /\ Which(m, 3) \in 1 .. 3
    BY <1>1, SMT DEF About, Which
  <2>2. PICK i \in 1 .. n, c \in 1 .. 3 : About(m, 3) = i /\ Which(m, 3) = c
    BY <2>1
  <2>3. batch[m] = <<Pairs[i].token0, Pairs[i].token1, StateOf(i).reserves>>[c]
    BY <1>2, <2>2 DEF FiguresBatch
  <2>4. c = 1 \/ c = 2 \/ c = 3
    BY <2>2, SMT
  <2> HIDE DEF batch
  <2> QED BY <1>3, <2>3, <2>4
<1>14. batch = [m \in DOMAIN batch |-> batch[m]]
  <2> DEFINE e(m) == LET i == pairs[About(m, 3)]
                     IN  <<Pairs[i].token0, Pairs[i].token1, StateOf(i).reserves>>[Which(m, 3)]
  <2>1. batch = [m \in 1 .. (3 * Len(pairs)) |-> e(m)]
    BY Zenon DEF FiguresBatch
  <2> HIDE DEF e, batch
  <2> QED BY <2>1
<1>7. figures = batch
  <2>1. \A m \in 1 .. 3 * n : m # 0
    BY SMT
  <2>2. figures = [m \in 1 .. 3 * n |-> IF m = 0 THEN Failed ELSE batch[m]]
    BY <1>5 DEF WithFailure
  <2>3. batch = [m \in DOMAIN batch |-> batch[m]]
    BY <1>14
  <2> HIDE DEF figures, batch
  <2> QED BY <1>5, <2>1, <2>2, <2>3
<1>8. batch # NoData
  <2>0. batch = [m \in DOMAIN batch |-> batch[m]]
    BY <1>14
  <2>1. 3 * n \in Nat
    BY <1>1, SMT
  <2> HIDE DEF batch, V
  <2>2. batch \in Seq(V)
    BY <1>5, <1>6, <2>0, <2>1
  <2> QED BY <2>2, AnswersAssumption DEF V
<1> HIDE DEF batch
<1>9. \A i \in 1 .. n : ResultOf(batch, 3 * i) # Failed
  BY <1>4, <1>5, <1>6, <1>8 DEF ResultOf
<1> HIDE DEF V, shown, figures
<1>10. shown = Summaries(pairs, batch)
  BY <1>7 DEF shown
<1>11. DOMAIN shown = 1 .. n /\ \A i \in 1 .. n : shown[i] = SummaryOf(pairs, batch, i)
  <2>1. PICK T : pairs \in Seq(T)
    BY <1>2
  <2>2. (\A i \in DOMAIN pairs : ResultOf(batch, 3 * i) # Failed) =>
          /\ DOMAIN shown = DOMAIN pairs
          /\ \A i \in DOMAIN pairs : shown[i] = SummaryOf(pairs, batch, i)
    BY <1>10, <2>1, SummariesAre
  <2> QED BY <1>2, <1>9, <2>2
<1>12. \A i \in 1 .. n : /\ Pairs[i].token0 # Failed /\ Pairs[i].token1 # Failed
  BY <1>3, AnswersAssumption
<1>13. ASSUME NEW i \in 1 .. n
       PROVE  /\ shown[i].token0 = TokenByAddress(TOKEN_LIST, Pairs[i].token0)
              /\ shown[i].token1 = TokenByAddress(TOKEN_LIST, Pairs[i].token1)
              /\ shown[i].reserve0 = StateOf(i).reserves[1]
              /\ shown[i].reserve1 = StateOf(i).reserves[2]
  <2>1. PICK a, b, r : a = Pairs[i].token0 /\ b = Pairs[i].token1 /\ r = StateOf(i).reserves
    OBVIOUS
  <2>2. batch[3 * (i - 1) + 1] = a /\ batch[3 * (i - 1) + 2] = b /\ batch[3 * (i - 1) + 3] = r
    BY <1>5, <2>1
  <2>3. a # Failed /\ b # Failed
    BY <1>12, <2>1
  <2>4. SummaryOf(pairs, batch, i) =
          [pair |-> pairs[i], token0 |-> TokenByAddress(TOKEN_LIST, a),
           token1 |-> TokenByAddress(TOKEN_LIST, b), reserve0 |-> r[1], reserve1 |-> r[2]]
    BY <2>2, <2>3, Zenon DEF SummaryOf
  <2> QED BY <1>11, <2>1, <2>4
<1> QED BY <1>11, <1>13 DEF shown, figures, batch, n

(* The two sides of the n-th summary are the items 2n - 1 and 2n.          *)
LEMMA SidesAre ==
  ASSUME NEW n \in Nat, NEW shown, DOMAIN shown = 1 .. n, shown = [i \in 1 .. n |-> shown[i]]
  PROVE  /\ DOMAIN Sides(shown) = 1 .. 2 * n
         /\ \A i \in 1 .. n :
              /\ 2 * i - 1 \in 1 .. 2 * n /\ 2 * i \in 1 .. 2 * n
              /\ Sides(shown)[2 * i - 1] = [token |-> shown[i].token0, reserve |-> shown[i].reserve0]
              /\ Sides(shown)[2 * i] = [token |-> shown[i].token1, reserve |-> shown[i].reserve1]
<1>1. Len(shown) = n
  <2> DEFINE V == {shown[i] : i \in 1 .. n}
  <2>0. \A i \in 1 .. n : shown[i] \in V
    OBVIOUS
  <2> HIDE DEF V
  <2>1. shown \in Seq(V)
    BY <2>0
  <2>2. Len(shown) \in Nat /\ DOMAIN shown = 1 .. Len(shown)
    BY <2>1, LenProperties
  <2> QED BY <2>2, SMT
<1>2. ASSUME NEW i \in 1 .. n
      PROVE  /\ 2 * i - 1 \in 1 .. 2 * n /\ 2 * i \in 1 .. 2 * n
             /\ ((2 * i - 1) + 1) \div 2 = i /\ (2 * i + 1) \div 2 = i
             /\ (2 * i - 1) % 2 = 1 /\ (2 * i) % 2 = 0
  BY SMT
<1>3. ASSUME NEW k \in 1 .. 2 * n, NEW i, (k + 1) \div 2 = i
      PROVE  Sides(shown)[k] = IF k % 2 = 1 THEN [token |-> shown[i].token0, reserve |-> shown[i].reserve0]
                               ELSE [token |-> shown[i].token1, reserve |-> shown[i].reserve1]
  BY <1>1, <1>3, Zenon DEF Sides
<1>4. DOMAIN Sides(shown) = 1 .. 2 * n
  BY <1>1 DEF Sides
<1>5. ASSUME NEW i \in 1 .. n
      PROVE  /\ 2 * i - 1 \in 1 .. 2 * n /\ 2 * i \in 1 .. 2 * n
             /\ Sides(shown)[2 * i - 1] = [token |-> shown[i].token0, reserve |-> shown[i].reserve0]
             /\ Sides(shown)[2 * i] = [token |-> shown[i].token1, reserve |-> shown[i].reserve1]
  <2>1. PICK k, l : k = 2 * i - 1 /\ l = 2 * i
    OBVIOUS
  <2>2. /\ k \in 1 .. 2 * n /\ l \in 1 .. 2 * n /\ (k + 1) \div 2 = i /\ (l + 1) \div 2 = i
        /\ k % 2 = 1 /\ l % 2 # 1
    <3>1. 0 # 1
      BY SMT
    <3> QED BY <1>2, <2>1, <3>1, Zenon
  <2>3. /\ Sides(shown)[k] = [token |-> shown[i].token0, reserve |-> shown[i].reserve0]
        /\ Sides(shown)[l] = [token |-> shown[i].token1, reserve |-> shown[i].reserve1]
    BY <1>3, <2>2
  <2> QED BY <2>1, <2>2, <2>3, Zenon
<1> QED BY <1>4, <1>5, Zenon

(* Sums over the two sides of each.                                        *)
TwoByTwo(a, x, y, c, n) ==
  /\ a = [k \in 1 .. 2 * n |-> a[k]]
  /\ \A i \in 1 .. n : a[2 * i - 1] = x[i] /\ a[2 * i] = y[i] /\ c[i] = x[i] + y[i]

LEMMA SumOfSides ==
  ASSUME NEW n \in Nat, NEW a,
         NEW x \in [1 .. n -> Nat], NEW y \in [1 .. n -> Nat], NEW c \in [1 .. n -> Nat],
         TwoByTwo(a, x, y, c, n)
  PROVE  SumOf(a) = SumOf(c)
<1>0. /\ a = [k \in 1 .. 2 * n |-> a[k]]
      /\ \A i \in 1 .. n : a[2 * i - 1] = x[i] /\ a[2 * i] = y[i] /\ c[i] = x[i] + y[i]
  BY Zenon DEF TwoByTwo
<1>1. \A k \in 1 .. 2 * n : \E i \in 1 .. n : k = 2 * i - 1 \/ k = 2 * i
  <2> SUFFICES ASSUME NEW k \in 1 .. 2 * n PROVE \E i \in 1 .. n : k = 2 * i - 1 \/ k = 2 * i
    OBVIOUS
  <2>1. k \in Nat /\ k + 1 \in Nat /\ 1 <= k /\ k <= 2 * n
    BY SMT
  <2>2. PICK q \in Nat : 2 * q <= k + 1 /\ k + 1 < 2 * q + 2
    <3>1. \A l \in Nat : l \div 2 \in Nat /\ 2 * (l \div 2) <= l /\ l < 2 * (l \div 2) + 2
      BY SMT
    <3> QED BY <2>1, <3>1
  <2>3. k = 2 * q - 1 \/ k = 2 * q
    <3>1. \A l \in Nat, p \in Nat : 2 * p <= l + 1 /\ l + 1 < 2 * p + 2 => l = 2 * p - 1 \/ l = 2 * p
      BY SMT
    <3> QED BY <2>1, <2>2, <3>1
  <2>4. q >= 1
    BY <2>1, <2>2, SMT
  <2>5. q <= n
    <3>1. ~(q >= n + 1)
      <4>1. q >= n + 1 => 2 * q >= 2 * n + 2
        BY <2>1, <2>2, SMT
      <4> QED BY <2>1, <2>2, <4>1, SMT
    <3> QED BY <2>2, <3>1, SMT
  <2>6. q \in 1 .. n
    BY <2>2, <2>4, <2>5, SMT
  <2> QED BY <2>3, <2>6
<1>2. \A i \in 1 .. n : x[i] \in Nat /\ y[i] \in Nat
  OBVIOUS
<1>3. \A k \in 1 .. 2 * n : a[k] \in Nat
  BY <1>0, <1>1, <1>2, Zenon
<1>4. a \in [1 .. 2 * n -> Nat]
  BY <1>0, <1>3
<1>5. \A i \in 1 .. n : c[i] = a[2 * i - 1] + a[2 * i]
  BY <1>0, Zenon
<1> QED BY <1>4, <1>5, SumInPairs

(* A side counts for the listed stablecoin of its token's address.         *)
StableSide(a, reserve) ==
  LET token == TokenByAddress(TOKEN_LIST, a)
  IN  IF token # NoToken /\ token.address # Wkash /\ token.isStable THEN InStable(token, reserve) ELSE 0

(* The same, as a term for each listed token of which one counts.          *)
StableParts(a, reserve) ==
  [n \in 1 .. Len(Deployed) |->
     IF Deployed[n].isStable /\ Deployed[n].address = a THEN InStable(Deployed[n], reserve) ELSE 0]

(* Listed addresses are unique: the terms of a side add up to it.          *)
LEMMA PartsOfSide ==
  ASSUME NEW a, NEW r \in Nat
  PROVE  /\ StableParts(a, r) \in [1 .. Len(Deployed) -> Nat]
         /\ StableSide(a, r) \in Nat
         /\ SumOf(StableParts(a, r)) = StableSide(a, r)
<1> DEFINE D == Len(Deployed)
           listed == TokenByAddress(TOKEN_LIST, a)
           parts == StableParts(a, r)
<1>1. /\ D \in Nat /\ DOMAIN Deployed = 1 .. D
      /\ \A n \in 1 .. D :
           /\ Deployed[n] # NoToken /\ Deployed[n].address # Wkash
           /\ Deployed[n].decimals \in Nat
           /\ Deployed[n].address = a => listed = Deployed[n]
           /\ \A m \in 1 .. D : Deployed[n].address = Deployed[m].address => n = m
      /\ listed # NoToken => listed.address = a /\ (listed.address = Wkash \/ \E n \in 1 .. D : listed = Deployed[n])
  BY ListedAre
<1>2. \A n \in 1 .. D : InStable(Deployed[n], r) \in Nat
  BY <1>1, InStableIs
<1>3. \A n \in 1 .. D : parts[n] = IF Deployed[n].isStable /\ Deployed[n].address = a THEN InStable(Deployed[n], r) ELSE 0
  BY DEF StableParts
<1>4. 0 \in Nat /\ 0 \notin 1 .. D
  BY SMT
<1>5. parts \in [1 .. D -> Nat]
  BY <1>2, <1>4 DEF StableParts
<1> HIDE DEF parts, D, listed
<1>6. ASSUME NEW j \in 1 .. D, Deployed[j].address = a
      PROVE  SumOf(parts) = StableSide(a, r) /\ StableSide(a, r) \in Nat
  <2>1. \A n \in 1 .. D : n # j => parts[n] = 0
    BY <1>1, <1>3, <1>6
  <2>2. SumOf(parts) = parts[j]
    BY <1>1, <1>5, <2>1, SumOfOne
  <2>3. StableSide(a, r) = parts[j]
    BY <1>1, <1>3, <1>6 DEF StableSide, listed
  <2> QED BY <1>5, <2>2, <2>3
<1>7. ASSUME \A j \in 1 .. D : Deployed[j].address # a
      PROVE  SumOf(parts) = StableSide(a, r) /\ StableSide(a, r) \in Nat
  <2>1. \A n \in 1 .. D : parts[n] = 0
    BY <1>3, <1>7
  <2>2. SumOf(parts) = 0
    BY <1>1, <1>4, <1>5, <2>1, SumOfOne
  <2>3. StableSide(a, r) = 0
    BY <1>1, <1>7 DEF StableSide, listed
  <2> QED BY <1>4, <2>2, <2>3
<1> QED BY <1>5, <1>6, <1>7 DEF parts, D

(* What the pairs hold.                                                    *)
LEMMA HeldIs ==
  ASSUME ReadsInv, NEW i \in 1 .. page.created
  PROVE  /\ \A token : HeldBy(i, token) \in Nat
         /\ Pairs[i].token0 # Pairs[i].token1
         /\ StateOf(i).reserves[1] \in Nat /\ StateOf(i).reserves[2] \in Nat
         /\ i \in 1 .. Len(Pairs)
<1>1. TradesSound(page.trades, page.created)
  BY DEF ReadsInv
<1>2. i \in 1 .. Len(Pairs)
  BY CreatedIs
<1>3. StateOf(i) \in States(i)
  BY <1>1, <1>2, StateIs DEF StateOf
<1>4. StateOf(i).reserves[1] \in Nat /\ StateOf(i).reserves[2] \in Nat /\ Pairs[i].token0 # Pairs[i].token1
  BY <1>2, <1>3, ReservesAre, PairsAre
<1> HIDE <1>1
<1>5. 0 \in Nat
  BY SMT
<1>6. \A token : HeldBy(i, token) \in Nat
  BY <1>4, <1>5 DEF HeldBy
<1> QED BY <1>2, <1>4, <1>6

(* The totals of summaries that are of every pair.                         *)
OfEveryPair(shown) ==
  /\ DOMAIN shown = 1 .. page.created /\ shown = [i \in 1 .. page.created |-> shown[i]]
  /\ \A i \in 1 .. page.created :
       /\ shown[i].token0 = TokenByAddress(TOKEN_LIST, Pairs[i].token0)
       /\ shown[i].token1 = TokenByAddress(TOKEN_LIST, Pairs[i].token1)
       /\ shown[i].reserve0 = StateOf(i).reserves[1]
       /\ shown[i].reserve1 = StateOf(i).reserves[2]

(* Every pair counts its one KASH side, if it has one.                     *)
LEMMA KashTotal ==
  ASSUME ReadsInv, NEW shown, OfEveryPair(shown)
  PROVE  KashLocked(shown) = LockedOf(WKASH)
<1> DEFINE n == page.created
           isKash(token) == token # NoToken /\ token.address = Wkash
           counted(side) == IF isKash(side.token) THEN side.reserve ELSE 0
           sides == Sides(shown)
           a == [k \in DOMAIN sides |-> counted(sides[k])]
           x == [i \in 1 .. n |-> IF Pairs[i].token0 = Wkash THEN StateOf(i).reserves[1] ELSE 0]
           y == [i \in 1 .. n |-> IF Pairs[i].token1 = Wkash THEN StateOf(i).reserves[2] ELSE 0]
           c == [i \in 1 .. n |-> HeldBy(i, WKASH)]
<1>1. n \in Nat
  BY CreatedIs
<1>2. \A adr : LET token == TokenByAddress(TOKEN_LIST, adr) IN isKash(token) <=> adr = Wkash
  BY ListedAre
<1>3. /\ DOMAIN sides = 1 .. 2 * n
      /\ \A i \in 1 .. n :
           /\ 2 * i - 1 \in 1 .. 2 * n /\ 2 * i \in 1 .. 2 * n
           /\ sides[2 * i - 1] = [token |-> shown[i].token0, reserve |-> shown[i].reserve0]
           /\ sides[2 * i] = [token |-> shown[i].token1, reserve |-> shown[i].reserve1]
  BY <1>1, SidesAre DEF OfEveryPair
<1>4. KashLocked(shown) = SumOf(a)
  BY Zenon DEF KashLocked
<1>5. LockedOf(WKASH) = SumOf(c)
  BY Zenon DEF LockedOf
<1>6. WKASH.address = Wkash
  BY ListedAre
<1>7. 0 \in Nat /\ \A r \in Nat : r + 0 = r /\ 0 + r = r
  BY SMT
<1> HIDE DEF n, isKash, sides
<1>8. x \in [1 .. n -> Nat] /\ y \in [1 .. n -> Nat] /\ c \in [1 .. n -> Nat]
  BY <1>7, HeldIs DEF n
<1>9. ASSUME NEW i \in 1 .. n
      PROVE  a[2 * i - 1] = x[i] /\ a[2 * i] = y[i] /\ c[i] = x[i] + y[i]
  <2>1. PICK k, l : k = 2 * i - 1 /\ l = 2 * i
    OBVIOUS
  <2>2. PICK r0 \in Nat, r1 \in Nat : r0 = StateOf(i).reserves[1] /\ r1 = StateOf(i).reserves[2]
    BY HeldIs DEF n
  <2>3. /\ k \in DOMAIN sides /\ l \in DOMAIN sides
        /\ sides[k] = [token |-> TokenByAddress(TOKEN_LIST, Pairs[i].token0), reserve |-> r0]
        /\ sides[l] = [token |-> TokenByAddress(TOKEN_LIST, Pairs[i].token1), reserve |-> r1]
    <3>1. /\ shown[i].token0 = TokenByAddress(TOKEN_LIST, Pairs[i].token0)
          /\ shown[i].token1 = TokenByAddress(TOKEN_LIST, Pairs[i].token1)
          /\ shown[i].reserve0 = r0 /\ shown[i].reserve1 = r1
      BY <2>2 DEF OfEveryPair, n
    <3> QED BY <1>3, <2>1, <3>1, Zenon
  <2>4. a[k] = (IF Pairs[i].token0 = Wkash THEN r0 ELSE 0) /\ a[l] = (IF Pairs[i].token1 = Wkash THEN r1 ELSE 0)
    BY <1>2, <2>3
  <2>5. x[i] = (IF Pairs[i].token0 = Wkash THEN r0 ELSE 0) /\ y[i] = (IF Pairs[i].token1 = Wkash THEN r1 ELSE 0)
    BY <2>2
  <2>6. c[i] = IF Pairs[i].token0 = Wkash THEN r0 ELSE IF Pairs[i].token1 = Wkash THEN r1 ELSE 0
    BY <1>6, <2>2 DEF HeldBy
  <2>7. Pairs[i].token0 # Pairs[i].token1
    BY HeldIs DEF n
  <2> HIDE DEF a, x, y, c
  <2>8. c[i] = x[i] + y[i]
    BY <1>7, <2>5, <2>6, <2>7
  <2> QED BY <2>1, <2>4, <2>5, <2>8
<1>10. DOMAIN a = 1 .. 2 * n /\ a = [k \in 1 .. 2 * n |-> a[k]]
  BY <1>3
<1> HIDE DEF a, x, y, c
<1>11. \A i \in 1 .. n : a[2 * i - 1] = x[i] /\ a[2 * i] = y[i] /\ c[i] = x[i] + y[i]
  BY <1>9, Zenon
<1>12. TwoByTwo(a, x, y, c, n)
  BY <1>10, <1>11, Zenon DEF TwoByTwo
<1>14. SumOf(a) = SumOf(c)
  BY <1>1, <1>8, <1>12, SumOfSides
<1> QED BY <1>4, <1>5, <1>14

(* What a pair holds of each listed stablecoin, on the scale shown.        *)
StablesOf(i) ==
  [n \in 1 .. Len(Deployed) |->
     IF Deployed[n].isStable THEN InStable(Deployed[n], HeldBy(i, Deployed[n])) ELSE 0]

(* The two sides of a pair are of different tokens, so that its terms add  *)
(* up to both.                                                             *)
LEMMA StablesOfPair ==
  ASSUME ReadsInv, NEW i \in 1 .. page.created
  PROVE  /\ StablesOf(i) \in [1 .. Len(Deployed) -> Nat]
         /\ SumOf(StablesOf(i)) \in Nat
         /\ SumOf(StablesOf(i)) = StableSide(Pairs[i].token0, StateOf(i).reserves[1])
                                    + StableSide(Pairs[i].token1, StateOf(i).reserves[2])
<1>1. PICK r0, r1, a, b :
        /\ r0 \in Nat /\ r1 \in Nat
        /\ r0 = StateOf(i).reserves[1] /\ r1 = StateOf(i).reserves[2]
        /\ a = Pairs[i].token0 /\ b = Pairs[i].token1 /\ a # b
  BY HeldIs
<1>2. \A token : HeldBy(i, token) = IF a = token.address THEN r0 ELSE IF b = token.address THEN r1 ELSE 0
  BY <1>1 DEF HeldBy
<1>3. /\ Len(Deployed) \in Nat /\ DOMAIN Deployed = 1 .. Len(Deployed)
      /\ \A n \in 1 .. Len(Deployed) : Deployed[n].decimals \in Nat
  BY ListedAre
<1>4. \A n \in 1 .. Len(Deployed) : /\ \A r \in Nat : InStable(Deployed[n], r) \in Nat
                                    /\ InStable(Deployed[n], 0) = 0
  BY <1>3, InStableIs
<1>5. \A token : HeldBy(i, token) \in Nat
  BY HeldIs
<1>6. 0 \in Nat /\ \A v \in Nat : v + 0 = v /\ 0 + v = v
  BY SMT
<1>7. StablesOf(i) \in [1 .. Len(Deployed) -> Nat]
  BY <1>4, <1>5, <1>6 DEF StablesOf
<1>8. ASSUME NEW n \in 1 .. Len(Deployed)
      PROVE  StablesOf(i)[n] = StableParts(a, r0)[n] + StableParts(b, r1)[n]
  <2>1. PICK token, d : token = Deployed[n] /\ d = token.address
    OBVIOUS
  <2>2. StablesOf(i)[n] = IF token.isStable THEN InStable(token, HeldBy(i, token)) ELSE 0
    BY <2>1 DEF StablesOf
  <2>3. /\ StableParts(a, r0)[n] = IF token.isStable /\ d = a THEN InStable(token, r0) ELSE 0
        /\ StableParts(b, r1)[n] = IF token.isStable /\ d = b THEN InStable(token, r1) ELSE 0
    BY <2>1 DEF StableParts
  <2>4. HeldBy(i, token) = IF a = d THEN r0 ELSE IF b = d THEN r1 ELSE 0
    BY <1>2, <2>1
  <2>5. InStable(token, r0) \in Nat /\ InStable(token, r1) \in Nat /\ InStable(token, 0) = 0
    BY <1>1, <1>4, <2>1
  <2>6. CASE d = a /\ token.isStable
    BY <1>1, <1>6, <2>2, <2>3, <2>4, <2>5, <2>6
  <2>7. CASE d = b /\ token.isStable
    BY <1>1, <1>6, <2>2, <2>3, <2>4, <2>5, <2>7
  <2>8. CASE d # a /\ d # b /\ token.isStable
    BY <1>1, <1>6, <2>2, <2>3, <2>4, <2>5, <2>8
  <2>9. CASE ~token.isStable
    BY <1>6, <2>2, <2>3, <2>9
  <2> QED BY <2>6, <2>7, <2>8, <2>9
<1>9. /\ StableParts(a, r0) \in [1 .. Len(Deployed) -> Nat] /\ SumOf(StableParts(a, r0)) = StableSide(a, r0)
      /\ StableParts(b, r1) \in [1 .. Len(Deployed) -> Nat] /\ SumOf(StableParts(b, r1)) = StableSide(b, r1)
  BY <1>1, PartsOfSide
<1>10. PICK x \in [1 .. Len(Deployed) -> Nat], y \in [1 .. Len(Deployed) -> Nat],
            z \in [1 .. Len(Deployed) -> Nat] :
         x = StableParts(a, r0) /\ y = StableParts(b, r1) /\ z = StablesOf(i)
  BY <1>7, <1>9
<1>11. \A n \in 1 .. Len(Deployed) : z[n] = x[n] + y[n]
  BY <1>8, <1>10
<1>12. SumOf(z) \in Nat /\ SumOf(z) = SumOf(x) + SumOf(y)
  BY <1>3, <1>11, SumOfSums
<1> QED BY <1>1, <1>7, <1>9, <1>10, <1>12

(* The total the code adds up side by side is one pair by pair.            *)
LEMMA StablesByPair ==
  ASSUME ReadsInv, NEW shown, OfEveryPair(shown)
  PROVE  StablesLocked(shown) = SumOf([i \in 1 .. page.created |-> SumOf(StablesOf(i))])
<1> DEFINE n == page.created
           isStable(token) == token # NoToken /\ token.address # Wkash /\ token.isStable
           counted(side) == IF isStable(side.token) THEN InStable(side.token, side.reserve) ELSE 0
           sides == Sides(shown)
           a == [k \in DOMAIN sides |-> counted(sides[k])]
           x == [i \in 1 .. n |-> StableSide(Pairs[i].token0, StateOf(i).reserves[1])]
           y == [i \in 1 .. n |-> StableSide(Pairs[i].token1, StateOf(i).reserves[2])]
           c == [i \in 1 .. n |-> SumOf(StablesOf(i))]
<1>1. n \in Nat
  BY CreatedIs
<1>2. \A adr, r : counted([token |-> TokenByAddress(TOKEN_LIST, adr), reserve |-> r]) = StableSide(adr, r)
  BY Zenon DEF StableSide
<1>3. /\ DOMAIN sides = 1 .. 2 * n
      /\ \A i \in 1 .. n :
           /\ 2 * i - 1 \in 1 .. 2 * n /\ 2 * i \in 1 .. 2 * n
           /\ sides[2 * i - 1] = [token |-> shown[i].token0, reserve |-> shown[i].reserve0]
           /\ sides[2 * i] = [token |-> shown[i].token1, reserve |-> shown[i].reserve1]
  BY <1>1, SidesAre DEF OfEveryPair
<1>4. StablesLocked(shown) = SumOf(a)
  BY Zenon DEF StablesLocked
<1> HIDE DEF n, isStable, counted, sides
<1>5. ASSUME NEW i \in 1 .. n
      PROVE  x[i] \in Nat /\ y[i] \in Nat /\ c[i] \in Nat /\ c[i] = x[i] + y[i]
  <2>1. /\ StateOf(i).reserves[1] \in Nat /\ StateOf(i).reserves[2] \in Nat
    BY HeldIs DEF n
  <2>2. /\ StableSide(Pairs[i].token0, StateOf(i).reserves[1]) \in Nat
        /\ StableSide(Pairs[i].token1, StateOf(i).reserves[2]) \in Nat
    BY <2>1, PartsOfSide
  <2> QED BY <2>2, StablesOfPair DEF n
<1>6. ASSUME NEW i \in 1 .. n
      PROVE  a[2 * i - 1] = x[i] /\ a[2 * i] = y[i]
  <2>1. PICK k, l : k = 2 * i - 1 /\ l = 2 * i
    OBVIOUS
  <2>2. PICK r0, r1 : r0 = StateOf(i).reserves[1] /\ r1 = StateOf(i).reserves[2]
    OBVIOUS
  <2>3. /\ k \in DOMAIN sides /\ l \in DOMAIN sides
        /\ sides[k] = [token |-> TokenByAddress(TOKEN_LIST, Pairs[i].token0), reserve |-> r0]
        /\ sides[l] = [token |-> TokenByAddress(TOKEN_LIST, Pairs[i].token1), reserve |-> r1]
    <3>1. /\ shown[i].token0 = TokenByAddress(TOKEN_LIST, Pairs[i].token0)
          /\ shown[i].token1 = TokenByAddress(TOKEN_LIST, Pairs[i].token1)
          /\ shown[i].reserve0 = r0 /\ shown[i].reserve1 = r1
      BY <2>2 DEF OfEveryPair, n
    <3> QED BY <1>3, <2>1, <3>1, Zenon
  <2>4. a[k] = StableSide(Pairs[i].token0, r0) /\ a[l] = StableSide(Pairs[i].token1, r1)
    BY <1>2, <2>3
  <2>5. x[i] = StableSide(Pairs[i].token0, r0) /\ y[i] = StableSide(Pairs[i].token1, r1)
    BY <2>2
  <2> HIDE DEF a, x, y
  <2> QED BY <2>1, <2>4, <2>5
<1>7. a = [k \in 1 .. 2 * n |-> a[k]]
  BY <1>3
<1>8. x = [i \in 1 .. n |-> x[i]] /\ y = [i \in 1 .. n |-> y[i]] /\ c = [i \in 1 .. n |-> c[i]]
  OBVIOUS
<1>9. StablesLocked(shown) = SumOf(a) /\ SumOf([i \in 1 .. page.created |-> SumOf(StablesOf(i))]) = SumOf(c)
  BY <1>4, Zenon DEF n
<1> HIDE DEF a, x, y, c
<1>10. x \in [1 .. n -> Nat] /\ y \in [1 .. n -> Nat] /\ c \in [1 .. n -> Nat]
  BY <1>5, <1>8
<1>11. TwoByTwo(a, x, y, c, n)
  BY <1>5, <1>6, <1>7, Zenon DEF TwoByTwo
<1>12. SumOf(a) = SumOf(c)
  BY <1>1, <1>10, <1>11, SumOfSides
<1> QED BY <1>9, <1>12

(* What all pairs together hold of one stablecoin, each cut by itself and  *)
(* cut once.                                                               *)
LEMMA StableTotal ==
  ASSUME ReadsInv, NEW j \in 1 .. Len(Deployed), Deployed[j].isStable,
         NEW b, b = [i \in 1 .. page.created |-> StablesOf(i)[j]]
  PROVE  /\ SumOf(b) \in Nat /\ InStable(Deployed[j], LockedOf(Deployed[j])) \in Nat
         /\ Cardinality(Holding(Deployed[j])) \in Nat
         /\ SumOf(b) <= InStable(Deployed[j], LockedOf(Deployed[j]))
         /\ InStable(Deployed[j], LockedOf(Deployed[j]))
              <= SumOf(b) + (IF Deployed[j].decimals > STABLE_DECIMALS
                             THEN Cardinality(Holding(Deployed[j])) ELSE 0)
<1> DEFINE n == page.created
           from == Deployed[j].decimals
           S == Holding(Deployed[j])
           a == [i \in 1 .. n |-> HeldBy(i, Deployed[j])]
           c == [i \in 1 .. n |-> IF i \in S THEN 1 ELSE 0]
<1>1. n \in Nat /\ STABLE_DECIMALS \in Nat
  BY CreatedIs, AnswersAssumption
<1>2. from \in Nat /\ \A r \in Nat : InStable(Deployed[j], r) \in Nat
  BY ListedAre, InStableIs
<1>3. LockedOf(Deployed[j]) = SumOf(a)
  BY Zenon DEF LockedOf
<1>4. \A r : InStable(Deployed[j], r) = Rescale(r, from, STABLE_DECIMALS)
  BY DEF InStable
<1>5. \A i \in 1 .. n : /\ a[i] = HeldBy(i, Deployed[j]) /\ a[i] \in Nat
                        /\ c[i] = IF i \in S THEN 1 ELSE 0
  BY HeldIs
<1>6. \A i \in 1 .. n : b[i] = InStable(Deployed[j], a[i])
  BY <1>5 DEF StablesOf
<1>7. \A i \in 1 .. n : c[i] = 1 \/ a[i] = 0
  <2>1. \A i \in 1 .. n : i \notin S => HeldBy(i, Deployed[j]) = 0
    BY DEF Holding, HeldBy
  <2> QED BY <1>5, <2>1
<1>8. S = {i \in 1 .. n : i \in S}
  BY DEF Holding
<1>9. 0 \in Nat /\ 1 \in Nat
  BY SMT
<1>10. a \in [1 .. n -> Nat] /\ c \in [1 .. n -> Nat]
  BY <1>5, <1>9
<1>11. b \in [1 .. n -> Nat]
  BY <1>2, <1>5, <1>6
<1> HIDE DEF a, c, S, n
<1>12. SumOf(c) = Cardinality(S) /\ SumOf(c) \in Nat
  <2>0. n \in Nat /\ c \in [1 .. n -> Nat] /\ \A i \in 1 .. n : c[i] = IF i \in S THEN 1 ELSE 0
    BY <1>1, <1>5, <1>10, Zenon
  <2>1. SumOf(c) = Cardinality({i \in 1 .. n : i \in S})
    BY <2>0, SumCounts
  <2>2. \A i \in 1 .. n : i # 0
    BY <1>1, SMT
  <2>3. SumOf(c) \in Nat
    <3>1. PICK f : AddsUp(f, n, c) /\ SumOf(c) = f[n]
      BY <1>1, <1>10, SumIs
    <3>2. n \in 0 .. n
      BY <1>1, SMT
    <3> QED BY <3>1, <3>2 DEF AddsUp
  <2> QED BY <1>8, <2>1, <2>3
<1> HIDE DEF from
<1>13. \A i \in 1 .. n : b[i] = Rescale(a[i], from, STABLE_DECIMALS)
  BY <1>4, <1>6
<1>14. /\ SumOf(a) \in Nat /\ SumOf(b) \in Nat
       /\ Rescale(SumOf(a), from, STABLE_DECIMALS) \in Nat
       /\ SumOf(b) <= Rescale(SumOf(a), from, STABLE_DECIMALS)
       /\ Rescale(SumOf(a), from, STABLE_DECIMALS) <= SumOf(b) + (IF from > STABLE_DECIMALS THEN SumOf(c) ELSE 0)
  <2>1. n \in Nat /\ from \in Nat /\ STABLE_DECIMALS \in Nat
    BY <1>1, <1>2
  <2>2. PICK to \in Nat : to = STABLE_DECIMALS
    BY <2>1
  <2>3. OnScale(a, b, c, n, from, to)
    BY <1>7, <1>13, <2>2 DEF OnScale
  <2>4. /\ SumOf(a) \in Nat /\ SumOf(b) \in Nat /\ SumOf(c) \in Nat
        /\ Rescale(SumOf(a), from, to) \in Nat
        /\ SumOf(b) <= Rescale(SumOf(a), from, to)
        /\ Rescale(SumOf(a), from, to) <= SumOf(b) + (IF from > to THEN SumOf(c) ELSE 0)
    BY <1>10, <1>11, <2>1, <2>3, SumRescaled
  <2> QED BY <2>2, <2>4
<1>15. InStable(Deployed[j], LockedOf(Deployed[j])) = Rescale(SumOf(a), from, STABLE_DECIMALS)
  BY <1>3, <1>4
<1> QED BY <1>12, <1>14, <1>15 DEF from, S

(* Added token by token instead, it is off by what is cut off.             *)
LEMMA StableTotals ==
  ASSUME ReadsInv
  PROVE  /\ SumOf([i \in 1 .. page.created |-> SumOf(StablesOf(i))]) \in Nat
         /\ StablesHeld \in Nat /\ CutOff \in Nat
         /\ SumOf([i \in 1 .. page.created |-> SumOf(StablesOf(i))]) <= StablesHeld
         /\ StablesHeld <= SumOf([i \in 1 .. page.created |-> SumOf(StablesOf(i))]) + CutOff
<1> DEFINE m == page.created
           n == Len(Deployed)
           w == [i \in 1 .. m |-> StablesOf(i)]
           rows == [i \in 1 .. m |-> SumOf(StablesOf(i))]
           column(j) == Column(w, m, j)
           columns == [j \in 1 .. n |-> SumOf(column(j))]
           held == [j \in 1 .. n |-> IF Deployed[j].isStable
                                     THEN InStable(Deployed[j], LockedOf(Deployed[j])) ELSE 0]
           cut == [j \in 1 .. n |-> IF Deployed[j].isStable /\ Deployed[j].decimals > STABLE_DECIMALS
                                    THEN Cardinality(Holding(Deployed[j])) ELSE 0]
<1>1. m \in Nat /\ n \in Nat /\ DOMAIN Deployed = 1 .. n
  BY CreatedIs, ListedAre
<1>2. StablesHeld = SumOf(held) /\ CutOff = SumOf(cut)
  BY <1>1, Zenon DEF StablesHeld, CutOff
<1>3. \A i \in 1 .. m : StablesOf(i) \in [1 .. n -> Nat] /\ SumOf(StablesOf(i)) \in Nat
  BY StablesOfPair
<1>4. w \in [1 .. m -> [1 .. n -> Nat]] /\ rows \in [1 .. m -> Nat] /\ \A i \in 1 .. m : rows[i] = SumOf(w[i])
  BY <1>3
<1>5. 0 \in Nat /\ 0 <= 0 /\ 0 + 0 = 0 /\ \A x \in Nat : x + 0 = x
  BY SMT
<1>6. ASSUME NEW j \in 1 .. n
      PROVE  /\ columns[j] \in Nat /\ held[j] \in Nat /\ cut[j] \in Nat
             /\ columns[j] <= held[j] /\ held[j] <= columns[j] + cut[j]
  <2>1. column(j) = [i \in 1 .. m |-> StablesOf(i)[j]] /\ columns[j] = SumOf(column(j))
    BY DEF Column
  <2>2. CASE Deployed[j].isStable
    <3>1. PICK x, y, z : /\ x = SumOf(column(j)) /\ y = InStable(Deployed[j], LockedOf(Deployed[j]))
                         /\ z = Cardinality(Holding(Deployed[j]))
      OBVIOUS
    <3>2. /\ x \in Nat /\ y \in Nat /\ z \in Nat /\ x <= y
          /\ y <= x + (IF Deployed[j].decimals > STABLE_DECIMALS THEN z ELSE 0)
      <4> HIDE DEF column
      <4> QED BY <2>1, <2>2, <3>1, StableTotal
    <3>3. columns[j] = x /\ held[j] = y /\ cut[j] = IF Deployed[j].decimals > STABLE_DECIMALS THEN z ELSE 0
      BY <2>2, <3>1
    <3> HIDE DEF columns, held, cut, column
    <3> QED BY <1>5, <3>2, <3>3
  <2>3. CASE ~Deployed[j].isStable
    <3>1. \A i \in 1 .. m : column(j)[i] = 0
      BY <2>3 DEF StablesOf, Column
    <3>2. column(j) \in [1 .. m -> Nat]
      BY <1>3 DEF Column
    <3>3. 0 \notin 1 .. m
      BY SMT
    <3>4. SumOf(column(j)) = 0
      <4> HIDE DEF column
      <4> QED BY <1>1, <3>1, <3>2, <3>3, SumOfOne
    <3>5. columns[j] = 0 /\ held[j] = 0 /\ cut[j] = 0
      BY <2>1, <2>3, <3>4
    <3> QED BY <1>5, <3>5
  <2> QED BY <2>2, <2>3
<1>7. /\ columns = [j \in 1 .. n |-> columns[j]] /\ held = [j \in 1 .. n |-> held[j]]
      /\ cut = [j \in 1 .. n |-> cut[j]]
  OBVIOUS
<1>8. \A j \in 1 .. n : columns[j] = SumOf(Column(w, m, j))
  BY Zenon
<1>9. SumOf([i \in 1 .. page.created |-> SumOf(StablesOf(i))]) = SumOf(rows)
  OBVIOUS
<1> HIDE DEF m, n, w, rows, columns, held, cut
<1>10. columns \in [1 .. n -> Nat] /\ held \in [1 .. n -> Nat] /\ cut \in [1 .. n -> Nat]
  BY <1>6, <1>7
<1>11. SumOf(rows) = SumOf(columns)
  <2>1. Totals(w, m, n, rows, columns)
    BY <1>1, <1>4, <1>8, <1>10 DEF Totals
  <2> QED BY <2>1, SumsInEitherOrder
<1>12. /\ SumOf(columns) \in Nat /\ SumOf(held) \in Nat /\ SumOf(cut) \in Nat
       /\ SumOf(columns) <= SumOf(held) /\ SumOf(held) <= SumOf(columns) + SumOf(cut)
  BY <1>1, <1>6, <1>10, SumOfBounded
<1> QED BY <1>2, <1>9, <1>11, <1>12

(* The totals of the landing page (useProtocolStats.ts:94-120).            *)
LEMMA FiguresAreLocked == PageInv => FiguresAreWhatIsLocked
<1> SUFFICES ASSUME PageInv, NEW t \in Tab, NEW all_, all_ = [i \in 1 .. page.created |-> i],
                    page.cache[t].figures = Answer(all_, FiguresBatch(all_), 0), KnownPairs(t) = all_
             PROVE  /\ KashLocked(SummariesOf(t)) = LockedOf(WKASH)
                    /\ StablesLocked(SummariesOf(t)) \in (StablesHeld - CutOff) .. StablesHeld
  BY DEF FiguresAreWhatIsLocked
<1> DEFINE shown == Summaries(all_, WithFailure(FiguresBatch(all_), 0))
<1>1. ReadsInv
  BY DEF PageInv
<1>2. SummariesOf(t) = shown
  BY DEF SummariesOf, Latest, Answer
<1>3. shown = [n \in DOMAIN shown |-> shown[n]]
  BY DEF Summaries
<1>4. /\ DOMAIN shown = 1 .. page.created
      /\ \A i \in 1 .. page.created :
           /\ shown[i].token0 = TokenByAddress(TOKEN_LIST, Pairs[i].token0)
           /\ shown[i].token1 = TokenByAddress(TOKEN_LIST, Pairs[i].token1)
           /\ shown[i].reserve0 = StateOf(i).reserves[1]
           /\ shown[i].reserve1 = StateOf(i).reserves[2]
  BY <1>1, FiguresWhole
<1> HIDE DEF shown
<1>5. OfEveryPair(shown)
  BY <1>3, <1>4, Zenon DEF OfEveryPair
<1>6. KashLocked(shown) = LockedOf(WKASH)
  BY <1>1, <1>5, KashTotal
<1>7. StablesLocked(shown) \in (StablesHeld - CutOff) .. StablesHeld
  <2>1. PICK x \in Nat, y \in Nat, z \in Nat :
          /\ x = SumOf([i \in 1 .. page.created |-> SumOf(StablesOf(i))])
          /\ y = StablesHeld /\ z = CutOff /\ x <= y /\ y <= x + z
    BY <1>1, StableTotals
  <2>2. StablesLocked(shown) = x
    BY <1>1, <1>5, <2>1, StablesByPair
  <2>3. x \in (y - z) .. y
    BY <2>1, SMT
  <2> QED BY <2>1, <2>2, <2>3
<1> QED BY <1>2, <1>6, <1>7

-----------------------------------------------------------------------------
(* The price.                                                              *)

(* A summary shows the listed tokens of a pair, and reserves it had.       *)
ShownSummary(s) ==
  \E i \in 1 .. Len(Pairs) : \E z \in 1 .. Len(Pairs[i].history) :
    /\ s.token0 \in {NoToken, TokenByAddress(TOKEN_LIST, Pairs[i].token0)}
    /\ s.token1 \in {NoToken, TokenByAddress(TOKEN_LIST, Pairs[i].token1)}
    /\ s.reserve0 = Pairs[i].history[z].reserves[1] /\ s.reserve1 = Pairs[i].history[z].reserves[2]

(* Whatever was answered when, every summary is such.                      *)
LEMMA SummariesShown ==
  ASSUME PageInv, NEW t \in Tab
  PROVE  /\ \E n \in Nat : DOMAIN SummariesOf(t) = 1 .. n
         /\ \A n \in DOMAIN SummariesOf(t) : ShownSummary(SummariesOf(t)[n])
<1> DEFINE pairs == KnownPairs(t)
           figures == Latest(page.cache[t].figures, pairs)
           shown == SummariesOf(t)
<1>1. pairs \in Seq(1 .. Len(Pairs))
  BY KnownPairsAre DEF PageInv
<1>2. figures # NoData => FiguresSound(pairs, figures)
  <2>1. figures # NoData => page.cache[t].figures.key = pairs /\ page.cache[t].figures.data = figures
    BY LatestIs
  <2> HIDE DEF pairs, figures
  <2> QED BY <2>1 DEF PageInv, ReadsInv, CacheSound
<1>3. shown = Summaries(pairs, figures)
  BY DEF SummariesOf
<1> HIDE DEF pairs, figures, shown
<1>4. PICK T : pairs \in Seq(T)
  BY <1>1
<1>5. /\ \E n \in Nat : DOMAIN shown = 1 .. n
      /\ \A n \in DOMAIN shown : \E i \in DOMAIN pairs :
           ResultOf(figures, 3 * i) # Failed /\ shown[n] = SummaryOf(pairs, figures, i)
  BY <1>3, <1>4, SummariesAre
<1>6. DOMAIN pairs = 1 .. Len(pairs) /\ \A i \in DOMAIN pairs : pairs[i] \in 1 .. Len(Pairs)
  BY <1>1, LenProperties, ElementOfSeq
<1>7. ASSUME NEW i \in DOMAIN pairs, ResultOf(figures, 3 * i) # Failed
      PROVE  ShownSummary(SummaryOf(pairs, figures, i))
  <2>1. figures # NoData /\ figures[3 * i] # Failed
    BY <1>7 DEF ResultOf
  <2>2. 3 * (i - 1) + 3 = 3 * i
    BY <1>6, SMT
  <2>3. PICK a, b, r, p : /\ a = figures[3 * (i - 1) + 1] /\ b = figures[3 * (i - 1) + 2]
                          /\ r = figures[3 * (i - 1) + 3] /\ p = pairs[i]
    OBVIOUS
  <2>4. /\ a \in {Failed, Pairs[p].token0} /\ b \in {Failed, Pairs[p].token1}
        /\ r \in {s.reserves : s \in States(p)} /\ p \in 1 .. Len(Pairs)
    <3>1. /\ a \in {Failed, Pairs[p].token0} /\ b \in {Failed, Pairs[p].token1}
          /\ r \in {Failed} \cup {s.reserves : s \in States(p)}
      BY <1>2, <2>1, <2>3, Zenon DEF FiguresSound
    <3>2. r # Failed
      BY <2>1, <2>2, <2>3, Zenon
    <3> QED BY <1>6, <2>3, <3>1, <3>2
  <2>5. PICK z \in 1 .. Len(Pairs[p].history) : r = Pairs[p].history[z].reserves
    BY <2>4, PairsAre DEF States, Seqs!ToSet
  <2>6. SummaryOf(pairs, figures, i) =
          [pair |-> p, token0 |-> IF a = Failed THEN NoToken ELSE TokenByAddress(TOKEN_LIST, a),
           token1 |-> IF b = Failed THEN NoToken ELSE TokenByAddress(TOKEN_LIST, b),
           reserve0 |-> r[1], reserve1 |-> r[2]]
    BY <2>3, Zenon DEF SummaryOf
  <2> QED BY <2>4, <2>5, <2>6 DEF ShownSummary
<1> QED BY <1>5, <1>7 DEF shown

(* The stablecoin prices are quoted in is listed.                          *)
LEMMA MusdcIs ==
  /\ MUSDC \in Seqs!ToSet(Deployed) /\ MUSDC.address \in Nat \ {Native, Wkash}
<1>1. PICK n \in DOMAIN Deployed : Deployed[n].symbol = "musdc"
  BY TokensAssumption
<1>2. /\ TOKEN_LIST \in Seq(Token) /\ Seqs!ToSet(TOKEN_LIST) = {KASH, WKASH} \cup Seqs!ToSet(Deployed)
  BY TokenListIs
<1>3. Deployed[n] \in Seqs!ToSet(TOKEN_LIST)
  BY <1>2 DEF Seqs!ToSet
<1> DEFINE named == TokenBySymbol(TOKEN_LIST, "musdc")
<1>4. named # NoToken /\ named \in Seqs!ToSet(TOKEN_LIST) /\ named.symbol = "musdc"
  <2>1. PICK k \in DOMAIN TOKEN_LIST : TOKEN_LIST[k].symbol = "musdc"
    BY <1>1, <1>3 DEF Seqs!ToSet
  <2>2. named # NoToken
    BY <1>2, <2>1, BySymbolIs
  <2>3. PICK l \in DOMAIN TOKEN_LIST : named = TOKEN_LIST[l] /\ TOKEN_LIST[l].symbol = "musdc"
    BY <1>2, <2>2, BySymbolIs
  <2> QED BY <2>2, <2>3 DEF Seqs!ToSet
<1> HIDE DEF named
<1>5. MUSDC = named
  BY <1>4 DEF MUSDC, named
<1>6. KASH.symbol = "kash" /\ WKASH.symbol = "wkash"
  BY DEF KASH, WKASH, TokenWith
<1>7. named # KASH /\ named # WKASH
  BY <1>4, <1>6
<1>8. named \in Seqs!ToSet(Deployed)
  BY <1>2, <1>4, <1>7
<1>9. \A token \in Seqs!ToSet(Deployed) : token.address \in Nat \ {Native, Wkash}
  <2>1. \A i \in DOMAIN Deployed : Deployed[i] \in Token /\ Deployed[i].address \notin {Native, Wkash}
    BY TokensAssumption, ElementOfSeq, LenProperties
  <2>2. \A token \in Token : token.address \in Nat
    BY DEF Token
  <2> QED BY <2>1, <2>2 DEF Seqs!ToSet
<1> QED BY <1>5, <1>8, <1>9

(* The product of the reserves, after the fee, allows this output.         *)
Gives(unit, rIn, rOut, out) == (rIn * 1000 + unit * 997) * (rOut - out) >= rIn * rOut * 1000

(* A quote is the most that a pool of these reserves gives.                *)
LEMMA QuoteIsExact ==
  ASSUME NEW unit \in Nat, NEW rIn \in Nat, NEW rOut \in Nat, unit > 0, rIn > 0, rOut > 0
  PROVE  LET price == Sdk!AmountOut(unit, rIn, rOut)
         IN  Gives(unit, rIn, rOut, price) /\ ~Gives(unit, rIn, rOut, price + 1)
<1> DEFINE d == rIn * 1000 + unit * 997
           n == (unit * 997) * rOut
           q == n \div d
<1>1. Sdk!AmountOut(unit, rIn, rOut) = q
  BY DEF Sdk!AmountOut, Sdk!GetAmountOut, Sdk!FeeKept, Sdk!FeeBase, Sdk!FeeCut
<1>2. d \in Nat /\ d > 0 /\ n \in Nat
  BY SMT
<1>3. q \in Nat /\ q * d <= n /\ n < (q + 1) * d
  <2> HIDE DEF d, n
  <2> QED BY <1>2, DivBounds
<1>4. d * rOut = rIn * rOut * 1000 + n /\ d * rOut \in Nat /\ rIn * rOut * 1000 \in Nat
  BY SMT
<1> HIDE DEF q, d, n
<1>5. /\ d * (rOut - q) = d * rOut - q * d
      /\ d * (rOut - (q + 1)) = d * rOut - (q + 1) * d
      /\ q * d \in Nat /\ (q + 1) * d \in Nat
  BY <1>2, <1>3, SMT
<1>6. PICK a, b, c, e : a = d * rOut /\ b = q * d /\ c = (q + 1) * d /\ e = rIn * rOut * 1000
  OBVIOUS
<1>7. /\ a \in Nat /\ b \in Nat /\ c \in Nat /\ e \in Nat /\ a = e + n /\ b <= n /\ n < c
      /\ d * (rOut - q) = a - b /\ d * (rOut - (q + 1)) = a - c
  BY <1>3, <1>4, <1>5, <1>6
<1>8. a - b >= e /\ ~(a - c >= e)
  BY <1>2, <1>7, SMT
<1> QED BY <1>1, <1>6, <1>7, <1>8 DEF d, Gives

(* The price of a listed token (useProtocolStats.ts:122-151).              *)
LEMMA PricesAreExecutable == PageInv => PriceIsExecutable
<1> DEFINE Wanted(price, a, unit) ==
      \E i \in 1 .. Len(Pairs) : \E s \in Seqs!ToSet(Pairs[i].history) :
        \/ /\ Pairs[i].token0 = a /\ Pairs[i].token1 = MUSDC.address
           /\ Gives(unit, s.reserves[1], s.reserves[2], price)
           /\ ~Gives(unit, s.reserves[1], s.reserves[2], price + 1)
        \/ /\ Pairs[i].token1 = a /\ Pairs[i].token0 = MUSDC.address
           /\ Gives(unit, s.reserves[2], s.reserves[1], price)
           /\ ~Gives(unit, s.reserves[2], s.reserves[1], price + 1)
<1> SUFFICES ASSUME PageInv, NEW t \in Tab, NEW token \in Seqs!ToSet(TOKEN_LIST),
                    PoolPrice(SummariesOf(t), token, MUSDC) # Unpriced
             PROVE  Wanted(PoolPrice(SummariesOf(t), token, MUSDC),
                           IF token.address = Native THEN Wkash ELSE token.address, TenToThe(token.decimals))
  BY Zenon DEF PriceIsExecutable, Gives
<1>0. PICK price, a, unit : /\ price = PoolPrice(SummariesOf(t), token, MUSDC)
                            /\ a = IF token.address = Native THEN Wkash ELSE token.address
                            /\ unit = TenToThe(token.decimals)
  OBVIOUS
<1> HIDE DEF Wanted
<1> SUFFICES Wanted(price, a, unit)
  BY <1>0
<1> DEFINE shown == SummariesOf(t)
           b == MUSDC.address
           between == {s \in Seqs!ToSet(shown) : Holds(s, a, b) \/ Holds(s, b, a)}
           first == FirstIn(shown, between, NoData)
           reserves == ReservesFrom(first, a, b)
<1>1. b # Native /\ b \in Nat
  BY MusdcIs
<1>2. /\ between # {} /\ reserves[1] # 0 /\ reserves[2] # 0
      /\ price = Sdk!AmountOut(unit, reserves[1], reserves[2])
  BY <1>0, <1>1, Zenon DEF PoolPrice
<1>3. /\ \E n \in Nat : DOMAIN shown = 1 .. n
      /\ \A n \in DOMAIN shown : ShownSummary(shown[n])
  BY SummariesShown
<1>4. shown = [n \in DOMAIN shown |-> shown[n]]
  BY DEF SummariesOf, Summaries
<1> HIDE DEF shown
<1>5. first \in between
  <2> DEFINE V == {shown[n] : n \in DOMAIN shown}
  <2>1. \A n \in DOMAIN shown : shown[n] \in V
    OBVIOUS
  <2> HIDE DEF V
  <2>2. shown \in Seq(V)
    BY <1>3, <1>4, <2>1
  <2>3. \E n \in DOMAIN shown : shown[n] \in between
    BY <1>2 DEF Seqs!ToSet
  <2> HIDE DEF between
  <2> QED BY <2>2, <2>3, FirstInIs
<1>6. ShownSummary(first) /\ (Holds(first, a, b) \/ Holds(first, b, a))
  BY <1>3, <1>5 DEF Seqs!ToSet
<1> HIDE DEF first, between, b
<1>7. PICK i \in 1 .. Len(Pairs) : \E z_ \in 1 .. Len(Pairs[i].history) :
        /\ first.token0 \in {NoToken, TokenByAddress(TOKEN_LIST, Pairs[i].token0)}
        /\ first.token1 \in {NoToken, TokenByAddress(TOKEN_LIST, Pairs[i].token1)}
        /\ first.reserve0 = Pairs[i].history[z_].reserves[1]
        /\ first.reserve1 = Pairs[i].history[z_].reserves[2]
  BY <1>6 DEF ShownSummary
<1>15. PICK z \in 1 .. Len(Pairs[i].history) :
        /\ first.token0 \in {NoToken, TokenByAddress(TOKEN_LIST, Pairs[i].token0)}
        /\ first.token1 \in {NoToken, TokenByAddress(TOKEN_LIST, Pairs[i].token1)}
        /\ first.reserve0 = Pairs[i].history[z].reserves[1]
        /\ first.reserve1 = Pairs[i].history[z].reserves[2]
  BY <1>7
<1>8. Pairs[i].history[z] \in States(i)
  BY PairsAre DEF States, Seqs!ToSet
<1>9. PICK r0 \in Nat, r1 \in Nat : r0 = Pairs[i].history[z].reserves[1] /\ r1 = Pairs[i].history[z].reserves[2]
  BY <1>8, ReservesAre
<1>10. first.token0 # NoToken /\ first.token1 # NoToken
       /\ first.token0.address = Pairs[i].token0 /\ first.token1.address = Pairs[i].token1
  BY <1>6, <1>15, ListedAre DEF Holds
<1>11. unit \in Nat /\ unit > 0
  <2>1. token.decimals \in Nat
    <3>1. \A i_ \in DOMAIN TOKEN_LIST : TOKEN_LIST[i_] \in Token
      BY TokenListIs, ElementOfSeq, LenProperties
    <3> QED BY <3>1 DEF Seqs!ToSet, Token
  <2>2. unit \in Nat \ {0}
    BY <1>0, <2>1, TenToTheIs
  <2> QED BY <2>2, SMT
<1>12. ASSUME NEW rIn \in Nat, NEW rOut \in Nat, rIn # 0, rOut # 0, price = Sdk!AmountOut(unit, rIn, rOut)
       PROVE  Gives(unit, rIn, rOut, price) /\ ~Gives(unit, rIn, rOut, price + 1)
  <2>1. rIn > 0 /\ rOut > 0
    BY <1>12, SMT
  <2> QED BY <1>11, <1>12, <2>1, QuoteIsExact
<1>13. CASE Holds(first, a, b)
  <2>1. reserves[1] = r0 /\ reserves[2] = r1
    BY <1>15, <1>9, <1>13 DEF ReservesFrom
  <2>2. Gives(unit, r0, r1, price) /\ ~Gives(unit, r0, r1, price + 1)
    BY <1>2, <1>12, <2>1
  <2>3. Pairs[i].token0 = a /\ Pairs[i].token1 = MUSDC.address
    BY <1>10, <1>13 DEF Holds, b
  <2> QED BY <1>8, <1>9, <2>2, <2>3, Zenon DEF States, Wanted
<1>14. CASE ~Holds(first, a, b)
  <2>0. Holds(first, b, a)
    BY <1>6, <1>14
  <2>1. reserves[1] = r1 /\ reserves[2] = r0
    BY <1>15, <1>9, <1>14 DEF ReservesFrom
  <2>2. Gives(unit, r1, r0, price) /\ ~Gives(unit, r1, r0, price + 1)
    BY <1>2, <1>12, <2>1
  <2>3. Pairs[i].token1 = a /\ Pairs[i].token0 = MUSDC.address
    BY <1>10, <2>0 DEF Holds, b
  <2> QED BY <1>8, <1>9, <2>2, <2>3, Zenon DEF States, Wanted
<1> QED BY <1>13, <1>14

-----------------------------------------------------------------------------
(* Recent trades.                                                          *)

(* Swaps of which no two have the same block, the later the newer.         *)
Numbered(S) ==
  /\ \A a \in S : a.blockNumber \in Nat
  /\ \A a \in S, b \in S : Later(a, b) <=> a.blockNumber > b.blockNumber
  /\ \A a \in S, b \in S : a.blockNumber = b.blockNumber => a = b

(* A list of swaps, newest first.                                          *)
Descending(list) ==
  \A m \in DOMAIN list, n \in DOMAIN list : m < n => list[m].blockNumber > list[n].blockNumber

(* Each place of the sorted list is the number of later swaps: one swap    *)
(* has it, and all have one.                                               *)
LEMMA SortedIs ==
  ASSUME NEW S, IsFiniteSet(S), Numbered(S)
  PROVE  /\ Cardinality(S) \in Nat /\ Sorted(S) \in [1 .. Cardinality(S) -> S]
         /\ Descending(Sorted(S))
         /\ \A s \in S : \E n \in 1 .. Cardinality(S) : Sorted(S)[n] = s
<1> DEFINE N == Cardinality(S)
           later(s) == {r \in S : Later(r, s)}
           rank == [s \in S |-> Cardinality(later(s)) + 1]
<1>1. N \in Nat
  BY FS_CardinalityType
<1>2. ASSUME NEW a \in S PROVE Cardinality(later(a)) \in 0 .. N - 1
  <2>1. later(a) \in SUBSET S /\ later(a) # S
    BY DEF Numbered
  <2> QED BY <1>1, <2>1, FS_Subset, FS_CardinalityType
<1>3. ASSUME NEW a \in S, NEW b \in S, Later(a, b) PROVE Cardinality(later(a)) < Cardinality(later(b))
  <2>1. later(a) \in SUBSET later(b) /\ later(a) # later(b)
    <3>1. a \in later(b) /\ a \notin later(a)
      BY <1>3 DEF Numbered
    <3>2. ASSUME NEW r \in later(a) PROVE r \in later(b)
      BY <1>3, <3>2 DEF Numbered
    <3> QED BY <3>1, <3>2
  <2>2. IsFiniteSet(later(b))
    BY FS_Subset
  <2>3. Cardinality(later(a)) # Cardinality(later(b)) /\ Cardinality(later(a)) <= Cardinality(later(b))
    BY <2>1, <2>2, FS_Subset
  <2> QED BY <1>2, <2>3
<1>4. \A a \in S, b \in S : a = b \/ Later(a, b) \/ Later(b, a)
  BY DEF Numbered
<1> HIDE DEF later
<1>5. rank \in [S -> 1 .. N]
  BY <1>1, <1>2
<1>6. ASSUME NEW a \in S, NEW b \in S, a # b PROVE rank[a] # rank[b]
  BY <1>2, <1>3, <1>4, <1>6
<1>7. rank \in Injection(S, 1 .. N)
  BY <1>5, <1>6 DEF Injection, IsInjective
<1>8. IsFiniteSet(1 .. N) /\ Cardinality(1 .. N) = N
  BY <1>1, FS_Interval
<1>9. rank \in Surjection(S, 1 .. N)
  BY <1>7, <1>8, FS_Injection
<1>10. ASSUME NEW n \in 1 .. N PROVE Sorted(S)[n] \in S /\ rank[Sorted(S)[n]] = n
  <2>1. \E s \in S : rank[s] = n
    BY <1>9 DEF Surjection
  <2>2. \E s \in S : Cardinality(later(s)) = n - 1
    BY <1>2, <2>1
  <2>3. Sorted(S)[n] = CHOOSE s \in S : Cardinality(later(s)) = n - 1
    BY DEF Sorted, later, N
  <2>4. Sorted(S)[n] \in S /\ Cardinality(later(Sorted(S)[n])) = n - 1
    BY <2>2, <2>3
  <2> QED BY <1>1, <1>2, <2>4
<1>11. Sorted(S) \in [1 .. N -> S]
  <2> DEFINE e(n) == CHOOSE s \in S : Cardinality({r \in S : Later(r, s)}) = n - 1
  <2>1. Sorted(S) = [n \in 1 .. N |-> e(n)]
    BY DEF Sorted
  <2> HIDE DEF e, N
  <2> QED BY <1>10, <2>1
<1>12. Descending(Sorted(S))
  <2> SUFFICES ASSUME NEW m \in 1 .. N, NEW n \in 1 .. N, m < n
               PROVE  Sorted(S)[m].blockNumber > Sorted(S)[n].blockNumber
    BY <1>11 DEF Descending
  <2>1. PICK a : a = Sorted(S)[m]
    OBVIOUS
  <2>2. PICK b : b = Sorted(S)[n]
    OBVIOUS
  <2>3. a \in S /\ b \in S /\ rank[a] = m /\ rank[b] = n
    BY <1>10, <2>1, <2>2
  <2>4. a # b /\ ~Later(b, a)
    BY <1>2, <1>3, <2>3
  <2>5. Later(a, b)
    BY <1>4, <2>3, <2>4
  <2> QED BY <2>1, <2>2, <2>3, <2>5 DEF Numbered
<1>13. ASSUME NEW s \in S PROVE \E n \in 1 .. N : Sorted(S)[n] = s
  <2>1. PICK n \in 1 .. N : n = rank[s]
    BY <1>5
  <2>2. Sorted(S)[n] \in S /\ rank[Sorted(S)[n]] = rank[s]
    BY <1>10, <2>1
  <2> QED BY <1>6, <2>2
<1> QED BY <1>1, <1>11, <1>12, <1>13

(* The first n of a list.                                                  *)
LEMMA FirstNIs ==
  ASSUME NEW T, NEW list \in Seq(T), NEW n \in Nat
  PROVE  LET first == FirstN(list, n)
             k == IF Len(list) < n THEN Len(list) ELSE n
         IN  /\ first \in Seq(T) /\ Len(first) = k /\ DOMAIN first = 1 .. k
             /\ \A i \in 1 .. k : i \in DOMAIN list /\ first[i] = list[i]
<1> DEFINE k == IF Len(list) < n THEN Len(list) ELSE n
<1>1. Len(list) \in Nat /\ DOMAIN list = 1 .. Len(list) /\ \A i \in 1 .. Len(list) : list[i] \in T
  BY LenProperties
<1>2. k \in Nat /\ k <= Len(list)
  BY <1>1
<1> HIDE DEF k
<1>3. \A i \in 1 .. k : i \in DOMAIN list /\ list[i] \in T
  BY <1>1, <1>2
<1>4. /\ SubSeq(list, 1, k) \in Seq(T) /\ Len(SubSeq(list, 1, k)) = IF 1 <= k THEN k - 1 + 1 ELSE 0
      /\ \A i \in 1 .. k - 1 + 1 : SubSeq(list, 1, k)[i] = list[1 + i - 1]
  BY <1>2, <1>3, SubSeqProperties
<1>5. FirstN(list, n) = SubSeq(list, 1, k)
  BY DEF FirstN, k
<1>6. Len(SubSeq(list, 1, k)) = k /\ \A i \in 1 .. k : SubSeq(list, 1, k)[i] = list[i]
  BY <1>2, <1>4
<1>7. DOMAIN SubSeq(list, 1, k) = 1 .. k
  BY <1>4, <1>6, LenProperties
<1> QED BY <1>3, <1>4, <1>5, <1>6, <1>7 DEF k

(* The newest of some swaps, newest first: the rest are older, and there   *)
(* is a rest only when the list is full.                                   *)
NewestOf(list, S, n) ==
  /\ list \in Seq(S) /\ Len(list) <= n /\ Descending(list)
  /\ \A x \in S : \/ x \in Seqs!ToSet(list)
                  \/ /\ Len(list) = n
                     /\ \A i \in DOMAIN list : x.blockNumber < list[i].blockNumber

(* Sorted and cut, a list has the newest.                                  *)
LEMMA TopIs ==
  ASSUME NEW S, IsFiniteSet(S), Numbered(S), NEW n \in Nat
  PROVE  NewestOf(FirstN(Sorted(S), n), S, n)
<1> DEFINE N == Cardinality(S)
           list == Sorted(S)
           first == FirstN(list, n)
           k == IF Len(list) < n THEN Len(list) ELSE n
<1>1. /\ N \in Nat /\ list \in [1 .. N -> S] /\ Descending(list)
      /\ \A s \in S : \E i \in 1 .. N : list[i] = s
  BY SortedIs
<1>2. list \in Seq(S) /\ Len(list) = N /\ DOMAIN list = 1 .. N
  <2> HIDE DEF N, list
  <2>1. list \in Seq(S)
    BY <1>1
  <2> QED BY <1>1, <2>1, LenProperties
<1> HIDE DEF N, list
<1>3. /\ first \in Seq(S) /\ Len(first) = k /\ DOMAIN first = 1 .. k
      /\ \A i \in 1 .. k : first[i] = list[i]
  BY <1>2, FirstNIs
<1>4. k \in Nat /\ k <= n /\ k <= N /\ (k < n => k = N)
  BY <1>1, <1>2
<1> HIDE DEF first, k
<1>5. Descending(first)
  BY <1>1, <1>2, <1>3, <1>4 DEF Descending
<1>6. ASSUME NEW x \in S
      PROVE  \/ x \in Seqs!ToSet(first)
             \/ /\ Len(first) = n
                /\ \A i \in DOMAIN first : x.blockNumber < first[i].blockNumber
  <2>1. PICK i \in 1 .. N : list[i] = x
    BY <1>1
  <2>2. CASE i <= k
    <3>1. i \in DOMAIN first /\ first[i] = x
      BY <1>1, <1>3, <1>4, <2>1, <2>2
    <3> QED BY <3>1 DEF Seqs!ToSet
  <2>3. CASE i > k
    <3>1. k = n
      BY <1>1, <1>4, <2>3
    <3>2. ASSUME NEW j \in DOMAIN first PROVE x.blockNumber < first[j].blockNumber
      <4>1. j \in 1 .. N /\ j < i /\ first[j] = list[j]
        BY <1>1, <1>3, <1>4, <2>3
      <4>2. list[j].blockNumber > list[i].blockNumber
        BY <1>1, <1>2, <4>1 DEF Descending
      <4>3. first[j] \in S /\ list[i] \in S
        BY <1>1, <4>1
      <4> QED BY <2>1, <4>1, <4>2, <4>3 DEF Numbered
    <3> QED BY <1>3, <3>1, <3>2
  <2> QED BY <1>1, <1>4, <2>2, <2>3
<1>7. NewestOf(first, S, n)
  BY <1>3, <1>4, <1>5, <1>6 DEF NewestOf
<1> QED BY <1>7 DEF first, list

(* A list has no more items than places, and as many when they differ.     *)
LEMMA ItemsCounted ==
  ASSUME NEW T, NEW list \in Seq(T)
  PROVE  LET items == Seqs!ToSet(list)
         IN  /\ items \subseteq T /\ IsFiniteSet(items) /\ Len(list) \in Nat
             /\ Cardinality(items) \in Nat /\ Cardinality(items) <= Len(list)
             /\ (\A i \in DOMAIN list, j \in DOMAIN list : list[i] = list[j] => i = j)
                => Cardinality(items) = Len(list)
<1> DEFINE n == Len(list)
           items == Seqs!ToSet(list)
<1>1. n \in Nat /\ DOMAIN list = 1 .. n /\ list \in [1 .. n -> T]
  BY LenProperties
<1>2. items = {list[i] : i \in 1 .. n}
  BY <1>1 DEF Seqs!ToSet
<1> HIDE DEF n, items
<1>3. items \subseteq T
  BY <1>1, <1>2
<1>4. list \in Surjection(1 .. n, items)
  <2>1. list \in [1 .. n -> items]
    BY <1>1, <1>2
  <2> QED BY <1>2, <2>1 DEF Surjection
<1>5. IsFiniteSet(1 .. n) /\ Cardinality(1 .. n) = n
  BY <1>1, FS_Interval
<1>6. IsFiniteSet(items) /\ Cardinality(items) <= n /\ (Cardinality(items) = n <=> list \in Injection(1 .. n, items))
  BY <1>4, <1>5, FS_Surjection
<1>7. (\A i \in DOMAIN list, j \in DOMAIN list : list[i] = list[j] => i = j) => Cardinality(items) = n
  BY <1>1, <1>4, <1>6 DEF Injection, IsInjective, Surjection
<1>8. Cardinality(items) \in Nat
  BY <1>6, FS_CardinalityType
<1> QED BY <1>1, <1>3, <1>6, <1>7, <1>8 DEF n, items

(* What each pool has, and what it answered.                               *)
Pages(pages, parts, all_, n) ==
  \A m \in DOMAIN pages :
    pages[m] # Unavailable => parts[m] \subseteq all_ /\ NewestOf(pages[m], parts[m], n)

(* The newest of the newest of each pool are the newest of all: a swap     *)
(* that its own page leaves out has a full page of later ones before it.   *)
LEMMA MergedIs ==
  ASSUME NEW all_, IsFiniteSet(all_), Numbered(all_), NEW n \in Nat,
         NEW pages, NEW parts, Pages(pages, parts, all_, n)
  PROVE  NewestOf(Merge(pages, n), UNION {parts[m] : m \in {k \in DOMAIN pages : pages[k] # Unavailable}}, n)
<1> DEFINE answered == {k \in DOMAIN pages : pages[k] # Unavailable}
           known == UNION {parts[m] : m \in answered}
           U == AllOf(pages)
           top == Merge(pages, n)
<1>1. ASSUME NEW m \in answered
      PROVE  /\ parts[m] \subseteq known /\ known \subseteq all_
             /\ NewestOf(pages[m], parts[m], n) /\ pages[m] \in Seq(parts[m])
             /\ Seqs!ToSet(pages[m]) \subseteq U
  BY DEF Pages, NewestOf, AllOf
<1>2. U \subseteq known /\ U \subseteq all_
  <2> SUFFICES ASSUME NEW x \in U PROVE x \in known /\ x \in all_
    OBVIOUS
  <2>1. PICK m \in answered : x \in Seqs!ToSet(pages[m])
    BY DEF AllOf
  <2>2. x \in parts[m]
    BY <1>1, <2>1, ItemsCounted
  <2> QED BY <1>1, <2>2
<1>3. IsFiniteSet(U) /\ Numbered(U)
  BY <1>2, FS_Subset DEF Numbered
<1>4. NewestOf(top, U, n)
  BY <1>3, TopIs DEF Merge
<1>5. top \in Seq(U) /\ top \in Seq(known) /\ Len(top) <= n /\ Descending(top)
  <2>1. Len(top) \in Nat /\ top \in [1 .. Len(top) -> U]
    BY <1>4, LenProperties DEF NewestOf
  <2>2. top \in Seq(known)
    BY <1>2, <2>1
  <2> QED BY <1>4, <2>2 DEF NewestOf
<1>6. Len(top) \in Nat /\ \A i \in DOMAIN top : top[i] \in U
  BY <1>5, LenProperties
<1> HIDE DEF U, top
<1>7. ASSUME NEW x \in known
      PROVE  \/ x \in Seqs!ToSet(top)
             \/ Len(top) = n /\ \A i \in DOMAIN top : x.blockNumber < top[i].blockNumber
  <2> DEFINE older == Len(top) = n /\ \A i \in DOMAIN top : x.blockNumber < top[i].blockNumber
  <2>1. CASE x \in U
    BY <1>4, <2>1 DEF NewestOf
  <2>2. CASE x \notin U
    <3>1. PICK m \in answered : x \in parts[m]
      OBVIOUS
    <3> DEFINE answer == pages[m]
               P == Seqs!ToSet(answer)
               Q == Seqs!ToSet(top)
    <3>2. /\ answer \in Seq(parts[m]) /\ Len(answer) = n /\ Descending(answer) /\ P \subseteq U
          /\ \A i \in DOMAIN answer : x.blockNumber < answer[i].blockNumber
      BY <1>1, <2>2, <3>1 DEF NewestOf
    <3>3. \A i \in DOMAIN answer : answer[i] \in P
      BY DEF Seqs!ToSet
    <3>4. \A z \in P : z \in U /\ z \in all_ /\ x.blockNumber < z.blockNumber
      BY <1>2, <3>2 DEF Seqs!ToSet
    <3>5. \A i \in DOMAIN answer, j \in DOMAIN answer : answer[i] = answer[j] => i = j
      <4> SUFFICES ASSUME NEW i \in DOMAIN answer, NEW j \in DOMAIN answer, answer[i] = answer[j] PROVE i = j
        OBVIOUS
      <4>1. answer[i] \in all_ /\ answer[j] \in all_
        BY <3>3, <3>4
      <4>2. answer[i].blockNumber \in Nat /\ answer[i].blockNumber = answer[j].blockNumber
        BY <4>1 DEF Numbered
      <4>3. i \in 1 .. Len(answer) /\ j \in 1 .. Len(answer) /\ Len(answer) \in Nat
        BY <3>2, LenProperties
      <4>4. ~(i < j) /\ ~(j < i)
        BY <3>2, <4>2 DEF Descending
      <4> QED BY <4>3, <4>4
    <3>6. IsFiniteSet(P) /\ Cardinality(P) = n
      BY <3>2, <3>5, ItemsCounted
    <3>7. IsFiniteSet(Q) /\ Cardinality(Q) <= Len(top) /\ Cardinality(Q) \in Nat
      BY <1>5, ItemsCounted
    <3>8. x \in all_ /\ x.blockNumber \in Nat /\ \A i \in DOMAIN top : top[i].blockNumber \in Nat
      BY <1>1, <1>2, <1>6, <3>1 DEF Numbered
    <3>9. CASE P \subseteq Q
      <4>1. Cardinality(P) <= Cardinality(Q) /\ (Cardinality(Q) = Cardinality(P) => Q = P)
        BY <3>7, <3>9, FS_Subset
      <4>2. Len(top) = n /\ Q = P
        BY <1>5, <1>6, <3>6, <3>7, <4>1
      <4>3. \A i \in DOMAIN top : top[i] \in P
        BY <4>2 DEF Seqs!ToSet
      <4> QED BY <3>4, <4>2, <4>3
    <3>10. ASSUME NEW z \in P, z \notin Q PROVE older
      <4>1. Len(top) = n /\ \A i \in DOMAIN top : z.blockNumber < top[i].blockNumber
        BY <1>4, <3>4, <3>10 DEF NewestOf
      <4>2. x.blockNumber < z.blockNumber /\ z.blockNumber \in Nat
        BY <3>4 DEF Numbered
      <4> HIDE DEF P, answer
      <4> QED BY <3>8, <4>1, <4>2
    <3> QED BY <3>9, <3>10
  <2> QED BY <2>1, <2>2
<1> QED BY <1>5, <1>7 DEF NewestOf, top

(* The swap that a trade is indexed as.                                    *)
SwapOf(trades, k) ==
  [pair |-> trades[k], timestamp |-> k \div 2, blockNumber |-> k, logIndex |-> 0]

SwapsOf(trades) == {SwapOf(trades, k) : k \in DOMAIN trades}

(* No two trades are indexed alike, and the later trade is the later swap. *)
LEMMA SwapsNumbered ==
  ASSUME NEW created \in Nat, NEW trades \in Seq(1 .. created)
  PROVE  /\ SwapsOf(trades) \subseteq Swap /\ IsFiniteSet(SwapsOf(trades))
         /\ Numbered(SwapsOf(trades))
<1> DEFINE n == Len(trades)
           f == [k \in 1 .. n |-> SwapOf(trades, k)]
           S == SwapsOf(trades)
<1>1. n \in Nat /\ DOMAIN trades = 1 .. n /\ \A k \in 1 .. n : trades[k] \in 1 .. created
  BY LenProperties
<1>2. S = {f[k] : k \in 1 .. n}
  BY <1>1 DEF SwapsOf
<1>3. \A k \in 1 .. n : /\ f[k].pair \in Nat /\ f[k].timestamp = k \div 2 /\ f[k].timestamp \in Nat
                        /\ f[k].blockNumber = k /\ f[k].logIndex = 0 /\ f[k] \in Swap
  <2> SUFFICES ASSUME NEW k \in 1 .. n
               PROVE  /\ f[k].pair \in Nat /\ f[k].timestamp = k \div 2 /\ f[k].timestamp \in Nat
                      /\ f[k].blockNumber = k /\ f[k].logIndex = 0 /\ f[k] \in Swap
    OBVIOUS
  <2>1. f[k] = SwapOf(trades, k) /\ trades[k] \in Nat /\ k \in Nat /\ k \div 2 \in Nat
    BY <1>1
  <2> HIDE DEF f
  <2> QED BY <2>1 DEF SwapOf, Swap
<1> HIDE DEF n, S
<1>4. f \in Surjection(1 .. n, S)
  <2>1. f \in [1 .. n -> S]
    BY <1>2
  <2> QED BY <1>2, <2>1 DEF Surjection
<1>5. IsFiniteSet(S)
  BY <1>1, <1>4, FS_Interval, FS_Surjection
<1> HIDE DEF f
<1>6. \A a \in 1 .. n, b \in 1 .. n : a > b => a \div 2 >= b \div 2
  BY <1>1
<1>7. \A a \in 1 .. n, b \in 1 .. n : Later(f[a], f[b]) <=> a > b
  <2> SUFFICES ASSUME NEW a \in 1 .. n, NEW b \in 1 .. n PROVE Later(f[a], f[b]) <=> a > b
    OBVIOUS
  <2>1. a \div 2 \in Int /\ b \div 2 \in Int /\ a \in Int /\ b \in Int
    BY <1>1
  <2>2. /\ a > b => a \div 2 >= b \div 2
        /\ b > a => b \div 2 >= a \div 2
    BY <1>6
  <2>3. Later(f[a], f[b]) <=> \/ a \div 2 > b \div 2
                              \/ a \div 2 = b \div 2 /\ a > b
                              \/ a \div 2 = b \div 2 /\ a = b /\ 0 > 0
    BY <1>3 DEF Later
  <2> QED BY <2>1, <2>2, <2>3
<1>8. Numbered(S)
  <2>1. \A a \in S : \E k \in 1 .. n : a = f[k] /\ a.blockNumber = k
    BY <1>2, <1>3
  <2>2. \A a \in S : a.blockNumber \in Nat
    BY <1>1, <2>1
  <2>3. \A a \in S, b \in S : Later(a, b) <=> a.blockNumber > b.blockNumber
    BY <1>7, <2>1
  <2>4. \A a \in S, b \in S : a.blockNumber = b.blockNumber => a = b
    BY <2>1
  <2> QED BY <2>2, <2>3, <2>4 DEF Numbered
<1> QED BY <1>2, <1>3, <1>5, <1>8 DEF S

(* What FeedIsNewest says of a feed.                                       *)
ShownNewest(feed, trades) ==
  LET shown == [n \in DOMAIN feed.shown |-> feed.shown[n].blockNumber]
      known == {k \in 1 .. feed.upTo : trades[k] \in feed.from}
  IN  /\ \A n \in DOMAIN shown : shown[n] \in known /\ (n > 1 => shown[n] < shown[n - 1])
      /\ Len(shown) <= FEED_LIMIT
      /\ \A k \in known \ Seqs!ToSet(shown) :
           Len(shown) = FEED_LIMIT /\ \A n \in DOMAIN shown : k < shown[n]

(* The newest of the swaps of some pairs are what is to be shown of them.  *)
LEMMA NewestShown ==
  ASSUME NEW created \in Nat, NEW trades \in Seq(1 .. created), NEW feed, NEW S,
         S = {SwapOf(trades, k) : k \in {j \in DOMAIN trades : trades[j] \in feed.from}},
         NewestOf(feed.shown, S, FEED_LIMIT), feed.upTo = Len(trades)
  PROVE  ShownNewest(feed, trades)
<1> DEFINE list == feed.shown
           shown == [n \in DOMAIN list |-> list[n].blockNumber]
           known == {k \in 1 .. feed.upTo : trades[k] \in feed.from}
<1>1. feed.upTo \in Nat /\ DOMAIN trades = 1 .. feed.upTo /\ S = {SwapOf(trades, k) : k \in known}
  <2>1. feed.upTo \in Nat /\ DOMAIN trades = 1 .. feed.upTo
    BY LenProperties
  <2> QED BY <2>1
<1> HIDE DEF known
<1>2. /\ list \in Seq(S) /\ Len(list) <= FEED_LIMIT /\ Descending(list)
      /\ \A x \in S : \/ x \in Seqs!ToSet(list)
                      \/ /\ Len(list) = FEED_LIMIT
                         /\ \A i \in DOMAIN list : x.blockNumber < list[i].blockNumber
  BY DEF NewestOf
<1>3. /\ Len(list) \in Nat /\ DOMAIN list = 1 .. Len(list)
      /\ \A n \in DOMAIN list : list[n] \in S
  BY <1>2, LenProperties
<1>4. \A x \in S : x.blockNumber \in known /\ x = SwapOf(trades, x.blockNumber)
  BY <1>1 DEF SwapOf
<1>5. \A k \in known : k \in Nat /\ SwapOf(trades, k) \in S /\ SwapOf(trades, k).blockNumber = k
  <2>1. \A k \in known : k \in Nat
    BY <1>1 DEF known
  <2>2. \A k \in known : SwapOf(trades, k) \in S
    BY <1>1
  <2>3. \A k : SwapOf(trades, k).blockNumber = k
    BY DEF SwapOf
  <2> QED BY <2>1, <2>2, <2>3
<1> HIDE DEF list
<1>6. \A n \in DOMAIN list : shown[n] \in known /\ shown[n] = list[n].blockNumber
  BY <1>3, <1>4
<1>7. shown \in Seq(Nat) /\ Len(shown) = Len(list) /\ DOMAIN shown = DOMAIN list
  <2>1. shown \in [1 .. Len(list) -> Nat] /\ DOMAIN shown = 1 .. Len(list)
    BY <1>3, <1>5, <1>6
  <2>2. shown \in Seq(Nat)
    BY <1>3, <2>1
  <2> HIDE DEF shown
  <2>3. Len(shown) \in Nat /\ DOMAIN shown = 1 .. Len(shown)
    BY <2>2, LenProperties
  <2> QED BY <1>3, <2>1, <2>2, <2>3
<1> HIDE DEF shown
<1>8. ASSUME NEW n \in DOMAIN shown, n > 1 PROVE shown[n] < shown[n - 1]
  <2>1. n - 1 \in DOMAIN list /\ n \in DOMAIN list /\ n - 1 < n
    BY <1>3, <1>7, <1>8
  <2>2. list[n - 1].blockNumber > list[n].blockNumber
    BY <1>2, <2>1 DEF Descending
  <2>3. shown[n - 1] = list[n - 1].blockNumber /\ shown[n] = list[n].blockNumber
        /\ shown[n] \in Nat /\ shown[n - 1] \in Nat
    BY <1>5, <1>6, <2>1
  <2> QED BY <2>2, <2>3
<1>9. ASSUME NEW k \in known, k \notin Seqs!ToSet(shown)
      PROVE  Len(shown) = FEED_LIMIT /\ \A n \in DOMAIN shown : k < shown[n]
  <2>1. SwapOf(trades, k) \notin Seqs!ToSet(list)
    <3> SUFFICES ASSUME NEW n \in DOMAIN list, SwapOf(trades, k) = list[n] PROVE FALSE
      BY DEF Seqs!ToSet
    <3>1. shown[n] = k
      BY <1>5, <1>6
    <3> QED BY <1>7, <1>9, <3>1 DEF Seqs!ToSet
  <2>2. Len(list) = FEED_LIMIT /\ \A n \in DOMAIN list : k < list[n].blockNumber
    BY <1>2, <1>5, <2>1
  <2> QED BY <1>6, <1>7, <2>2
<1>10. Len(shown) <= FEED_LIMIT
  BY <1>2, <1>7
<1>11. \A n \in DOMAIN shown : shown[n] \in known /\ (n > 1 => shown[n] < shown[n - 1])
  BY <1>6, <1>7, <1>8
<1> QED BY <1>9, <1>10, <1>11 DEF ShownNewest, shown, known, list

-----------------------------------------------------------------------------
(* A feed stays what it was: it speaks of the trades up to its request.    *)
FeedSound(feed, trades) ==
  feed \notin {NoData, Unavailable} => feed.upTo \in 0 .. Len(trades) /\ ShownNewest(feed, trades)

(* What a request gives, whichever of its parts is not answered.           *)
LEMMA FeedMade ==
  ASSUME ReadsInv, NEW k, NEW pools
  PROVE  FeedSound(FeedOf(pools, k), page.trades)
<1> DEFINE pages == [n \in DOMAIN pools |-> Get(k # n + 1, PairSwaps(Swaps(pools[n]), FEED_LIMIT))]
           from == {pools[n] : n \in {m \in DOMAIN pools : k # m + 1}}
           body == [shown |-> Merge(pages, FEED_LIMIT), from |-> from, upTo |-> Len(page.trades)]
           parts == [n \in DOMAIN pools |-> Swaps(pools[n])]
           all_ == SwapsOf(page.trades)
           S == {SwapOf(page.trades, j) : j \in {i \in DOMAIN page.trades : page.trades[i] \in from}}
<1>1. page.created \in Nat /\ page.trades \in Seq(1 .. page.created)
  BY CreatedIs DEF ReadsInv, TradesSound
<1>2. all_ \subseteq Swap /\ IsFiniteSet(all_) /\ Numbered(all_)
  BY <1>1, SwapsNumbered
<1>3. FEED_LIMIT \in Nat /\ FEED_LIMIT >= 1 /\ ClampLimit(FEED_LIMIT) = FEED_LIMIT
  BY FeedAssumption, FeedLimitAssumption DEF ClampLimit
<1>4. \A i : Swaps(i) = {SwapOf(page.trades, j) : j \in {n \in DOMAIN page.trades : page.trades[n] = i}}
  BY DEF Swaps, SwapOf
<1>5. ASSUME NEW n \in DOMAIN pools
      PROVE  /\ parts[n] \subseteq all_
             /\ NewestOf(PairSwaps(parts[n], FEED_LIMIT), parts[n], FEED_LIMIT)
             /\ PairSwaps(parts[n], FEED_LIMIT) # Unavailable
  <2>1. parts[n] \subseteq all_
    BY <1>4 DEF SwapsOf
  <2>2. IsFiniteSet(parts[n]) /\ Numbered(parts[n])
    BY <1>2, <2>1, FS_Subset DEF Numbered
  <2> DEFINE list == PairSwaps(parts[n], FEED_LIMIT)
  <2>3. NewestOf(list, parts[n], FEED_LIMIT)
    BY <1>3, <2>2, TopIs DEF PairSwaps
  <2> HIDE DEF list, parts, all_
  <2>4. list \in Seq(parts[n]) /\ parts[n] \subseteq Swap
    BY <1>2, <2>1, <2>3 DEF NewestOf
  <2>5. list \in Seq(Swap)
    BY <2>4
  <2>6. list # Unavailable
    BY <2>5, FeedAssumption
  <2> QED BY <2>1, <2>3, <2>6 DEF list
<1>6. \A n \in DOMAIN pools : pages[n] = IF k # n + 1 THEN PairSwaps(parts[n], FEED_LIMIT) ELSE Unavailable
  BY DEF Get
<1>7. DOMAIN pages = DOMAIN pools
  OBVIOUS
<1>8. \A n \in DOMAIN pools : parts[n] = Swaps(pools[n])
  OBVIOUS
<1> HIDE DEF pages, parts
<1>10. Pages(pages, parts, all_, FEED_LIMIT)
  BY <1>5, <1>6, <1>7 DEF Pages
<1>11. {m \in DOMAIN pages : pages[m] # Unavailable} = {m \in DOMAIN pools : k # m + 1}
  BY <1>5, <1>6, <1>7
<1>12. UNION {parts[m] : m \in {j \in DOMAIN pools : k # j + 1}} = S
  <2> DEFINE asked == {j \in DOMAIN pools : k # j + 1}
  <2>1. from = {pools[m] : m \in asked}
    OBVIOUS
  <2>2. \A m \in asked : m \in DOMAIN pools
    OBVIOUS
  <2> HIDE DEF asked, from
  <2>3. ASSUME NEW x \in S PROVE \E m \in asked : x \in parts[m]
    <3>1. PICK j \in DOMAIN page.trades : page.trades[j] \in from /\ x = SwapOf(page.trades, j)
      BY DEF S
    <3>2. PICK m \in asked : page.trades[j] = pools[m]
      BY <2>1, <3>1
    <3> QED BY <1>4, <1>8, <2>2, <3>1, <3>2
  <2>4. ASSUME NEW m \in asked, NEW x \in parts[m] PROVE x \in S
    <3>1. PICK j \in DOMAIN page.trades : page.trades[j] = pools[m] /\ x = SwapOf(page.trades, j)
      BY <1>4, <1>8, <2>2
    <3> QED BY <2>1, <3>1 DEF S
  <2> QED BY <2>3, <2>4 DEF asked
<1> HIDE DEF S
<1>13. NewestOf(Merge(pages, FEED_LIMIT), S, FEED_LIMIT)
  <2>1. NewestOf(Merge(pages, FEED_LIMIT),
                 UNION {parts[m] : m \in {j \in DOMAIN pages : pages[j] # Unavailable}}, FEED_LIMIT)
    BY <1>2, <1>3, <1>10, MergedIs
  <2> QED BY <1>11, <1>12, <2>1
<1> HIDE DEF pages, from
<1>14. PICK feed : feed = body
  OBVIOUS
<1>15. feed.shown = Merge(pages, FEED_LIMIT) /\ feed.from = from /\ feed.upTo = Len(page.trades)
  BY <1>14
<1>16. FeedOf(pools, k) = Get(k # 1, feed)
  BY <1>14 DEF FeedOf, pages, from
<1>17. ShownNewest(feed, page.trades)
  BY <1>1, <1>13, <1>15, NewestShown DEF S
<1>18. Len(page.trades) \in Nat
  BY <1>1, LenProperties
<1> QED BY <1>15, <1>16, <1>17, <1>18 DEF FeedSound, Get

(* The invariant of the feeds.                                             *)
FeedInv == \A t \in Tab : FeedSound(page.feed[t], page.trades)

(* A later trade changes nothing of what a feed says.                      *)
LEMMA FeedGrows ==
  ASSUME NEW created \in Nat, NEW trades \in Seq(1 .. created), NEW i \in 1 .. created,
         NEW feed, FeedSound(feed, trades)
  PROVE  FeedSound(feed, Append(trades, i))
<1> DEFINE new == Append(trades, i)
           known(list) == {k \in 1 .. feed.upTo : list[k] \in feed.from}
<1> SUFFICES ASSUME feed \notin {NoData, Unavailable}
             PROVE  feed.upTo \in 0 .. Len(new) /\ ShownNewest(feed, new)
  BY DEF FeedSound
<1>1. feed.upTo \in 0 .. Len(trades) /\ ShownNewest(feed, trades)
  BY DEF FeedSound
<1>2. Len(trades) \in Nat /\ Len(new) = Len(trades) + 1 /\ \A k \in 1 .. Len(trades) : new[k] = trades[k]
  BY LenProperties, AppendProperties
<1> HIDE DEF new
<1>3. feed.upTo \in 0 .. Len(new) /\ \A k \in 1 .. feed.upTo : new[k] = trades[k]
  BY <1>1, <1>2
<1>4. {k \in 1 .. feed.upTo : new[k] \in feed.from} = {k \in 1 .. feed.upTo : trades[k] \in feed.from}
  BY <1>3
<1>5. ShownNewest(feed, new)
  BY <1>1, <1>4 DEF ShownNewest
<1> QED BY <1>3, <1>5

(* So a step that leaves the feeds and adds a trade at most keeps it.      *)
LEMMA FeedKept ==
  ASSUME PageInv, FeedInv, page'.feed = page.feed,
         page'.trades = page.trades \/ \E i \in 1 .. page.created : page'.trades = Append(page.trades, i)
  PROVE  FeedInv'
<1>1. page.created \in Nat /\ page.trades \in Seq(1 .. page.created)
  BY CreatedIs DEF PageInv, ReadsInv, TradesSound
<1>2. ASSUME NEW t \in Tab PROVE FeedSound(page'.feed[t], page'.trades)
  <2>1. FeedSound(page.feed[t], page.trades)
    BY DEF FeedInv
  <2>2. FeedSound(page.feed[t], page'.trades)
    BY <1>1, <2>1, FeedGrows
  <2> QED BY <2>2
<1> QED BY <1>2 DEF FeedInv

(* A step that neither reads nor drops a feed adds a trade at most.        *)
LeavesFeed ==
  /\ page'.feed = page.feed
  /\ page'.trades = page.trades \/ \E i \in 1 .. page.created : page'.trades = Append(page.trades, i)

LEMMA OpeningLeavesFeed ==
  ASSUME PageInv, NEW t \in Tab, MountTab(t) \/ OpenTab(t)
  PROVE  LeavesFeed
<1>1. DOMAIN page = PageFields
  BY DEF PageInv, Shaped
<1>2. CASE MountTab(t)
  <2>1. PICK imports, entries, settings, record :
          page' = [page EXCEPT !.imports[t] = imports, !.entries = entries,
                               !.settings[t] = settings, !.record = record]
    BY <1>2 DEF MountTab
  <2> QED BY <1>1, <2>1 DEF LeavesFeed, PageFields
<1>3. CASE OpenTab(t)
  <2>1. PICK link, list :
          page' = [page EXCEPT
            !.entries = Kept(@, page.imports[t]), !.record = Kept(@, page.settings[t]),
            !.swap[t] = SwapFromLink(list, Defaults, link),
            !.pool[t] = PoolFromLink(list, Defaults, link)]
    BY <1>3 DEF OpenTab
  <2> QED BY <1>1, <2>1 DEF LeavesFeed, PageFields
<1> QED BY <1>2, <1>3

LEMMA SettingsLeaveFeed ==
  ASSUME PageInv, NEW t \in Tab,
         \/ \E bps \in Slippages : SetSlippage(t, bps)
         \/ \E minutes \in Deadlines : SetDeadline(t, minutes)
         \/ ResetSettings(t)
  PROVE  LeavesFeed
<1>1. \E s : WithSettings(t, s)
  BY DEF SetSlippage, SetDeadline, ResetSettings
<1>2. PICK s : page' = [page EXCEPT !.settings[t] = s, !.record = Kept(@, s)]
  BY <1>1 DEF WithSettings
<1>3. DOMAIN page = PageFields
  BY DEF PageInv, Shaped
<1> QED BY <1>2, <1>3 DEF LeavesFeed, PageFields

LEMMA FormsLeaveFeed ==
  ASSUME PageInv, NEW t \in Tab, NEW form \in Form, NEW side \in Side,
         PickToken(t, form, side) \/ ImportToken(t, form, side)
  PROVE  LeavesFeed
<1>1. DOMAIN page = PageFields
  BY DEF PageInv, Shaped
<1>2. ASSUME NEW token
      PROVE  /\ WithToken(form, t, side, token).feed = page.feed
             /\ WithToken(form, t, side, token).trades = page.trades
             /\ DOMAIN WithToken(form, t, side, token) = PageFields
  BY <1>1 DEF WithToken, PageFields
<1>3. CASE PickToken(t, form, side)
  BY <1>2, <1>3 DEF PickToken, LeavesFeed
<1>4. CASE ImportToken(t, form, side)
  <2>1. PICK token, imports :
          page' = [WithToken(form, t, side, token) EXCEPT !.imports[t] = imports, !.entries = Kept(@, imports)]
    BY <1>4 DEF ImportToken
  <2>2. PICK with : with = WithToken(form, t, side, token)
    OBVIOUS
  <2>3. DOMAIN with = PageFields /\ with.feed = page.feed /\ with.trades = page.trades
    BY <1>2, <2>2
  <2>4. page' = [with EXCEPT !.imports[t] = imports, !.entries = Kept(@, imports)]
    BY <2>1, <2>2
  <2> QED BY <2>3, <2>4 DEF LeavesFeed, PageFields
<1> QED BY <1>3, <1>4

LEMMA ListsLeaveFeed ==
  ASSUME PageInv, NEW t \in Tab, RemoveToken(t) \/ FollowRow(t) \/ ManagePosition(t)
  PROVE  LeavesFeed
<1>1. DOMAIN page = PageFields
  BY DEF PageInv, Shaped
<1>2. CASE RemoveToken(t)
  <2>1. PICK imports : page' = [page EXCEPT !.imports[t] = imports, !.entries = Kept(@, imports)]
    BY <1>2 DEF RemoveToken
  <2> QED BY <1>1, <2>1 DEF LeavesFeed, PageFields
<1>3. CASE FollowRow(t)
  <2>1. PICK form : page' = [page EXCEPT !.swap[t] = form] \/ page' = [page EXCEPT !.pool[t] = form]
    BY <1>3 DEF FollowRow
  <2> QED BY <1>1, <2>1 DEF LeavesFeed, PageFields
<1>4. CASE ManagePosition(t)
  <2>1. PICK form : page' = [page EXCEPT !.pool[t] = form]
    BY <1>4 DEF ManagePosition
  <2> QED BY <1>1, <2>1 DEF LeavesFeed, PageFields
<1> QED BY <1>2, <1>3, <1>4

LEMMA ReadsLeaveFeed ==
  ASSUME PageInv, NEW t \in Tab,
         \/ ReadCount(t) \/ ReadAddresses(t) \/ Refocus(t)
         \/ ReadDetails(t) \/ ReadMeta(t) \/ ReadBalances(t) \/ ReadFigures(t)
  PROVE  LeavesFeed
<1>1. DOMAIN page = PageFields
  BY DEF PageInv, Shaped
<1>2. CASE ReadCount(t)
  BY <1>1, <1>2 DEF ReadCount, LeavesFeed, PageFields
<1>3. CASE ReadAddresses(t) \/ Refocus(t)
  <2>1. PICK answer : page' = [page EXCEPT !.cache[t].addresses = answer]
    BY <1>3 DEF ReadAddresses, Refocus, AddressesAnswered
  <2> QED BY <1>1, <2>1 DEF LeavesFeed, PageFields
<1>4. CASE ReadDetails(t)
  <2>1. PICK answer : page' = [page EXCEPT !.cache[t].details = answer]
    BY <1>4 DEF ReadDetails
  <2> QED BY <1>1, <2>1 DEF LeavesFeed, PageFields
<1>5. CASE ReadMeta(t)
  <2>1. PICK answer : page' = [page EXCEPT !.cache[t].meta = answer]
    BY <1>5 DEF ReadMeta
  <2> QED BY <1>1, <2>1 DEF LeavesFeed, PageFields
<1>6. CASE ReadBalances(t)
  <2>1. PICK answer : page' = [page EXCEPT !.cache[t].balances = answer]
    BY <1>6 DEF ReadBalances
  <2> QED BY <1>1, <2>1 DEF LeavesFeed, PageFields
<1>7. CASE ReadFigures(t)
  <2>1. PICK answer : page' = [page EXCEPT !.cache[t].figures = answer]
    BY <1>7 DEF ReadFigures
  <2> QED BY <1>1, <2>1 DEF LeavesFeed, PageFields
<1> QED BY <1>2, <1>3, <1>4, <1>5, <1>6, <1>7

LEMMA ChainLeavesFeed ==
  ASSUME PageInv
  PROVE  /\ CreatePair => LeavesFeed
         /\ \A i \in 1 .. Len(Pairs) : Trade(i) => LeavesFeed
         /\ \A t \in Tab, i \in 1 .. Len(Pairs) : ReadDetailsAcross(t, i) => LeavesFeed
<1>1. DOMAIN page = PageFields
  BY DEF PageInv, Shaped
<1>2. \A i \in 1 .. Len(Pairs) : Tradable(i) => i \in 1 .. page.created
  <2>1. page.created \in Nat /\ Len(Pairs) \in Nat
    BY CreatedIs DEF PageInv
  <2> QED BY <2>1 DEF Tradable
<1>3. CreatePair => LeavesFeed
  BY <1>1 DEF CreatePair, LeavesFeed, PageFields
<1>4. ASSUME NEW i \in 1 .. Len(Pairs), Trade(i) PROVE LeavesFeed
  <2>1. page' = [page EXCEPT !.trades = Append(page.trades, i)] /\ i \in 1 .. page.created
    BY <1>2, <1>4 DEF Trade
  <2> QED BY <1>1, <2>1 DEF LeavesFeed, PageFields
<1>5. ASSUME NEW t \in Tab, NEW i \in 1 .. Len(Pairs), ReadDetailsAcross(t, i) PROVE LeavesFeed
  <2>1. PICK answer : page' = [page EXCEPT !.trades = Append(page.trades, i), !.cache[t].details = answer]
    BY <1>5 DEF ReadDetailsAcross
  <2>2. i \in 1 .. page.created
    BY <1>2, <1>5 DEF ReadDetailsAcross
  <2>3. page'.trades = Append(page.trades, i) /\ page'.feed = page.feed
    BY <1>1, <2>1 DEF PageFields
  <2> QED BY <2>2, <2>3 DEF LeavesFeed
<1> QED BY <1>3, <1>4, <1>5

(* The step that reads one.                                                *)
LEMMA FeedAnswered ==
  ASSUME PageInv, FeedInv, NEW t \in Tab, ReadFeed(t)
  PROVE  FeedInv'
<1>1. PICK pools, k : page' = [page EXCEPT !.feed[t] = FeedOf(pools, k)]
  BY DEF ReadFeed
<1>2. ReadsInv /\ DOMAIN page = PageFields /\ DOMAIN page.feed = Tab
  BY DEF PageInv, Shaped
<1>3. FeedSound(FeedOf(pools, k), page.trades)
  BY <1>2, FeedMade
<1>4. PICK feed : feed = FeedOf(pools, k)
  OBVIOUS
<1>5. page'.trades = page.trades /\ page'.feed = [page.feed EXCEPT ![t] = feed]
  BY <1>1, <1>2, <1>4 DEF PageFields
<1>6. ASSUME NEW u \in Tab PROVE FeedSound(page'.feed[u], page'.trades)
  BY <1>2, <1>3, <1>4, <1>5 DEF FeedInv
<1> QED BY <1>6 DEF FeedInv

(* Every step keeps it, by the part of the page it belongs to.             *)
LEMMA NextFeed == PageInv /\ FeedInv /\ [Next]_vars => FeedInv'
<1> SUFFICES ASSUME PageInv, FeedInv, [Next]_vars PROVE FeedInv'
  OBVIOUS
<1>1. ASSUME LeavesFeed PROVE FeedInv'
  BY <1>1, FeedKept DEF LeavesFeed
<1>2. CASE ActivityNext \/ UNCHANGED vars
  BY <1>1, <1>2, QuietSteps DEF LeavesFeed, vars
<1>3. ASSUME NEW t \in Tab, MountTab(t) \/ OpenTab(t) PROVE FeedInv'
  BY <1>1, <1>3, OpeningLeavesFeed
<1>4. ASSUME NEW t \in Tab, CloseTab(t) PROVE FeedInv'
  <2>1. DOMAIN page = PageFields /\ DOMAIN page.feed = Tab
    BY DEF PageInv, Shaped
  <2>2. page'.feed = [page.feed EXCEPT ![t] = NoData] /\ page'.trades = page.trades
    BY <1>4, <2>1 DEF CloseTab, PageFields
  <2>3. ASSUME NEW u \in Tab PROVE FeedSound(page'.feed[u], page'.trades)
    BY <2>1, <2>2 DEF FeedInv, FeedSound
  <2> QED BY <2>3 DEF FeedInv
<1>5. ASSUME NEW t \in Tab,
             \/ \E bps \in Slippages : SetSlippage(t, bps)
             \/ \E minutes \in Deadlines : SetDeadline(t, minutes)
             \/ ResetSettings(t)
      PROVE  FeedInv'
  BY <1>1, <1>5, SettingsLeaveFeed
<1>6. ASSUME NEW t \in Tab, NEW form \in Form, NEW side \in Side,
             PickToken(t, form, side) \/ ImportToken(t, form, side)
      PROVE  FeedInv'
  BY <1>1, <1>6, FormsLeaveFeed
<1>7. ASSUME NEW t \in Tab, RemoveToken(t) \/ FollowRow(t) \/ ManagePosition(t) PROVE FeedInv'
  BY <1>1, <1>7, ListsLeaveFeed
<1>8. ASSUME NEW t \in Tab,
             \/ ReadCount(t) \/ ReadAddresses(t) \/ Refocus(t)
             \/ ReadDetails(t) \/ ReadMeta(t) \/ ReadBalances(t) \/ ReadFigures(t)
      PROVE  FeedInv'
  BY <1>1, <1>8, ReadsLeaveFeed
<1>9. ASSUME NEW t \in Tab, ReadFeed(t) PROVE FeedInv'
  BY <1>9, FeedAnswered
<1>10. ASSUME \/ CreatePair
              \/ \E i \in 1 .. Len(Pairs) : Trade(i)
              \/ \E t \in Tab, i \in 1 .. Len(Pairs) : ReadDetailsAcross(t, i)
       PROVE  FeedInv'
  BY <1>1, <1>10, ChainLeavesFeed
<1> QED BY <1>2, <1>3, <1>4, <1>5, <1>6, <1>7, <1>8, <1>9, <1>10 DEF Next

LEMMA InitFeed == Init => FeedInv
<1> SUFFICES ASSUME Init PROVE FeedInv
  OBVIOUS
<1>1. \A t \in Tab : page.feed[t] = NoData
  BY DEF Init
<1> QED BY <1>1 DEF FeedInv, FeedSound

(* What is shown is the newest (useRecentTrades.ts).                       *)
LEMMA FeedsAreNewest == FeedInv => FeedIsNewest
BY DEF FeedInv, FeedSound, ShownNewest, FeedIsNewest

-----------------------------------------------------------------------------
(* The value of a pool.                                                    *)

(* Of some places with a number each, the first that has the largest.      *)
FirstLargest(w, P, k) ==
  LET largest == {i \in P : \A j \in P : w[j] <= w[i]}
  IN  k \in largest /\ \A j \in largest : k <= j

(* Some number of them is the largest, by the least bound they have.       *)
LEMMA FirstLargestExists ==
  ASSUME NEW n \in Nat, NEW P \in SUBSET (1 .. n), P # {}, NEW w, \A i \in P : w[i] \in Nat
  PROVE  \E k \in P : FirstLargest(w, P, k)
<1> DEFINE upTo(m) == {i \in P : i <= m}
           largest == {i \in P : \A j \in P : w[j] <= w[i]}
           Q == {m \in Nat : upTo(m) # {} => \E i \in upTo(m) : \A j \in upTo(m) : w[j] <= w[i]}
<1>0. P \subseteq Nat /\ \A i \in P : i \in Nat /\ 1 <= i /\ i <= n
  <2>1. \A i \in P : i \in 1 .. n
    OBVIOUS
  <2>2. \A i \in 1 .. n : i \in Nat /\ 1 <= i /\ i <= n
    BY SMT
  <2> QED BY <2>1, <2>2
<1>1. 0 \in Q
  <2>1. upTo(0) = {}
    <3>1. \A i \in P : ~(i <= 0)
      BY <1>0, SMT
    <3> QED BY <3>1
  <2> QED BY <2>1
<1>2. ASSUME NEW m \in 0 .. n - 1, m \in Q PROVE m + 1 \in Q
  <2>1. m + 1 \in Nat /\ \A i : i \in upTo(m + 1) <=> i \in upTo(m) \/ (i \in P /\ i = m + 1)
    <3>1. m + 1 \in Nat /\ \A i \in Nat : i <= m + 1 <=> i <= m \/ i = m + 1
      BY SMT
    <3> QED BY <1>0, <3>1
  <2>2. \A i \in upTo(m) : i \in P
    OBVIOUS
  <2> HIDE DEF upTo
  <2>3. SUFFICES ASSUME upTo(m + 1) # {} PROVE \E i \in upTo(m + 1) : \A j \in upTo(m + 1) : w[j] <= w[i]
    BY <2>1
  <2>4. CASE m + 1 \notin P
    <3>1. upTo(m + 1) = upTo(m)
      BY <2>1, <2>4
    <3> QED BY <1>2, <2>3, <3>1
  <2>5. CASE m + 1 \in P /\ upTo(m) = {}
    BY <2>1, <2>5
  <2>6. CASE m + 1 \in P /\ upTo(m) # {}
    <3>1. PICK i \in upTo(m) : \A j \in upTo(m) : w[j] <= w[i]
      BY <1>2, <2>6
    <3>2. w[i] \in Nat /\ w[m + 1] \in Nat /\ \A j \in upTo(m) : w[j] \in Nat
      BY <2>2, <2>6
    <3>3. CASE w[m + 1] <= w[i]
      BY <2>1, <3>1, <3>3
    <3>4. CASE w[i] <= w[m + 1]
      <4>1. \A j \in upTo(m + 1) : w[j] <= w[m + 1]
        BY <2>1, <3>1, <3>2, <3>4
      <4> QED BY <2>1, <2>6, <4>1
    <3> QED BY <3>2, <3>3, <3>4
  <2> QED BY <2>4, <2>5, <2>6
<1>3. n \in Q
  <2>1. n \in 0 .. n
    OBVIOUS
  <2> HIDE DEF Q
  <2> QED BY <1>1, <1>2, <2>1, UpTo
<1>4. upTo(n) = P
  BY <1>0
<1>5. largest # {} /\ largest \subseteq Nat
  <2>1. \E i \in P : \A j \in P : w[j] <= w[i]
    <3> HIDE DEF upTo
    <3> QED BY <1>3, <1>4
  <2> QED BY <1>0, <2>1
<1>6. PICK k \in largest : \A j \in largest : ~(<<j, k>> \in OpToRel(<, Nat))
  BY <1>5, WFMin, NatLessThanWellFounded
<1>7. \A j \in largest : ~(j < k) /\ j \in Nat /\ k \in Nat
  BY <1>5, <1>6 DEF OpToRel
<1> HIDE DEF largest
<1>8. \A j \in largest : k <= j
  BY <1>7
<1> QED BY <1>6, <1>8 DEF FirstLargest, largest

-----------------------------------------------------------------------------
(* A pool of two tokens, and the tokens that are priced by themselves.     *)
Priceable(token, stable) ==
  /\ token.address \in Nat /\ token.decimals \in Nat
  /\ token.isStable \in BOOLEAN /\ (token.isStable <=> token.address \in stable)

(* A pool as the pools table holds it.                                     *)
Market(p, stable) ==
  /\ Priceable(p.token0, stable) /\ Priceable(p.token1, stable)
  /\ p.token0.address # p.token1.address
  /\ p.reserve0 \in Nat /\ p.reserve1 \in Nat

(* The pools table.                                                        *)
Markets(pools, stable) ==
  /\ \E T : pools \in Seq(T)
  /\ stable \subseteq Nat
  /\ \A p \in Seqs!ToSet(pools) : Market(p, stable)

(* A pool that holds something of both tokens.                             *)
Filled(p) == p.reserve0 > 0 /\ p.reserve1 > 0

(* The pool from the side of the token a.                                  *)
Seen(p, a) ==
  IF p.token0.address = a
  THEN [other |-> p.token1, reserveToken |-> p.reserve0, reserveOther |-> p.reserve1]
  ELSE [other |-> p.token0, reserveToken |-> p.reserve1, reserveOther |-> p.reserve0]

(* These are the pools that hold a and are filled, each seen from a.       *)
SeenFrom(pools, a, sides) ==
  /\ \A i \in DOMAIN sides : \E p \in Seqs!ToSet(pools) :
       Filled(p) /\ a \in {p.token0.address, p.token1.address} /\ sides[i] = Seen(p, a)
  /\ \A p \in Seqs!ToSet(pools) :
       Filled(p) /\ a \in {p.token0.address, p.token1.address} => \E i \in DOMAIN sides : sides[i] = Seen(p, a)

(* The sides of a token are such.                                          *)
LEMMA SidesOfAre ==
  ASSUME NEW pools, NEW stable, Markets(pools, stable), NEW token
  PROVE  LET sides == SidesOf(pools, token)
         IN  (\E n \in Nat : DOMAIN sides = 1 .. n) /\ SeenFrom(pools, token.address, sides)
<1> DEFINE out == {p \in Seqs!ToSet(pools) :
                     \/ token.address \notin {p.token0.address, p.token1.address}
                     \/ p.reserve0 = 0 \/ p.reserve1 = 0}
           holding == Without(pools, out)
           sides == SidesOf(pools, token)
<1>0. PICK T : pools \in Seq(T)
  BY DEF Markets
<1>1. holding \in Seq(T) /\ Seqs!ToSet(holding) = Seqs!ToSet(pools) \ out
  BY <1>0, WithoutPicks
<1>2. sides = [i \in DOMAIN holding |-> Seen(holding[i], token.address)]
  BY DEF SidesOf, Seen
<1>3. \A p \in Seqs!ToSet(pools) :
        p \notin out <=> Filled(p) /\ token.address \in {p.token0.address, p.token1.address}
  BY DEF Markets, Market, Filled
<1> HIDE DEF out, holding, sides
<1>4. Len(holding) \in Nat /\ DOMAIN holding = 1 .. Len(holding)
  BY <1>1, LenProperties
<1>5. DOMAIN sides = DOMAIN holding /\ \A i \in DOMAIN holding : sides[i] = Seen(holding[i], token.address)
  BY <1>2
<1>6. \A i \in DOMAIN holding : holding[i] \in Seqs!ToSet(pools) /\ holding[i] \notin out
  BY <1>1 DEF Seqs!ToSet
<1>7. \A p \in Seqs!ToSet(pools) : p \notin out => \E i \in DOMAIN holding : holding[i] = p
  BY <1>1 DEF Seqs!ToSet
<1>8. ASSUME NEW p \in Seqs!ToSet(pools), Filled(p), token.address \in {p.token0.address, p.token1.address}
      PROVE  \E i \in DOMAIN sides : sides[i] = Seen(p, token.address)
  BY <1>3, <1>5, <1>7, <1>8
<1>9. ASSUME NEW i \in DOMAIN sides
      PROVE  \E p \in Seqs!ToSet(pools) :
                  /\ Filled(p) /\ token.address \in {p.token0.address, p.token1.address}
                  /\ sides[i] = Seen(p, token.address)
  BY <1>3, <1>5, <1>6
<1>10. SeenFrom(pools, token.address, sides)
  BY <1>8, <1>9 DEF SeenFrom
<1> QED BY <1>4, <1>5, <1>10 DEF sides

(* What the tokens of the other sides are worth.                           *)
Given(deeper, sides, i) == deeper[<<sides[i].other, sides[i].reserveOther>>]

Answering(deeper, sides) ==
  \A i \in DOMAIN sides : Given(deeper, sides, i) \in Nat \cup {Unpriced}

(* A token has a value exactly when it is a stablecoin or the other token  *)
(* of one of its pools has one.                                            *)
LEMMA WorthIs ==
  ASSUME NEW pools, NEW stable, Markets(pools, stable),
         NEW token, Priceable(token, stable), NEW amount \in Nat, amount > 0, NEW deeper, NEW sides,
         sides = SidesOf(pools, token), Answering(deeper, sides)
  PROVE  /\ Worth(pools, token, amount, deeper) \in Nat \cup {Unpriced}
         /\ Worth(pools, token, amount, deeper) # Unpriced
            <=> token.isStable \/ \E i \in DOMAIN sides : Given(deeper, sides, i) # Unpriced
<1> DEFINE w == [i \in DOMAIN sides |-> Given(deeper, sides, i)]
           priced == {i \in DOMAIN sides : w[i] # Unpriced}
           deepest == {i \in priced : \A j \in priced : w[j] <= w[i]}
           best == CHOOSE k \in deepest : \A j \in deepest : k <= j
           worth == Worth(pools, token, amount, deeper)
<1>1. worth = IF amount = 0 THEN 0
              ELSE IF token.isStable THEN InStable(token, amount)
              ELSE IF priced = {} THEN Unpriced
              ELSE (amount * w[best]) \div sides[best].reserveToken
  BY DEF Worth, Given, InStable
<1>2. amount # 0 /\ Unpriced \notin Nat
  BY AnswersAssumption, SMT
<1> HIDE DEF worth
<1>3. CASE token.isStable
  <2>1. worth \in Nat
    BY <1>1, <1>2, <1>3, InStableIs DEF Priceable
  <2> QED BY <1>2, <1>3, <2>1 DEF worth
<1>4. CASE ~token.isStable
  <2>1. PICK n \in Nat : DOMAIN sides = 1 .. n
    BY SidesOfAre
  <2>2. CASE priced = {}
    <3>1. worth = Unpriced
      BY <1>1, <1>2, <1>4, <2>2
    <3> QED BY <1>4, <2>2, <3>1 DEF worth
  <2>3. CASE priced # {}
    <3>1. priced \in SUBSET (1 .. n) /\ \A i \in priced : w[i] \in Nat
      BY <2>1 DEF Answering
    <3> HIDE DEF w, priced
    <3>2. \E k \in priced : FirstLargest(w, priced, k)
      BY <2>3, <3>1, FirstLargestExists
    <3>3. \E k \in deepest : \A j \in deepest : k <= j
      BY <3>2 DEF FirstLargest
    <3>4. best \in deepest
      BY <3>3
    <3>5. worth = (amount * w[best]) \div sides[best].reserveToken
      BY <1>1, <1>2, <1>4, <2>3
    <3> HIDE DEF best
    <3>6. best \in priced
      BY <3>4
    <3>7. best \in DOMAIN sides /\ w[best] \in Nat /\ Given(deeper, sides, best) # Unpriced
      BY <3>1, <3>6 DEF priced, w
    <3>8. PICK p \in Seqs!ToSet(pools) : Filled(p) /\ sides[best] = Seen(p, token.address)
      BY <3>7, SidesOfAre DEF SeenFrom
    <3>9. sides[best].reserveToken \in Nat /\ sides[best].reserveToken > 0
      BY <3>8 DEF Seen, Filled, Markets, Market
    <3>10. amount * w[best] \in Nat
      BY <3>7, SMT
    <3>11. worth \in Nat
      BY <3>5, <3>9, <3>10, DivBounds
    <3> QED BY <1>2, <3>7, <3>11 DEF worth
  <2> QED BY <2>2, <2>3
<1> QED BY <1>3, <1>4

-----------------------------------------------------------------------------
(* One step of the search, and the three that are made.                    *)
Level(pools, asked, deeper) == [z \in asked |-> Worth(pools, z[1], z[2], deeper)]

Asked(pools, token, amount) ==
  ({token} \cup UNION {{pools[i].token0, pools[i].token1} : i \in DOMAIN pools})
    \X ({amount} \cup UNION {{pools[i].reserve0, pools[i].reserve1} : i \in DOMAIN pools})

Nowhere(asked) == [y \in asked |-> Unpriced]

(* The value of a token is what three steps give from nothing.             *)
LEMMA ThreeLevels ==
  ASSUME NEW pools, NEW token, NEW amount, NEW asked, asked = Asked(pools, token, amount)
  PROVE  ValueInStable(pools, token, amount)
           = Level(pools, asked, Level(pools, asked, Level(pools, asked, Nowhere(asked))))[<<token, amount>>]
<1> DEFINE Is(f) == f = [left_ \in 0 .. MaxDepth + 1 |->
                           Level(pools, asked, IF left_ = 0 THEN Nowhere(asked) ELSE f[left_ - 1])]
           g == CHOOSE f : Is(f)
           v0 == Level(pools, asked, Nowhere(asked))
           v1 == Level(pools, asked, v0)
           v2 == Level(pools, asked, v1)
           h == [left_ \in 0 .. 2 |-> IF left_ = 0 THEN v0 ELSE IF left_ = 1 THEN v1 ELSE v2]
<1>1. ValueInStable(pools, token, amount) = g[MaxDepth + 1][<<token, amount>>]
  BY DEF ValueInStable, Level, Nowhere, Asked
<1>2. MaxDepth + 1 = 2
  BY DEF MaxDepth
<1>3. 0 .. 2 = {0, 1, 2} /\ 1 - 1 = 0 /\ 2 - 1 = 1
  OBVIOUS
<1> DEFINE Step(f, i) == Level(pools, asked, IF i = 0 THEN Nowhere(asked) ELSE f[i - 1])
<1>4. \A f : Is(f) <=> f = [i \in {0, 1, 2} |-> Step(f, i)]
  BY <1>2, <1>3
<1>5. Is(h)
  <2>1. h[0] = v0 /\ h[1] = v1 /\ h[2] = v2 /\ h = [i \in {0, 1, 2} |-> h[i]]
    BY <1>3
  <2> HIDE DEF h
  <2>2. \A i \in {0, 1, 2} : h[i] = Step(h, i)
    BY <1>3, <2>1
  <2> HIDE DEF Step, Is
  <2>3. h = [i \in {0, 1, 2} |-> Step(h, i)]
    BY <2>1, <2>2
  <2> QED BY <1>4, <2>3
<1>6. Is(g)
  <2> HIDE DEF Is, h
  <2> QED BY <1>5
<1> HIDE DEF g, Is
<1>7. \A i \in {0, 1, 2} : g[i] = Step(g, i)
  <2> HIDE DEF Step
  <2> QED BY <1>4, <1>6
<1>8. g[2] = v2
  BY <1>3, <1>7
<1> QED BY <1>1, <1>2, <1>8

(* The other side is the other token of the pool.                          *)
LEMMA SeenIs ==
  ASSUME NEW stable, NEW p, Market(p, stable), Filled(p), NEW a \in {p.token0.address, p.token1.address}
  PROVE  LET side == Seen(p, a)
         IN  /\ side.other \in {p.token0, p.token1} /\ side.reserveOther \in {p.reserve0, p.reserve1}
             /\ Priceable(side.other, stable) /\ side.reserveOther \in Nat /\ side.reserveOther > 0
             /\ {p.token0.address, p.token1.address} = {a, side.other.address} /\ a # side.other.address
<1>1. CASE a = p.token0.address
  <2>1. Seen(p, a).other = p.token1 /\ Seen(p, a).reserveOther = p.reserve1
    BY <1>1 DEF Seen
  <2> QED BY <1>1, <2>1 DEF Market, Filled
<1>2. CASE a = p.token1.address
  <2>1. Seen(p, a).other = p.token0 /\ Seen(p, a).reserveOther = p.reserve0
    BY <1>2 DEF Seen, Market
  <2> QED BY <1>2, <2>1 DEF Market, Filled
<1> QED BY <1>1, <1>2

(* A pool of the two that holds something of both.                         *)
Joined(pools, a, b) ==
  \E p \in Seqs!ToSet(pools) : Filled(p) /\ {p.token0.address, p.token1.address} = {a, b}

(* Exactly the tokens of R have a price.                                   *)
Prices(deeper, asked, R, stable) ==
  \A z \in asked : Priceable(z[1], stable) /\ z[2] \in Nat /\ z[2] > 0
                   => deeper[z] \in Nat \cup {Unpriced} /\ (deeper[z] # Unpriced <=> z[1].address \in R)

(* R2 are the stablecoins and what is one pool from R.                     *)
OnePoolFrom(R2, R, pools, stable) ==
  \A a \in Nat : a \in R2 <=> a \in stable \/ \E b \in R : Joined(pools, a, b)

(* Each step reaches one pool further.                                     *)
LEMMA LevelIs ==
  ASSUME NEW pools, NEW stable, Markets(pools, stable), NEW token, NEW amount,
         NEW asked, asked = Asked(pools, token, amount), NEW deeper, NEW R, NEW R2,
         Prices(deeper, asked, R, stable), OnePoolFrom(R2, R, pools, stable)
  PROVE  Prices(Level(pools, asked, deeper), asked, R2, stable)
<1> SUFFICES ASSUME NEW z \in asked, Priceable(z[1], stable), z[2] \in Nat, z[2] > 0
             PROVE  LET worth == Worth(pools, z[1], z[2], deeper)
                    IN  worth \in Nat \cup {Unpriced} /\ (worth # Unpriced <=> z[1].address \in R2)
  BY DEF Prices, Level
<1> DEFINE a == z[1].address
<1>1. \A p \in Seqs!ToSet(pools) : Market(p, stable)
  BY DEF Markets
<1>2. PICK sides : sides = SidesOf(pools, z[1])
  OBVIOUS
<1>3. /\ \A i \in DOMAIN sides : \E p \in Seqs!ToSet(pools) :
           Filled(p) /\ a \in {p.token0.address, p.token1.address} /\ sides[i] = Seen(p, a)
      /\ \A p \in Seqs!ToSet(pools) :
           Filled(p) /\ a \in {p.token0.address, p.token1.address} => \E i \in DOMAIN sides : sides[i] = Seen(p, a)
  <2>1. PICK tk : tk = z[1]
    OBVIOUS
  <2>2. sides = SidesOf(pools, tk) /\ a = tk.address
    BY <1>2, <2>1
  <2>3. SeenFrom(pools, tk.address, SidesOf(pools, tk))
    BY SidesOfAre
  <2> HIDE DEF a
  <2> QED BY <2>2, <2>3 DEF SeenFrom
<1>4. ASSUME NEW p \in Seqs!ToSet(pools), NEW other \in {p.token0, p.token1}, NEW r \in {p.reserve0, p.reserve1}
      PROVE  <<other, r>> \in asked
  <2>1. PICK i \in DOMAIN pools : p = pools[i]
    BY DEF Seqs!ToSet
  <2>2. /\ other \in UNION {{pools[j].token0, pools[j].token1} : j \in DOMAIN pools}
        /\ r \in UNION {{pools[j].reserve0, pools[j].reserve1} : j \in DOMAIN pools}
    BY <2>1
  <2> QED BY <2>2 DEF Asked
<1>5. ASSUME NEW i \in DOMAIN sides
      PROVE  /\ Given(deeper, sides, i) \in Nat \cup {Unpriced}
             /\ Given(deeper, sides, i) # Unpriced <=> sides[i].other.address \in R
             /\ Joined(pools, a, sides[i].other.address)
  <2>1. PICK p \in Seqs!ToSet(pools) : Filled(p) /\ a \in {p.token0.address, p.token1.address} /\ sides[i] = Seen(p, a)
    BY <1>3
  <2>2. PICK side : side = sides[i]
    OBVIOUS
  <2>3. /\ side.other \in {p.token0, p.token1} /\ side.reserveOther \in {p.reserve0, p.reserve1}
        /\ Priceable(side.other, stable) /\ side.reserveOther \in Nat /\ side.reserveOther > 0
        /\ {p.token0.address, p.token1.address} = {a, side.other.address}
    BY <1>1, <2>1, <2>2, SeenIs
  <2>4. PICK y : y = <<side.other, side.reserveOther>>
    OBVIOUS
  <2>5. y \in asked /\ y[1] = side.other /\ y[2] = side.reserveOther
    BY <1>4, <2>3, <2>4
  <2>6. deeper[y] \in Nat \cup {Unpriced} /\ (deeper[y] # Unpriced <=> side.other.address \in R)
    BY <2>3, <2>5 DEF Prices
  <2>7. Given(deeper, sides, i) = deeper[y]
    BY <2>2, <2>4 DEF Given
  <2>8. Joined(pools, a, side.other.address)
    BY <2>1, <2>3 DEF Joined
  <2> QED BY <2>2, <2>6, <2>7, <2>8
<1>6. ASSUME NEW b, Joined(pools, a, b) PROVE \E i \in DOMAIN sides : sides[i].other.address = b
  <2>1. PICK p \in Seqs!ToSet(pools) : Filled(p) /\ {p.token0.address, p.token1.address} = {a, b}
    BY <1>6 DEF Joined
  <2>2. a \in {p.token0.address, p.token1.address}
    BY <2>1
  <2>3. PICK i \in DOMAIN sides : sides[i] = Seen(p, a)
    BY <1>3, <2>1, <2>2
  <2>4. PICK side : side = sides[i]
    OBVIOUS
  <2>5. {p.token0.address, p.token1.address} = {a, side.other.address} /\ a # side.other.address
    BY <1>1, <2>1, <2>2, <2>3, <2>4, SeenIs
  <2>6. side.other.address = b
    <3>1. b \in {a, side.other.address} /\ side.other.address \in {a, b}
      BY <2>1, <2>5
    <3> QED BY <2>5, <3>1
  <2> QED BY <2>4, <2>6
<1>7. Answering(deeper, sides)
  BY <1>5 DEF Answering
<1>8. PICK worth : worth = Worth(pools, z[1], z[2], deeper)
  OBVIOUS
<1>9. /\ worth \in Nat \cup {Unpriced}
      /\ worth # Unpriced <=> z[1].isStable \/ \E i \in DOMAIN sides : Given(deeper, sides, i) # Unpriced
  <2>1. PICK tk : tk = z[1]
    OBVIOUS
  <2>2. PICK am : am = z[2]
    OBVIOUS
  <2>3. Priceable(tk, stable) /\ am \in Nat /\ am > 0 /\ sides = SidesOf(pools, tk) /\ worth = Worth(pools, tk, am, deeper)
    BY <1>2, <1>8, <2>1, <2>2
  <2>4. worth \in Nat \cup {Unpriced}
        /\ (worth # Unpriced <=> tk.isStable \/ \E i \in DOMAIN sides : Given(deeper, sides, i) # Unpriced)
    BY <1>7, <2>3, WorthIs
  <2> QED BY <2>1, <2>4
<1>10. (\E i \in DOMAIN sides : Given(deeper, sides, i) # Unpriced) <=> \E b \in R : Joined(pools, a, b)
  BY <1>5, <1>6
<1>11. a \in Nat /\ (z[1].isStable <=> a \in stable)
  BY DEF Priceable
<1>12. worth # Unpriced <=> a \in R2
  BY <1>9, <1>10, <1>11 DEF OnePoolFrom
<1> QED BY <1>8, <1>9, <1>12

(* A stablecoin is at most two pools away.                                 *)
Near(pools, stable, a) ==
  \/ a \in stable
  \/ \E s \in stable : Joined(pools, a, s)
  \/ \E s \in stable, b \in Nat : Joined(pools, a, b) /\ Joined(pools, b, s)

(* The value of a token (valuation.ts:36-58).                              *)
LEMMA ValueIs ==
  ASSUME NEW pools, NEW stable, Markets(pools, stable), NEW token, Priceable(token, stable),
         NEW amount \in Nat, amount > 0
  PROVE  LET value == ValueInStable(pools, token, amount)
         IN  /\ value \in Nat \cup {Unpriced}
             /\ value # Unpriced <=> Near(pools, stable, token.address)
<1> DEFINE asked == Asked(pools, token, amount)
           v0 == Level(pools, asked, Nowhere(asked))
           v1 == Level(pools, asked, v0)
           v2 == Level(pools, asked, v1)
           R0 == {a \in Nat : a \in stable}
           R1 == {a \in Nat : a \in stable \/ \E b \in R0 : Joined(pools, a, b)}
           R2 == {a \in Nat : a \in stable \/ \E b \in R1 : Joined(pools, a, b)}
<1>1. Prices(Nowhere(asked), asked, {}, stable)
  BY DEF Prices, Nowhere
<1>2. OnePoolFrom(R0, {}, pools, stable) /\ OnePoolFrom(R1, R0, pools, stable) /\ OnePoolFrom(R2, R1, pools, stable)
  BY DEF OnePoolFrom
<1>3. stable \subseteq Nat
  BY DEF Markets
<1> DEFINE at == <<token, amount>>
<1>4. at \in asked /\ at[1] = token /\ at[2] = amount
  BY DEF Asked
<1>5. ValueInStable(pools, token, amount) = v2[at]
  BY ThreeLevels
<1>6. token.address \in R2 <=> Near(pools, stable, token.address)
  <2>1. token.address \in Nat
    BY DEF Priceable
  <2>2. \A b : b \in R0 <=> b \in stable
    BY <1>3
  <2>3. \A b : b \in R1 <=> b \in Nat /\ (b \in stable \/ \E s \in stable : Joined(pools, b, s))
    BY <2>2
  <2> HIDE DEF R0, R1
  <2>4. token.address \in R2 <=> \/ token.address \in stable
                                 \/ \E b \in R1 : Joined(pools, token.address, b)
    BY <2>1
  <2> HIDE DEF R2
  <2> QED BY <1>3, <2>3, <2>4 DEF Near
<1> HIDE DEF R0, R1, R2
<1>7. PICK all_ : all_ = asked
  OBVIOUS
<1>8. all_ = Asked(pools, token, amount)
  BY <1>7
<1>9. Prices(Level(pools, all_, Nowhere(all_)), all_, R0, stable)
  <2>1. Prices(Nowhere(all_), all_, {}, stable)
    BY <1>1, <1>7
  <2> HIDE DEF asked
  <2> QED BY <1>2, <1>8, <2>1, LevelIs
<1>10. Prices(Level(pools, all_, Level(pools, all_, Nowhere(all_))), all_, R1, stable)
  BY <1>2, <1>8, <1>9, LevelIs
<1>11. Prices(Level(pools, all_, Level(pools, all_, Level(pools, all_, Nowhere(all_)))), all_, R2, stable)
  BY <1>2, <1>8, <1>10, LevelIs
<1>12. Prices(v2, asked, R2, stable)
  BY <1>7, <1>11
<1> HIDE DEF v2, asked, at
<1>13. v2[at] \in Nat \cup {Unpriced} /\ (v2[at] # Unpriced <=> token.address \in R2)
  BY <1>4, <1>12 DEF Prices
<1> QED BY <1>5, <1>6, <1>13

(* The addresses of the listed stablecoins.                                *)
Stable == {token.address : token \in {k \in Seqs!ToSet(TOKEN_LIST) : k.isStable}}

(* A token of the page is a stablecoin by its address: no import takes a   *)
(* listed one's place.                                                     *)
LEMMA StableIs ==
  ASSUME PageInv, NEW t \in Tab, NEW a \in DOMAIN Contracts
  PROVE  LET listed == TokenByAddress(TokensOf(t), a)
             isStable == IF listed # NoToken THEN listed.isStable ELSE FALSE
         IN  isStable \in BOOLEAN /\ (isStable <=> a \in Stable)
<1> DEFINE listed == TokenByAddress(TokensOf(t), a)
           isStable == IF listed # NoToken THEN listed.isStable ELSE FALSE
<1>1. ImportsSound(page.imports[t])
  BY DEF PageInv, ImportsInv
<1>2. /\ TokensOf(t) \in Seq(Token)
      /\ Seqs!ToSet(TokensOf(t)) = Seqs!ToSet(TOKEN_LIST) \cup Seqs!ToSet(page.imports[t])
  BY <1>1, TokensIs DEF TokensOf
<1>3. a # Native
  BY ContractsAssumption
<1>4. listed # NoToken => /\ listed \in Seqs!ToSet(TOKEN_LIST) \cup Seqs!ToSet(page.imports[t])
                          /\ listed \in Token /\ listed.address = a
  BY <1>2, ByAddressIs
<1>5. \A token \in Seqs!ToSet(page.imports[t]) : token.isStable = FALSE
  BY <1>1, AsImportedIs DEF ImportsSound, Seqs!ToSet, Metadata, TokenWith
<1>6. \A token \in Seqs!ToSet(TOKEN_LIST) : token.address = a => listed = token
  BY <1>3, AllListedWin DEF ListedTokensWin
<1>7. \A token \in Seqs!ToSet(TOKEN_LIST) : token \in Token /\ token # NoToken
  <2>1. \A token \in Seqs!ToSet(TOKEN_LIST) : token \in Token
    BY TokenListIs, ElementOfSeq, LenProperties DEF Seqs!ToSet
  <2> QED BY <2>1, TokensAssumption
<1> HIDE DEF listed
<1>8. isStable \in BOOLEAN
  BY <1>4 DEF Token
<1>9. CASE a \in Stable
  <2>1. PICK token \in Seqs!ToSet(TOKEN_LIST) : token.isStable /\ token.address = a
    BY <1>9 DEF Stable
  <2>2. listed = token /\ listed # NoToken
    BY <1>6, <1>7, <2>1
  <2> QED BY <1>8, <1>9, <2>1, <2>2 DEF listed
<1>10. CASE a \notin Stable
  <2>1. ~isStable
    <3> SUFFICES ASSUME isStable PROVE FALSE
      OBVIOUS
    <3>1. listed # NoToken /\ listed.isStable
      OBVIOUS
    <3>2. listed \in Seqs!ToSet(TOKEN_LIST) /\ listed.address = a
      BY <1>4, <1>5, <3>1
    <3> QED BY <1>10, <3>1, <3>2 DEF Stable
  <2> QED BY <1>8, <1>10, <2>1 DEF listed
<1> QED BY <1>9, <1>10

(* The rows of the table are pools of tokens of the page.                  *)
LEMMA RowsAreMarkets ==
  ASSUME PageInv, NEW t \in Tab
  PROVE  /\ Markets(Pools(t), Stable)
         /\ \A p \in Seqs!ToSet(Pools(t)) :
              p.token0.address \in DOMAIN Contracts /\ p.token1.address \in DOMAIN Contracts
<1>1. /\ TokensOf(t) \in Seq(Token)
      /\ \E n \in Nat : DOMAIN Pools(t) = 1 .. n
      /\ \A n \in DOMAIN Pools(t) : ShownRow(TokensOf(t), Pools(t)[n])
  BY PoolsAre
<1>2. ASSUME NEW a \in DOMAIN Contracts, NEW token, ShownAs(TokensOf(t), token, a)
      PROVE  Priceable(token, Stable) /\ token.address = a
  <2>1. PICK listed : listed = TokenByAddress(TokensOf(t), a)
    OBVIOUS
  <2>2. PICK isStable : isStable = IF listed # NoToken THEN listed.isStable ELSE FALSE
    OBVIOUS
  <2>3. isStable \in BOOLEAN /\ (isStable <=> a \in Stable)
    BY <2>1, <2>2, StableIs
  <2>4. /\ token.address = a /\ token.isStable = isStable
        /\ token.known => listed # NoToken /\ token.decimals = listed.decimals
        /\ ~token.known => token.decimals \in {Contracts[a].decimals, DEFAULT_DECIMALS}
    BY <1>2, <2>1, <2>2 DEF ShownAs
  <2>5. listed # NoToken => listed \in Token
    BY <1>1, <2>1, ByAddressIs
  <2>6. token.decimals \in Nat /\ a \in Nat
    BY <2>4, <2>5, ContractsAssumption, TokensAssumption DEF Token
  <2> QED BY <2>3, <2>4, <2>6 DEF Priceable
<1>3. ASSUME NEW n \in DOMAIN Pools(t)
      PROVE  /\ Market(Pools(t)[n], Stable)
             /\ Pools(t)[n].token0.address \in DOMAIN Contracts /\ Pools(t)[n].token1.address \in DOMAIN Contracts
  <2>1. PICK p : p = Pools(t)[n]
    OBVIOUS
  <2>2. PICK i \in 1 .. Len(Pairs) :
          /\ i = p.pair /\ Pairs[i].token0 \in DOMAIN Contracts /\ Pairs[i].token1 \in DOMAIN Contracts
          /\ Pairs[i].token0 # Pairs[i].token1
          /\ ShownAs(TokensOf(t), p.token0, Pairs[i].token0) /\ ShownAs(TokensOf(t), p.token1, Pairs[i].token1)
          /\ \E s \in States(i) : <<p.reserve0, p.reserve1>> = s.reserves
    BY <1>1, <2>1 DEF ShownRow
  <2>3. p.reserve0 \in Nat /\ p.reserve1 \in Nat
    <3>1. PICK s \in States(i) : <<p.reserve0, p.reserve1>> = s.reserves
      BY <2>2
    <3>2. s.reserves[1] \in Nat /\ s.reserves[2] \in Nat
      BY ReservesAre
    <3>3. p.reserve0 = s.reserves[1] /\ p.reserve1 = s.reserves[2]
      BY <3>1
    <3> QED BY <3>2, <3>3
  <2>4. /\ Priceable(p.token0, Stable) /\ p.token0.address = Pairs[i].token0
        /\ Priceable(p.token1, Stable) /\ p.token1.address = Pairs[i].token1
    BY <1>2, <2>2
  <2> QED BY <2>1, <2>2, <2>3, <2>4 DEF Market
<1>4. Stable \subseteq Nat
  <2>1. \A token \in Seqs!ToSet(TOKEN_LIST) : token \in Token
    BY TokenListIs, ElementOfSeq, LenProperties DEF Seqs!ToSet
  <2> QED BY <2>1 DEF Stable, Token
<1>5. \E T : Pools(t) \in Seq(T)
  <2> DEFINE e(i) == Row(TokensOf(t), UnknownTokens(t), Latest(page.cache[t].meta, UnknownTokens(t)),
                         KnownPairs(t), Details(t),
                         Without([j \in DOMAIN KnownPairs(t) |-> j],
                                 {j \in DOMAIN KnownPairs(t) : ~Answered(Details(t), j)})[i])
             D == DOMAIN Pools(t)
             T == {e(i) : i \in D}
  <2>1. Pools(t) = [i \in D |-> e(i)]
    BY DEF Pools, Rows
  <2> HIDE DEF e
  <2>2. Pools(t) \in [D -> T]
    BY <2>1
  <2>3. PICK n \in Nat : D = 1 .. n
    BY <1>1
  <2> HIDE DEF T, D
  <2>4. Pools(t) \in Seq(T)
    BY <2>2, <2>3
  <2> QED BY <2>4
<1> QED BY <1>3, <1>4, <1>5 DEF Markets, Seqs!ToSet

(* A pool has a value when either side has one.                            *)
LEMMA BothIs ==
  ASSUME NEW v \in Nat \cup {Unpriced}, NEW w \in Nat \cup {Unpriced}
  PROVE  Both(v, w) # Unpriced <=> v # Unpriced \/ w # Unpriced
<1>1. Unpriced \notin Nat
  BY AnswersAssumption
<1>2. CASE v \in Nat /\ w \in Nat
  <2>1. v + w \in Nat
    BY <1>2
  <2> QED BY <1>1, <1>2, <2>1 DEF Both
<1>3. CASE v \in Nat /\ w = Unpriced
  <2>1. 2 * v \in Nat
    BY <1>3
  <2> QED BY <1>1, <1>3, <2>1 DEF Both
<1>4. CASE v = Unpriced /\ w \in Nat
  <2>1. 2 * w \in Nat
    BY <1>4
  <2> QED BY <1>1, <1>4, <2>1 DEF Both
<1>5. CASE v = Unpriced /\ w = Unpriced
  BY <1>5 DEF Both
<1> QED BY <1>2, <1>3, <1>4, <1>5

(* The values of the pools table (valuation.ts:36-82).                     *)
LEMMA PricesReachStables == PageInv => PricedThroughStables
<1> SUFFICES ASSUME PageInv PROVE PricedThroughStables
  OBVIOUS
<1> SUFFICES ASSUME NEW t \in Tab
             PROVE  LET pools == {row \in Seqs!ToSet(Pools(t)) : row.reserve0 > 0 /\ row.reserve1 > 0}
                        joined(a, b) == \E row \in pools : {row.token0.address, row.token1.address} = {a, b}
                        near(a) == \/ a \in Stable
                                   \/ \E s \in Stable : joined(a, s)
                                   \/ \E s \in Stable, b \in DOMAIN Contracts : joined(a, b) /\ joined(b, s)
                    IN  \A row \in pools :
                          PoolTvl(Pools(t), row) # Unpriced <=> near(row.token0.address) \/ near(row.token1.address)
  BY DEF PricedThroughStables, Stable
<1> DEFINE pools == {row \in Seqs!ToSet(Pools(t)) : row.reserve0 > 0 /\ row.reserve1 > 0}
           joined(a, b) == \E row \in pools : {row.token0.address, row.token1.address} = {a, b}
           near(a) == \/ a \in Stable
                      \/ \E s \in Stable : joined(a, s)
                      \/ \E s \in Stable, b \in DOMAIN Contracts : joined(a, b) /\ joined(b, s)
<1>1. PICK list : list = Pools(t)
  OBVIOUS
<1>2. /\ Markets(list, Stable)
      /\ \A p \in Seqs!ToSet(list) : p.token0.address \in DOMAIN Contracts /\ p.token1.address \in DOMAIN Contracts
  BY <1>1, RowsAreMarkets
<1>3. \A a, b : joined(a, b) <=> Joined(list, a, b)
  BY <1>1 DEF Joined, Filled
<1>4. \A a, b : Joined(list, a, b) => b \in DOMAIN Contracts
  BY <1>2 DEF Joined
<1>5. DOMAIN Contracts \subseteq Nat
  BY ContractsAssumption
<1>6. \A a : near(a) <=> Near(list, Stable, a)
  <2> HIDE DEF joined
  <2> QED BY <1>3, <1>4, <1>5 DEF Near
<1>7. ASSUME NEW row \in pools
      PROVE  PoolTvl(Pools(t), row) # Unpriced <=> near(row.token0.address) \/ near(row.token1.address)
  <2> HIDE DEF near
  <2>1. /\ Market(row, Stable) /\ row.reserve0 > 0 /\ row.reserve1 > 0
    BY <1>1, <1>2 DEF Markets
  <2>2. /\ Priceable(row.token0, Stable) /\ Priceable(row.token1, Stable)
        /\ row.reserve0 \in Nat /\ row.reserve1 \in Nat
    BY <2>1 DEF Market
  <2>3. PICK v : v = ValueInStable(list, row.token0, row.reserve0)
    OBVIOUS
  <2>4. PICK w : w = ValueInStable(list, row.token1, row.reserve1)
    OBVIOUS
  <2>5. v \in Nat \cup {Unpriced} /\ (v # Unpriced <=> Near(list, Stable, row.token0.address))
    BY <1>2, <2>1, <2>2, <2>3, ValueIs
  <2>6. w \in Nat \cup {Unpriced} /\ (w # Unpriced <=> Near(list, Stable, row.token1.address))
    BY <1>2, <2>1, <2>2, <2>4, ValueIs
  <2>7. PoolTvl(Pools(t), row) = Both(v, w)
    BY <1>1, <2>3, <2>4 DEF PoolTvl, ValueOf
  <2> QED BY <1>6, <2>5, <2>6, <2>7, BothIs
<1> QED BY <1>7

-----------------------------------------------------------------------------
(* Tables, figures, positions and feeds.                                   *)

(* The decimals of every token on the page are its contract's, or the      *)
(* default of a token the list does not know; a row of the pool table      *)
(* names the tokens of the pair it links to and reserves and supplies that *)
(* pair has had, and has a value exactly when a listed stablecoin is       *)
(* within two pools of one of its tokens; a position's share, reserves and *)
(* supply are of its own pair; the totals of the landing page, read        *)
(* without a failure, are what all pairs hold, but for less than a unit    *)
(* for each pair that holds a stablecoin of more decimals than are shown;  *)
(* a price is what a pool would have paid for one whole token, and no      *)
(* less; and the recent trades are the newest of the pools that answered   *)
(* (tokens.ts, usePools.ts, valuation.ts, usePositions.ts,                 *)
(* useProtocolStats.ts, useRecentTrades.ts): no answer of a batch is shown *)
(* under another pair, and nothing is counted twice or left out.           *)
THEOREM PoolsAlwaysShownAsTheyAre == Spec => []PoolsAreShownAsTheyAre
<1>1. Init => PageInv /\ FeedInv
  BY InitPage, InitFeed
<1>2. PageInv /\ FeedInv /\ [Next]_vars => PageInv' /\ FeedInv'
  BY NextPage, NextFeed
<1>3. PageInv /\ FeedInv => PoolsAreShownAsTheyAre
  BY ScalesAre, RowsAreTheirPairs, PositionsAreOwn, PricesReachStables, FiguresAreLocked,
     PricesAreExecutable, FeedsAreNewest DEF PoolsAreShownAsTheyAre
<1> QED BY <1>1, <1>2, <1>3, PTL DEF Spec
=============================================================================
