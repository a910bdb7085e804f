------------------------------ MODULE Activity ------------------------------
(***************************************************************************)
(* The activity list: state/activity.tsx over lib/storage.ts, as it is     *)
(* shown by components/ActivityMenu.tsx, in several tabs of one browser.   *)
(*                                                                         *)
(* A tab keeps the list in memory, writes it to the browser's storage      *)
(* whenever it changes, and reads it back only when it is opened; the last *)
(* tab to write wins.  A form hands the hash of a transaction to the list  *)
(* from the callback of the wallet's answer; the library runs that         *)
(* callback only while the form still holds the request, so leaving the    *)
(* page or resetting the form detaches it.                                 *)
(*                                                                         *)
(* What else the tabs hold is in `page', which module Browser gives its    *)
(* contents and composes with the actions here.                            *)
(***************************************************************************)
EXTENDS Lists, FiniteSets

CONSTANTS
  Tab, Account, Tx,
  MAX_ITEMS            \* 60

VARIABLES
  chain,               \* of each transaction: not asked for, asked of the wallet, refused,
                       \* pending, or how it ended
  asker,               \* of each asked transaction: [tab, account, attached]
  aged,                \* those sent more than STALE_AFTER_MS ago
  stored,              \* what is in the browser's storage
  broken,              \* storage that cannot be written
  mounting,            \* tabs that have read the storage but not rendered what they read
  open, account, all,  \* of each tab: open?, the connected account, the list
  watching,            \* of each tab: the hashes whose receipt it waits for
  left,                \* the bounds not yet used up
  opened, misread, kept, \* observers: tabs opened so far; transactions whose receipt some
                       \* request for failed; those recorded and not dropped by the user or
                       \* pushed out
  page                 \* the rest of the browser and the pools it reads

wallet == <<chain, asker, aged>>
observers == <<opened, misread, kept>>
activityVars == <<wallet, stored, broken, mounting, open, account, all, watching, left, observers>>

ASSUME ActivityAssumption == MAX_ITEMS \in Nat \ {0}

Uses(bound) == left[bound] > 0 /\ left' = [left EXCEPT ![bound] = @ - 1]

Unasked == [tab |-> "none", account |-> "none", attached |-> FALSE]

ActivityInit(o) ==
  /\ chain = [x \in Tx |-> "unsent"] /\ asker = [x \in Tx |-> Unasked] /\ aged = {}
  /\ stored = <<>>
  /\ broken = o.broken /\ account = [t \in Tab |-> o.account] /\ left = o.bounds
  /\ mounting = {} /\ open = [t \in Tab |-> FALSE]
  /\ all = [t \in Tab |-> <<>>] /\ watching = [t \in Tab |-> {}]
  /\ opened = {} /\ misread = {} /\ kept = {}

TxsOf(list) == {list[i].tx : i \in DOMAIN list}
IsStale(item) == item.status = "pending" /\ item.tx \in aged
Watchable(list) == {list[i].tx : i \in {j \in DOMAIN list : list[j].status = "pending"
                                                         /\ ~IsStale(list[j])}}
Newest(list) == SubSeq(list, 1, IF Len(list) < MAX_ITEMS THEN Len(list) ELSE MAX_ITEMS)

(* The list a tab shows is that of the connected account.                  *)
Items(t) == Without(all[t], {item \in Seqs!ToSet(all[t]) : item.account # account[t]})

(* setAll and the two effects it sets off: the watchers are chosen again,  *)
(* and the list is written; a write that fails is swallowed.               *)
SetAll(t, list) ==
  /\ all' = [all EXCEPT ![t] = list]
  /\ watching' = [watching EXCEPT ![t] = Watchable(list)]
  /\ stored' = IF broken THEN stored ELSE Newest(list)

-----------------------------------------------------------------------------
(* Tabs.                                                                   *)

Hydrated == stored

(* Variant: the effects write without having read.                         *)
FirstWriteUnguarded(old, initial) == IF broken THEN old ELSE initial

(* What the effects of the first render leave in the storage: they read,   *)
(* and write nothing of what the render began with.                        *)
FirstWrite(old, initial) == old

Mount(t) ==
  /\ ~open[t] /\ t \notin mounting /\ t \in left["tabs"]
  /\ mounting' = mounting \cup {t}
  /\ all' = [all EXCEPT ![t] = Hydrated]
  /\ stored' = FirstWrite(stored, <<>>)
  /\ UNCHANGED <<wallet, broken, open, account, watching, left, observers>>

(* The second render shows what was read, and its effects write it back.   *)
Open(t) ==
  /\ t \in mounting
  /\ mounting' = mounting \ {t}
  /\ open' = [open EXCEPT ![t] = TRUE]
  /\ SetAll(t, all[t])
  /\ opened' = opened \cup {t}
  /\ UNCHANGED <<wallet, broken, account, left, misread, kept>>

Detached(t) == [x \in Tx |-> IF asker[x].tab = t THEN [asker[x] EXCEPT !.attached = FALSE] ELSE asker[x]]

Close(t) ==
  /\ open[t] \/ t \in mounting
  /\ Uses("closes")
  /\ mounting' = mounting \ {t}
  /\ open' = [open EXCEPT ![t] = FALSE]
  /\ all' = [all EXCEPT ![t] = <<>>] /\ watching' = [watching EXCEPT ![t] = {}]
  /\ asker' = Detached(t)
  /\ UNCHANGED <<chain, aged, stored, broken, account, observers>>

SwitchAccount(t, a) ==
  /\ open[t] /\ a # account[t] /\ Uses("switches")
  /\ account' = [account EXCEPT ![t] = a]
  /\ UNCHANGED <<wallet, stored, broken, mounting, open, all, watching, observers, page>>

-----------------------------------------------------------------------------
(* A form asks, the wallet answers.                                        *)

Ask(t, x) ==
  /\ open[t] /\ chain[x] = "unsent" /\ x \in left["txs"]
  /\ chain' = [chain EXCEPT ![x] = "asked"]
  /\ asker' = [asker EXCEPT ![x] = [tab |-> t, account |-> account[t], attached |-> TRUE]]
  /\ UNCHANGED <<aged, stored, broken, mounting, open, account, all, watching, left, observers, page>>

LeaveForm(t) ==
  /\ open[t] /\ Uses("leaves")
  /\ asker' = Detached(t)
  /\ UNCHANGED <<chain, aged, stored, broken, mounting, open, account, all, watching, observers, page>>

WalletRefuses(x) ==
  /\ chain[x] = "asked"
  /\ chain' = [chain EXCEPT ![x] = "refused"]
  /\ UNCHANGED <<asker, aged, stored, broken, mounting, open, account, all, watching, left, observers, page>>

(* Variant: the account connected when the wallet answers.                 *)
ConnectedAccount(x) == account[asker[x].tab]

(* track(): with the account the form was rendered for, newest first.      *)
RecordedAccount(x) == asker[x].account

Tracked(x) ==
  LET list == all[asker[x].tab]
      item == [tx |-> x, account |-> RecordedAccount(x), status |-> "pending"]
  IN  IF x \in TxsOf(list) THEN list ELSE Newest(<<item>> \o list)

WalletSends(x) ==
  /\ chain[x] = "asked"
  /\ chain' = [chain EXCEPT ![x] = "pending"]
  /\ LET t == asker[x].tab
     IN  IF asker[x].attached
         THEN SetAll(t, Tracked(x)) /\ kept' = (kept \cup {x}) \ (TxsOf(all[t]) \ TxsOf(Tracked(x)))
         ELSE UNCHANGED <<all, watching, stored, kept>>
  /\ UNCHANGED <<asker, aged, broken, mounting, open, account, left, opened, misread, page>>

-----------------------------------------------------------------------------
(* The chain: a transaction is executed or reverts, or is replaced by      *)
(* another of the same nonce, which is executed or reverts in its place;   *)
(* one that is dropped stays pending.                                      *)

Ended == {"mined", "reverted", "replaced", "replacedReverted"}

Ends(x) ==
  /\ chain[x] = "pending"
  /\ \E end \in left["ends"] : chain' = [chain EXCEPT ![x] = end]
  /\ UNCHANGED <<asker, aged, stored, broken, mounting, open, account, all, watching, left, observers, page>>

Ages(x) ==
  /\ chain[x] \notin {"unsent", "asked", "refused"} /\ x \notin aged
  /\ Uses("ages")
  /\ aged' = aged \cup {x}
  /\ UNCHANGED <<chain, asker, stored, broken, mounting, open, account, all, watching, observers, page>>

-----------------------------------------------------------------------------
(* A watcher's answer: the receipt, of the transaction or of the one that  *)
(* replaced it; or an error.                                               *)

Settled(list, x, status) ==
  [i \in DOMAIN list |-> IF list[i].tx = x THEN [list[i] EXCEPT !.status = status] ELSE list[i]]

Verdict(x) == IF chain[x] \in {"reverted", "replacedReverted"} THEN "failed" ELSE "confirmed"

Landed(x) == chain[x] \in Ended

NoticeReceipt(t, x) ==
  /\ x \in watching[t] /\ Landed(x)
  /\ SetAll(t, Settled(all[t], x, Verdict(x)))
  /\ UNCHANGED <<wallet, broken, mounting, open, account, left, observers, page>>

NoticeError(t, x) ==
  /\ x \in watching[t] /\ Uses("errors")
  /\ SetAll(t, Settled(all[t], x, "failed"))
  /\ misread' = misread \cup {x}
  /\ UNCHANGED <<wallet, broken, mounting, open, account, opened, kept, page>>

-----------------------------------------------------------------------------
(* The menu, which shows the items of the connected account.               *)

Dismiss(t, x) ==
  /\ open[t] /\ x \in TxsOf(Items(t))
  /\ SetAll(t, Without(all[t], {item \in Seqs!ToSet(all[t]) : item.tx = x}))
  /\ kept' = kept \ {x}
  /\ UNCHANGED <<wallet, broken, mounting, open, account, left, opened, misread, page>>

(* Variant: pending ones cleared too.                                      *)
ClearKeepsNothing(item) == FALSE

(* Clear history drops what is settled or stale, of every account.         *)
ClearKeeps(item) == item.status = "pending" /\ ~IsStale(item)

Clear(t) ==
  /\ open[t] /\ \E i \in DOMAIN Items(t) : Items(t)[i].status # "pending" \/ IsStale(Items(t)[i])
  /\ LET list == Without(all[t], {item \in Seqs!ToSet(all[t]) : ~ClearKeeps(item)})
     IN  SetAll(t, list) /\ kept' = kept \ (TxsOf(all[t]) \ TxsOf(list))
  /\ UNCHANGED <<wallet, broken, mounting, open, account, left, opened, misread, page>>

-----------------------------------------------------------------------------
(* Every step but mounting, opening and closing a tab, which Browser       *)
(* completes.                                                              *)
ActivityNext ==
  \/ \E t \in Tab :
       \/ LeaveForm(t) \/ Clear(t)
       \/ \E a \in Account : SwitchAccount(t, a)
       \/ \E x \in Tx : Ask(t, x) \/ NoticeReceipt(t, x) \/ NoticeError(t, x) \/ Dismiss(t, x)
  \/ \E x \in Tx : WalletRefuses(x) \/ WalletSends(x) \/ Ends(x) \/ Ages(x)

-----------------------------------------------------------------------------
Item == [tx : Tx, account : Account, status : {"pending", "confirmed", "failed"}]

(* Types, with no transaction listed twice.                                *)
ActivityTypeOK ==
  /\ chain \in [Tx -> {"unsent", "asked", "refused", "pending"} \cup Ended]
  /\ \A t \in Tab : /\ all[t] \in Seqs!BoundedSeq(Item, MAX_ITEMS)
                    /\ Cardinality(TxsOf(all[t])) = Len(all[t])
                    /\ watching[t] \subseteq TxsOf(all[t])
  /\ stored \in Seqs!BoundedSeq(Item, MAX_ITEMS)

(* What a list says of a transaction is what became of it, through every   *)
(* reload and whichever tab wrote last: one shown as confirmed was         *)
(* executed, or what replaced it was; one shown as failed reverted, or what*)
(* replaced it did, unless a request for its receipt failed.               *)
VerdictIsTrue ==
  \A list \in {stored} \cup {all[t] : t \in Tab} : \A i \in DOMAIN list :
    /\ list[i].status = "confirmed" => chain[list[i].tx] \in {"mined", "replaced"}
    /\ list[i].status = "failed" => \/ chain[list[i].tx] \in {"reverted", "replacedReverted"}
                                     \/ list[i].tx \in misread

(* The list is per wallet: a transaction is listed for the account that    *)
(* was asked to send it, even when the user switched accounts while the    *)
(* wallet was open.                                                        *)
ListedForItsSender ==
  \A t \in Tab : \A i \in DOMAIN all[t] : all[t][i].account = asker[all[t][i].tx].account

(* A transaction is watched until it lands: as long as a tab lists it as   *)
(* pending, and it is not stale, the tab waits for its receipt, also while *)
(* another account is connected; from the render on that lists it.         *)
PendingIsWatched ==
  \A t \in Tab \ mounting : Watchable(all[t]) \subseteq watching[t]

(* In a browser with one tab and a working storage nothing recorded is     *)
(* lost: it stays in the storage, and in the list while the tab is open,   *)
(* until the user drops it or sixty newer ones push it out.                *)
AloneNothingIsLost ==
  Cardinality(opened) = 1 /\ ~broken =>
    /\ TxsOf(stored) = kept
    /\ \A t \in Tab : open[t] => TxsOf(all[t]) = kept

(* Dismissing is the only way to lose sight of a transaction that is still *)
(* pending, short of a full list: neither Clear history nor a receipt of   *)
(* another takes it off the list of an open tab.                           *)
PendingLeavesOnlyIfDismissed ==
  [][\A t \in Tab, x \in Tx :
       open[t] /\ open'[t] /\ x \in Watchable(all[t]) /\ x \notin TxsOf(all'[t])
       => \/ x \in TxsOf(Items(t)) /\ TxsOf(all'[t]) = TxsOf(all[t]) \ {x}
          \/ Len(all[t]) = MAX_ITEMS /\ TxsOf(all'[t]) \ TxsOf(all[t]) # {}]_activityVars

(* No transaction that ended is shown as pending for ever: again and again *)
(* every open list is up to date.                                          *)
EventuallySettled ==
  []<>(\A t \in Tab : open[t] => \A x \in Watchable(all[t]) : chain[x] \notin Ended)
=============================================================================
