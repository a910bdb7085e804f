----------------------------- MODULE TokenList ------------------------------
(***************************************************************************)
(* The tokens a form may hold: the deployment manifest's, followed by      *)
(* those the user imported by address (packages/config/index.ts, the web   *)
(* application's config/tokens.ts and state/tokens.tsx), and the names     *)
(* under which links carry them.                                           *)
(*                                                                         *)
(* An address is a natural number; Native stands for having none, which is *)
(* how native KASH differs from WKASH.  A symbol is a string, in lower     *)
(* case already.  Names, warnings and badges are left out.                 *)
(***************************************************************************)
EXTENDS Lists, FiniteSets

CONSTANTS
  Native, Wkash, Symbol,
  Deployed,            \* the manifest's tokens, in its order
  DEFAULT_DECIMALS,    \* 18: of KASH and WKASH, and what an unreadable token is given
  MAX_DECIMALS,        \* 36: the most an import kept in the storage may have
  NoToken

TokenWith(address, symbol, decimals, isStable, isImported) ==
  [address |-> address, symbol |-> symbol, decimals |-> decimals, isStable |-> isStable,
   isImported |-> isImported]

Token ==
  [address : Nat, symbol : Symbol, decimals : Nat, isStable : BOOLEAN, isImported : BOOLEAN]

KASH == TokenWith(Native, "kash", DEFAULT_DECIMALS, FALSE, FALSE)
WKASH == TokenWith(Wkash, "wkash", DEFAULT_DECIMALS, FALSE, FALSE)
TOKEN_LIST == <<KASH, WKASH>> \o Deployed

(* The manifest is reviewed: its tokens differ from KASH and WKASH and from*)
(* each other, in address and in symbol, and mUSDC is one of them.         *)
ASSUME TokensAssumption ==
  /\ Native \in Nat /\ Wkash \in Nat \ {Native} /\ DEFAULT_DECIMALS \in Nat
  /\ {"kash", "wkash"} \subseteq Symbol
  /\ NoToken \notin Token
  /\ Deployed \in Seq(Token)
  /\ \A i \in DOMAIN Deployed :
       /\ Deployed[i].address \notin {Native, Wkash} /\ Deployed[i].symbol \notin {"kash", "wkash"}
       /\ ~Deployed[i].isImported
       /\ \A j \in DOMAIN Deployed :
            \/ Deployed[i].address = Deployed[j].address
            \/ Deployed[i].symbol = Deployed[j].symbol
            => i = j
  /\ \E i \in DOMAIN Deployed : Deployed[i].symbol = "musdc"

SameToken(a, b) == a.address = b.address

TokenByAddress(list, address) ==
  FirstIn(list, {t \in Seqs!ToSet(list) : t.address = address /\ address # Native}, NoToken)

TokenBySymbol(list, symbol) ==
  FirstIn(list, {t \in Seqs!ToSet(list) : t.symbol = symbol}, NoToken)

(* The token the form starts with on its other side, or KASH.              *)
MUSDC == LET named == TokenBySymbol(TOKEN_LIST, "musdc")
         IN  IF named = NoToken THEN KASH ELSE named

-----------------------------------------------------------------------------
(* Links.  A parameter of a link is absent, an address or a symbol.        *)

Absent == [by |-> "nothing"]
ByAddress(address) == [by |-> "address", address |-> address]
BySymbol(symbol) == [by |-> "symbol", symbol |-> symbol]

ResolveToken(list, id) ==
  IF id.by = "nothing" THEN NoToken
  ELSE IF id.by = "address" THEN TokenByAddress(list, id.address)
  ELSE TokenBySymbol(list, id.symbol)

TokenParam(token) ==
  IF token.isImported THEN ByAddress(token.address) ELSE BySymbol(token.symbol)

(* A row of the pools table; `known' are the listed and the imported.      *)
LinkParam(poolToken) ==
  IF poolToken.address = Wkash THEN TokenParam(KASH)
  ELSE IF poolToken.known THEN BySymbol(poolToken.symbol) ELSE ByAddress(poolToken.address)

(* Variant: each side of the link compared with what the form shows now.   *)
SwapSideBySide(list, form, link) ==
  LET in == ResolveToken(list, link[1])
      out == ResolveToken(list, link[2])
  IN  << IF in # NoToken /\ ~SameToken(in, form[2]) THEN in ELSE form[1],
         IF out # NoToken /\ ~SameToken(out, form[1]) THEN out ELSE form[2] >>

(* Of both tokens of a form after a link was opened: on the page of swaps  *)
(* each side is set unless that would put one token on both sides.         *)
SwapFromLink(list, form, link) ==
  LET in == ResolveToken(list, link[1])
      out == ResolveToken(list, link[2])
      nextIn == IF in = NoToken THEN form[1] ELSE in
      nextOut == IF out = NoToken THEN form[2] ELSE out
  IN  << IF in # NoToken /\ ~SameToken(in, nextOut) THEN in ELSE form[1],
         IF out # NoToken /\ ~SameToken(out, nextIn) THEN out ELSE form[2] >>

(* On the page of pools both sides are set, or neither.                    *)
PoolFromLink(list, form, link) ==
  LET a == ResolveToken(list, link[1])
      b == ResolveToken(list, link[2])
  IN  IF a # NoToken /\ b # NoToken /\ ~SameToken(a, b) THEN <<a, b>> ELSE form

-----------------------------------------------------------------------------
(* Imports.  An entry of the storage is a token with isImported; another   *)
(* version, or the user, may have put entries there that are not valid.    *)

Valid(entry) == entry.decimals <= MAX_DECIMALS

Clean(raw) ==
  Without(raw, {s \in Seqs!ToSet(raw) :
                  ~Valid(s) \/ TokenByAddress(TOKEN_LIST, s.address) # NoToken})

Tokens(imports) == TOKEN_LIST \o imports

Imported(imports, token) ==
  IF \/ TokenByAddress(TOKEN_LIST, token.address) # NoToken
     \/ TokenByAddress(imports, token.address) # NoToken
  THEN imports ELSE Append(imports, token)

Removed(imports, address) ==
  Without(imports, {t \in Seqs!ToSet(imports) : t.address = address})

(* What the picker offers: every token of the list but the one on the      *)
(* other side; for a pasted address that no list has, an import, whatever  *)
(* is on the other side.                                                   *)
Offered(list, exclude) == {t \in Seqs!ToSet(list) : ~SameToken(t, exclude)}
Importable(list, address) == TokenByAddress(list, address) = NoToken

(* The token of a pool as the positions list hands it to the form.         *)
AsToken(list, poolToken) ==
  LET listed == TokenByAddress(list, poolToken.address)
  IN  IF poolToken.address = Wkash THEN KASH
      ELSE IF listed # NoToken THEN listed
      ELSE TokenWith(poolToken.address, poolToken.symbol, poolToken.decimals, FALSE, TRUE)
=============================================================================
