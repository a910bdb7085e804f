------------------------------- MODULE Lists --------------------------------
(***************************************************************************)
(* Array.filter and Array.find of the web application, in a form that is   *)
(* both evaluated and proved about.                                        *)
(***************************************************************************)
EXTENDS Naturals, Sequences

Seqs == INSTANCE SequencesExt

(* The items of s that are not in S, in their order.                       *)
Without(s, S) ==
  LET kept[i \in 0 .. Len(s)] ==
        IF i = 0 THEN <<>>
        ELSE IF s[i] \in S THEN kept[i - 1] ELSE Append(kept[i - 1], s[i])
  IN  kept[Len(s)]

(* The first item of s that is in S, or `none'.                            *)
FirstIn(s, S, none) ==
  LET at == {i \in DOMAIN s : s[i] \in S}
  IN  IF at = {} THEN none ELSE s[CHOOSE i \in at : \A j \in at : i <= j]
=============================================================================
