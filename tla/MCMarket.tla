------------------------------ MODULE MCMarket ------------------------------
(* Three denominations (so that synthetic matches through a bridge exist),  *)
(* two accounts with two client order ids each, order sizes whose prices    *)
(* round in sdk.Dec at Scale 100 (2/3, 3/2) and one invalid size; the      *)
(* size 3 -> 1 (price 1/3) for the admission question.                     *)
EXTENDS Market

CONSTANTS a1, a2, c1, c2

MCAccounts == {a1, a2}
MCClientOrderIds == {c1, c2}
MCDenomSeq == <<"eeur", "ejpy", "eusd">>
MCDenomPair == <<"eeur", "eusd">>
MCOrderSizes == {<<0, 1>>, <<2, 1>>, <<2, 3>>, <<3, 5>>}
MCFillSizes == {<<2, 3>>, <<2, 1>>, <<4, 2>>, <<3, 5>>}
MCDustSizes == {<<3, 1>>}
MCComplementSizes == {<<3, 2>>, <<2, 3>>}
MCStarveSizes == {<<2, 1>>, <<2, 3>>}
MCSymmetry == Permutations(MCAccounts) \cup Permutations(MCClientOrderIds)
=============================================================================
