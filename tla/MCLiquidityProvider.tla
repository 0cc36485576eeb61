------------------------- MODULE MCLiquidityProvider -------------------------
(* One provider candidate, the module account (blocked, so a mint for it  *)
(* panics) and an address without an account; two denominations; a credit  *)
(* of 2 eeur or of 1 eeur and 1 ejpy; mint requests that fit, that exceed   *)
(* the credit, that name a denomination outside it, and an invalid one.     *)
EXTENDS LiquidityProvider, TLC

CONSTANTS lp1, lpmodule, nobody

MCAddresses == {lp1, lpmodule, nobody}
MCExisting == {lp1, lpmodule}
MCCredits == {("eeur" :> 2), ("eeur" :> 1) @@ ("ejpy" :> 1)}
MCMintRequests == {("eeur" :> 1), ("eeur" :> 3), ("ejpy" :> 1), ("eeur" :> 0)}
=============================================================================
