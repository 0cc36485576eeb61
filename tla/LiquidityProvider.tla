-------------------------- MODULE LiquidityProvider --------------------------
(***************************************************************************)
(* The liquidity provider keeper of x/liquidityprovider/keeper/keeper.go   *)
(* and the MsgMintTokens check of x/liquidityprovider/types/msgs.go.       *)
(*                                                                         *)
(* A LiquidityProviderAccount wraps an account and carries a credit (the   *)
(* coins it may still mint).  CreateLiquidityProvider wraps whatever       *)
(* account the account keeper returns, so wrapping repeats: an account is  *)
(* modelled as a stack of credit layers, <<>> for a base account, the last *)
(* layer being the outermost wrapper that GetLiquidityProviderAccount      *)
(* returns.  MintTokensFromCredit subtracts from the credit, mints into    *)
(* the module account, sends to the provider, re-reads the account and     *)
(* stores the new credit; a panic in between is rolled back with the whole *)
(* transaction (the SDK runs every message in a cached store).             *)
(* Coins are functions from a set of denominations to amounts, the absent  *)
(* denominations counting zero.                                            *)
(***************************************************************************)
EXTENDS Integers, Sequences, FiniteSets, FiniteSetsExt

CONSTANTS
    Addresses,     \* account addresses, the module account's included
    LPModule,      \* the address of the liquidityprovider module account
    Blocked,       \* addresses the bank refuses to pay (module accounts)
    Existing,      \* addresses that have an account
    Denoms,        \* denominations
    Credits,       \* credits an issuer grants (Coins)
    MintRequests,  \* amounts of MsgMintTokens (Coins, invalid ones included)
    MaxLayers,     \* bound on the nesting of LiquidityProviderAccounts
    MaxGranted     \* bound on the credit ever granted to one address, per denom

ASSUME /\ LPModule \in Blocked /\ Blocked \subseteq Existing /\ Existing \subseteq Addresses
       /\ MaxLayers \in Nat \ {0} /\ MaxGranted \in Nat

VARIABLES
    layers,      \* address -> the credits of its LP wrappers, innermost first
    balances,    \* bank balances: address -> denom -> amount
    supply,      \* total supply: denom -> amount
    granted,     \* history: credit granted to the address, per denom
    minted,      \* history: coins minted to the address, per denom
    revoked,     \* history: credit dropped by revocation, per denom
    lastResult   \* result of the last operation

vars == <<layers, balances, supply, granted, minted, revoked, lastResult>>

-----------------------------------------------------------------------------
(* Coins                                                                   *)

\* The amount of a denomination in coins c (zero when absent).
AmountOf(c, d) == IF d \in DOMAIN c THEN c[d] ELSE 0

\* Coins.IsValid: every listed amount is positive.
CoinsIsValid(c) == \A d \in DOMAIN c : c[d] > 0

\* Fault model of SafeSub: the difference without the negativity flag.
SafeSubNoNegCheck(a, b) ==
    LET diff == [d \in DOMAIN a \cup DOMAIN b |-> AmountOf(a, d) - AmountOf(b, d)]
    IN  <<[d \in {e \in DOMAIN diff : diff[e] # 0} |-> diff[d]], FALSE>>

\* Coins.SafeSub: the difference over both denominations, zero entries
\* dropped, and whether any amount went negative.
SafeSub(a, b) ==
    LET diff == [d \in DOMAIN a \cup DOMAIN b |-> AmountOf(a, d) - AmountOf(b, d)]
        keep == {d \in DOMAIN diff : diff[d] # 0}
    IN  <<[d \in keep |-> diff[d]], \E d \in DOMAIN diff : diff[d] < 0>>

\* Adding coins to a per-denom tally.
AddTo(tally, c) == [d \in Denoms |-> tally[d] + AmountOf(c, d)]

-----------------------------------------------------------------------------
(* Keeper                                                                  *)

\* GetLiquidityProviderAccount: the outermost wrapper, if the account is one.
IsLP(a) == layers[a] # <<>>

Credit(a) == layers[a][Len(layers[a])]

\* Fault model of GetAccount: every address taken to have an account.
GetAccountAny(a) == TRUE

\* authKeeper.GetAccount(ctx, address) != nil
GetAccount(a) == a \in Existing

Init ==
    /\ layers     = [a \in Addresses |-> <<>>]
    /\ balances   = [a \in Addresses |-> [d \in Denoms |-> 0]]
    /\ supply     = [d \in Denoms |-> 0]
    /\ granted    = [a \in Addresses |-> [d \in Denoms |-> 0]]
    /\ minted     = [a \in Addresses |-> [d \in Denoms |-> 0]]
    /\ revoked    = [a \in Addresses |-> [d \in Denoms |-> 0]]
    /\ lastResult = "none"

\* CreateLiquidityProvider: nothing for an unknown address; otherwise the
\* account found, LP or not, is wrapped with the credit.
CreateLiquidityProvider(a, credit) ==
    /\ \/ /\ ~GetAccount(a)
          /\ lastResult' = "AccountNotFound"
          /\ UNCHANGED <<layers, granted>>
       \/ /\ GetAccount(a)
          /\ Len(layers[a]) < MaxLayers
          /\ \A d \in Denoms : granted[a][d] + AmountOf(credit, d) <= MaxGranted
          /\ layers' = [layers EXCEPT ![a] = Append(@, credit)]
          /\ granted' = [granted EXCEPT ![a] = AddTo(@, credit)]
          /\ lastResult' = "ok"
    /\ UNCHANGED <<balances, supply, minted, revoked>>

\* MsgMintTokens.ValidateBasic (the address is never empty here).
ValidateMintTokens(amount) == IF CoinsIsValid(amount) THEN "ok" ELSE "ErrInvalidCoins"

\* MintCoins then SendCoinsFromModuleToAccount: the module account receives
\* the minted coins and passes them on to the provider.
MintAndSend(bal, a, amount) ==
    LET minted1 == [bal EXCEPT ![LPModule] = AddTo(@, amount)]
    IN  [minted1 EXCEPT ![LPModule] = [d \in Denoms |-> @[d] - AmountOf(amount, d)],
                        ![a]        = AddTo(@, amount)]

\* Fault model of OnSendError: the error returned instead of panicking, the
\* minted coins left in the module account.
OnSendErrorReturn(a, amount) ==
    /\ supply' = AddTo(supply, amount)
    /\ balances' = [balances EXCEPT ![LPModule] = AddTo(@, amount)]
    /\ lastResult' = "error"
    /\ UNCHANGED <<layers, minted>>

\* SendCoinsFromModuleToAccount fails: the keeper panics and the
\* transaction's store, with the minted coins, is discarded.
OnSendError(a, amount) ==
    /\ lastResult' = "panic"
    /\ UNCHANGED <<layers, balances, supply, minted>>

\* Fault model of SetCredit: the credit stored on the innermost wrapper.
SetCreditInner(lay, a, c) == [lay EXCEPT ![a][1] = c]

\* The re-read account gets the new credit and is stored.
SetCredit(lay, a, c) == [lay EXCEPT ![a][Len(lay[a])] = c]

\* MintTokensFromCredit, reached by a MsgMintTokens that passes ValidateBasic.
MintTokens(a, amount) ==
    LET sub == SafeSub(Credit(a), amount) IN
    /\ \/ /\ ValidateMintTokens(amount) # "ok"
          /\ lastResult' = ValidateMintTokens(amount)
          /\ UNCHANGED <<layers, balances, supply, minted>>
       \/ /\ ValidateMintTokens(amount) = "ok"
          /\ ~IsLP(a)
          /\ lastResult' = "NotLiquidityProvider"
          /\ UNCHANGED <<layers, balances, supply, minted>>
       \/ /\ ValidateMintTokens(amount) = "ok"
          /\ IsLP(a)
          /\ sub[2]
          /\ lastResult' = "InsufficientCredit"
          /\ UNCHANGED <<layers, balances, supply, minted>>
       \/ /\ ValidateMintTokens(amount) = "ok"
          /\ IsLP(a) /\ ~sub[2]
          /\ a \in Blocked
          /\ OnSendError(a, amount)
       \/ /\ ValidateMintTokens(amount) = "ok"
          /\ IsLP(a) /\ ~sub[2]
          /\ a \notin Blocked
          /\ supply' = AddTo(supply, amount)
          /\ balances' = MintAndSend(balances, a, amount)
          /\ layers' = SetCredit(layers, a, sub[1])
          /\ minted' = [minted EXCEPT ![a] = AddTo(@, amount)]
          /\ lastResult' = "ok"
    /\ UNCHANGED <<granted, revoked>>

\* RevokeLiquidityProviderAccount: an LP account is replaced by the account
\* it wraps; any other account is left alone.
RevokeLiquidityProviderAccount(a) ==
    /\ \/ /\ IsLP(a)
          /\ layers' = [layers EXCEPT ![a] = SubSeq(@, 1, Len(@) - 1)]
          /\ revoked' = [revoked EXCEPT ![a] = AddTo(@, Credit(a))]
          /\ lastResult' = "true"
       \/ /\ ~IsLP(a)
          /\ lastResult' = "false"
          /\ UNCHANGED <<layers, revoked>>
    /\ UNCHANGED <<balances, supply, granted, minted>>

Next ==
    \/ \E a \in Addresses, c \in Credits : CreateLiquidityProvider(a, c)
    \/ \E a \in Addresses, m \in MintRequests : MintTokens(a, m)
    \/ \E a \in Addresses : RevokeLiquidityProviderAccount(a)

Spec == Init /\ [][Next]_vars

-----------------------------------------------------------------------------
(* Properties                                                              *)

IsCoins(c) == DOMAIN c \subseteq Denoms /\ \A d \in DOMAIN c : c[d] \in Int

TypeOK ==
    /\ \A a \in Addresses :
          /\ Len(layers[a]) <= MaxLayers
          /\ \A i \in DOMAIN layers[a] : IsCoins(layers[a][i])
          /\ a \notin Existing => layers[a] = <<>>
    /\ balances \in [Addresses -> [Denoms -> Int]]
    /\ supply \in [Denoms -> Nat]

\* Every minted coin reaches a provider: the supply of each denomination is
\* held by accounts other than the module account, through mints that end
\* in a panic rolled back as a whole (MintTokensFromCredit, lines 53-61).
MintedCoinsDelivered ==
    \A d \in Denoms :
        /\ balances[LPModule][d] = 0
        /\ supply[d] = MapThenSumSet(LAMBDA a : balances[a][d], Addresses \ {LPModule})

\* Credit accounting across nested wrappers, mints and revocations: what an
\* address was granted is its credit still held in its wrappers, plus what
\* it minted, plus what revocation took away.
CreditAccounting ==
    \A a \in Addresses, d \in Denoms :
        MapThenSumSet(LAMBDA i : AmountOf(layers[a][i], d), DOMAIN layers[a])
            + minted[a][d] + revoked[a][d] = granted[a][d]

\* A provider never mints beyond the credit it was granted: the SafeSub
\* check of MintTokensFromCredit (lines 46-51) holds across any sequence of
\* mints against a credit that shrinks.
MintedWithinGrant ==
    \A a \in Addresses, d \in Denoms : minted[a][d] <= granted[a][d]

\* TestCreateAndRevoke: after RevokeLiquidityProviderAccount the account is
\* a base account again, no longer a liquidity provider.
RevokeLeavesBaseAccount ==
    [][\A a \in Addresses : Len(layers'[a]) < Len(layers[a]) => layers'[a] = <<>>]_vars

=============================================================================
