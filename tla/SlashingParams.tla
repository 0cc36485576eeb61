--------------------------- MODULE SlashingParams ---------------------------
(***************************************************************************)
(* The slashing module's parameters, x/slashing/types/params.go: the       *)
(* defaults stored at genesis and the validator ParamSetPairs attaches to  *)
(* every key, which the parameter store runs on each change a governance   *)
(* parameter-change proposal makes.  A change is one key and a value of    *)
(* the key's type (the store unmarshals into that type before validating,  *)
(* so the "invalid parameter type" branches are not reachable from it).    *)
(*                                                                         *)
(* Durations are counted in ticks of TickNs nanoseconds, fine enough to    *)
(* tell a duration under a millisecond from one above it and coarse enough *)
(* for an hour to fit TLC's integers; Decs come from SdkDec.               *)
(***************************************************************************)
EXTENDS SdkDec

CONSTANTS
    TickNs,          \* nanoseconds per duration tick (divides 10^6)
    DurationValues,  \* durations (in ticks) that proposals carry
    DecValues        \* Dec values that proposals carry

ASSUME TickNs \in Nat \ {0} /\ 1000000 % TickNs = 0

DurationKeys == {"SignedBlocksWindowDuration", "DowntimeJailDuration"}
DecKeys == {"MinSignedPerWindow", "SlashFractionDoubleSign", "SlashFractionDowntime"}

VARIABLES
    params,      \* the stored Params
    lastChange,  \* the key and value of the last change
    lastResult   \* result of the last change

vars == <<params, lastChange, lastResult>>

\* time.Duration.Milliseconds, truncating.
Milliseconds(v) == QuoTrunc(v, 1000000 \div TickNs)

\* NewParams
NewParams(window, minSigned, jail, doubleSign, downtime) ==
    [ SignedBlocksWindowDuration |-> window, MinSignedPerWindow |-> minSigned,
      DowntimeJailDuration |-> jail, SlashFractionDoubleSign |-> doubleSign,
      SlashFractionDowntime |-> downtime ]

\* DefaultParams: a one-hour window and jail, half the window signed,
\* 1/20 and 1/100 slashed.
DefaultParams ==
    LET hour == 3600 * (1000000000 \div TickNs) IN
    NewParams(hour, 5 * (Scale \div 10), hour,
              DecQuo(ToDec(1), ToDec(20)), DecQuo(ToDec(1), ToDec(100)))

validateSignedBlocksWindowDuration(v) ==
    IF Milliseconds(v) <= 0 THEN "signed blocks window duration must be positive" ELSE "ok"

validateMinSignedPerWindow(v) ==
    CASE v < 0   -> "min signed per window cannot be negative"
      [] v > ONE -> "min signed per window too large"
      [] OTHER   -> "ok"

validateDowntimeJailDuration(v) ==
    IF v <= 0 THEN "downtime jail duration must be positive" ELSE "ok"

validateSlashFractionDoubleSign(v) ==
    CASE v < 0   -> "double sign slash fraction cannot be negative"
      [] v > ONE -> "double sign slash fraction too large"
      [] OTHER   -> "ok"

validateSlashFractionDowntime(v) ==
    CASE v < 0   -> "downtime slash fraction cannot be negative"
      [] v > ONE -> "downtime slash fraction too large"
      [] OTHER   -> "ok"

\* ParamSetPairs: the validator of each key.
ParamSetPairs(key, v) ==
    CASE key = "SignedBlocksWindowDuration" -> validateSignedBlocksWindowDuration(v)
      [] key = "MinSignedPerWindow"         -> validateMinSignedPerWindow(v)
      [] key = "DowntimeJailDuration"       -> validateDowntimeJailDuration(v)
      [] key = "SlashFractionDoubleSign"    -> validateSlashFractionDoubleSign(v)
      [] key = "SlashFractionDowntime"      -> validateSlashFractionDowntime(v)

Init ==
    /\ params = DefaultParams
    /\ lastChange = <<"none", 0>>
    /\ lastResult = "none"

\* One change of a parameter-change proposal: stored if the key's
\* validator accepts the value, refused otherwise.
UpdateParam(key, v) ==
    /\ lastChange' = <<key, v>>
    /\ lastResult' = ParamSetPairs(key, v)
    /\ params' = IF ParamSetPairs(key, v) = "ok" THEN [params EXCEPT ![key] = v] ELSE params

Next ==
    \/ \E key \in DurationKeys, v \in DurationValues : UpdateParam(key, v)
    \/ \E key \in DecKeys, v \in DecValues : UpdateParam(key, v)

Spec == Init /\ [][Next]_vars

-----------------------------------------------------------------------------
(* Properties                                                              *)

\* The ranges the validators' messages state: durations positive,
\* fractions between zero and one.
DurationInRange(v) == v > 0
FractionInRange(v) == 0 <= v /\ v <= ONE

\* A change is refused only for a value outside the range its validator's
\* message states: a duration that is not positive, a fraction outside
\* [0, 1].
RefusedOnlyOutOfRange ==
    lastResult \notin {"ok", "none"} =>
        IF lastChange[1] \in DurationKeys THEN ~DurationInRange(lastChange[2])
                                         ELSE ~FractionInRange(lastChange[2])

=============================================================================
