--------------------------- MODULE MCSlashingParams ---------------------------
(* Durations in ticks of 10 microseconds (100 ticks = 1 ms): negative,     *)
(* zero, one tick and 99 ticks (below a millisecond), one millisecond and   *)
(* 3.6 s.  Decs at Scale 100: negative, zero, a hundredth, half, one, and   *)
(* just above one.                                                          *)
EXTENDS SlashingParams

MCDurationValues == {-100, 0, 1, 99, 100, 360000}
MCDecValues == {-1, 0, 1, 50, 100, 101}
=============================================================================
