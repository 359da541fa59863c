--------------------------- MODULE MCRandomMetrics ---------------------------
(* The request bounds 1 .. 10 are the code's; the time bounds             *)
(* (1'000'00 .. 100'000'000 ns) are scaled to 1 .. 6: only their order    *)
(* matters to the properties.                                              *)
EXTENDS RandomMetrics

MCTimeLo == 1

MCTimeHi == 6
=============================================================================
