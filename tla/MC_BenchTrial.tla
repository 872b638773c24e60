---------------------------- MODULE MC_BenchTrial ----------------------------
(* BenchTrial with the default ratio 1:1, the ratios 3:1 and 1:3 of the    *)
(* published results, and two whose sum does not fit an unsigned.          *)
EXTENDS BenchTrial

MCRatios == {<<1, 1>>, <<3, 1>>, <<1, 3>>, <<8, 8>>, <<15, 2>>}
=============================================================================
