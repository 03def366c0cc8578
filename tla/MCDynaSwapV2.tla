---------------------------- MODULE MCDynaSwapV2 ----------------------------
(* Small instances of DynaSwapV2 for TLC: two sectors stand for the eight  *)
(* of a page.                                                              *)
EXTENDS DynaSwapV2
=============================================================================
