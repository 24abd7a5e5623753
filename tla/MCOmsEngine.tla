------------------------------ MODULE MCOmsEngine ------------------------------
(* Small instances of OmsEngine for TLC: client order ids and Position      *)
(* objects are numbers, so the lowest free one is taken and no symmetry is  *)
(* needed.                                                                  *)
EXTENDS OmsEngine

CONSTANTS t1, t2, BTC, ETH


================================================================================
