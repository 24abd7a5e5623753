------------------------------- MODULE MCApcPool -------------------------------
(* Instances of ApcPool for TLC: prompts that share a first block, and one that *)
(* shares nothing.                                                              *)
EXTENDS ApcPool

CONSTANTS a, ab, ac, d

SharedPrompts == {<<a, ab>>, <<a, ac>>, <<d>>}
================================================================================
