-------------------------- MODULE MCGenerationLoop --------------------------
(* Instances of the generation thread for TLC. *)
EXTENDS GenerationLoop, TLC

CONSTANTS a, b, c

\* One text-only prompt, one shorter, one with embeddings.
ThreeRequests == {a, b, c}
OneEmbeds == {c}
Lengths == [r \in {a, b, c} |-> IF r = a THEN 2 ELSE 1]
OneReleaser == {b}
Both == {TRUE, FALSE}
AllFaults == FaultKinds
=============================================================================
