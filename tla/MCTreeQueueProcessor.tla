------------------------ MODULE MCTreeQueueProcessor ------------------------
(* One tree with its manager and its tasks, on a small set of prompts.      *)
EXTENDS TreeQueueProcessor, TLC

Symmetry == Permutations(Prompts \ {Root}) \cup Permutations(Claims)
=============================================================================
