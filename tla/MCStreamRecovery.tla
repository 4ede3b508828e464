-------------------------- MODULE MCStreamRecovery --------------------------
(* A plain tool, one with aliased arguments and Task.                        *)
EXTENDS StreamRecovery, TLC

CONSTANTS plain, aliased, task

MCCallOf == (plain :> "plain") @@ (aliased :> "aliased") @@ (task :> "task")

Setting(w, c, r, e, m) ==
  [window |-> w, chars |-> c, reasoning |-> r, early |-> e, midstream |-> m]

MCPolicies ==
  {Setting(TRUE, 0, TRUE, 1, TRUE), Setting(TRUE, 1, FALSE, 1, TRUE),
   Setting(FALSE, 1, TRUE, 0, TRUE), Setting(FALSE, 0, TRUE, 1, FALSE)}
=============================================================================
