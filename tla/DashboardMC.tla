---------------------------- MODULE DashboardMC -----------------------------
(* Small instances of Dashboard: ranges of two and of three buckets, and   *)
(* two lists of rules.                                                     *)
EXTENDS Dashboard, TLC

CONSTANTS day, week

MCWindow == (day :> 2) @@ (week :> 3)

Rule(enabled, state, used, limit) ==
  [enabled |-> enabled, state |-> state, used |-> used, limit |-> limit]

(* No rule, and seven, of which one does not fit into Top and one is      *)
(* disabled without having been reported.                                 *)
MCRuleLists == {
  <<>>,
  <<Rule(TRUE, "running", 0, 0), Rule(TRUE, "stopped", 1, 2), Rule(FALSE, "none", 0, 0),
    Rule(TRUE, "running", 3, 3), Rule(TRUE, "error", 0, 2), Rule(TRUE, "running", 2, 0),
    Rule(TRUE, "unsupported", 4, 3)>> }
=============================================================================
