--------------------------- MODULE RuleManagerMC ----------------------------
(* Small instances of RuleManager: two rules that trade two ports, change  *)
(* protocol and target, list their CIDRs in either order, are disabled or  *)
(* deleted; and once a rule and its clone, both on one port.               *)
EXTENDS RuleManager

CONSTANTS r1, r2, p1, p2, a, b

MCRow(on, proto, port, target, cidrs) ==
  [enabled |-> on, protocol |-> proto, port |-> port, target |-> target,
   cidrs |-> cidrs]

MCBoth(x, y) == (r1 :> x) @@ (r2 :> y)

MCRuleSets ==
  {MCBoth(None, None),
   MCBoth(MCRow(TRUE, "both", p1, a, <<a, b, b>>), None),
   MCBoth(MCRow(TRUE, "both", p1, a, <<b, a, b>>), MCRow(TRUE, "tcp", p2, a, <<>>)),
   MCBoth(MCRow(TRUE, "tcp", p2, a, <<a>>), MCRow(TRUE, "both", p1, a, <<>>)),
   MCBoth(MCRow(TRUE, "udp", p2, b, <<a, b, a>>), MCRow(TRUE, "tcp", p2, a, <<>>)),
   MCBoth(MCRow(TRUE, "both", p1, a, <<>>), MCRow(TRUE, "both", p1, a, <<>>)),
   MCBoth(MCRow(FALSE, "tcp", p1, b, <<a>>), MCRow(TRUE, "both", p1, b, <<>>))}
=============================================================================
