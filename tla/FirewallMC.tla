----------------------------- MODULE FirewallMC -----------------------------
(* Small instances of Firewall: at most one managed port beside SSH, so    *)
(* that the rule set is either empty or not.                               *)
EXTENDS Firewall

CONSTANT p1

MCPortSets == {{}, {p1}}
MCHosts    == SUBSET Families    \* every mix of iptables and ip6tables
=============================================================================
