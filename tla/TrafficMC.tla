------------------------------ MODULE TrafficMC ------------------------------
(* Instances of Traffic for TLC.                                           *)
EXTENDS Traffic

CONSTANT r

(* An edit from version 1 to version 2 turns a TCP rule into a UDP rule.   *)
OneProtocol   == [v \in Versions |-> IF v = 1 THEN {"tcp"} ELSE {"udp"}]
(* Outside the run: a rule "both" breaks NeverOvercharged (README).        *)
BothProtocols == [v \in Versions |-> Protos]
TwoBytes      == [id \in Rules |-> 2]
=============================================================================
