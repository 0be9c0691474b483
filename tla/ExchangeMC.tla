---------------------------- MODULE ExchangeMC -----------------------------
(* A small instance of Exchange: two tests that fit one by one into an     *)
(* answer, and two tokens, of which a fault may waste one.                 *)
EXTENDS Exchange

CONSTANTS k1, k2, n1, n2, s1, s2

MCOutcomes == {"success", "failed"}
=============================================================================
