--------------------------- MODULE UdpForwarderMC ---------------------------
(* Small instances of UdpForwarder: more clients than the limit allows,    *)
(* and two session objects, so that a client can own an old session and a  *)
(* new one at the same time.                                               *)
EXTENDS UdpForwarder

CONSTANTS c1, c2, s1, s2

MCClients == {c1, c2}
MCIds     == {s1, s2}
=============================================================================
