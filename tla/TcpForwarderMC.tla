--------------------------- MODULE TcpForwarderMC ---------------------------
(* Small instances of TcpForwarder: one connection more than the limit, so *)
(* that one is refused while the others are at any point of their life.    *)
EXTENDS TcpForwarder

CONSTANTS c1, c2, c3
=============================================================================
