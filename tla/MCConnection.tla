---------------------------- MODULE MCConnection ----------------------------
(* Connection for TLC: three sockets, a queue shorter than that, two tries.  *)
EXTENDS Connection

MCFaults == {"socket", "bind", "listen", "accept", "connect"}
=============================================================================
