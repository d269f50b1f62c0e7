-------------------------- MODULE MCReconnectingConn --------------------------
(* Instances of ReconnectingConn for TLC: the loop, one or two writers and the *)
(* owner, over two addresses.                                                  *)
EXTENDS ReconnectingConn

CONSTANTS loop, w1, w2, c1, c2, c3, c4, a, b, noAddr, noConn
=============================================================================
