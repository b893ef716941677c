---------------------- MODULE MC_UdpSocketManagerImpl -----------------------
(* One worker driven directly by a client: three sockets, one of them with *)
(* an invalid descriptor, and FD_SETSIZE = 1 so that the capacity check is *)
(* reached with two valid sockets.                                         *)
EXTENDS UdpSocketManagerImpl

MCWorkers == {0}
MCSockets == {1, 2, 3}
MCInvalidSockets == {3}
============================================================================
