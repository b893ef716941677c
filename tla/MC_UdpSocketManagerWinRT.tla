---------------------- MODULE MC_UdpSocketManagerWinRT ----------------------
(* Two worker slots (MAX_NUMBER_OF_SOCKET_MANAGERS_LINUX lowered from 8),  *)
(* Init() asked for 0, 1, 2 or 3 workers (3 is clamped), three sockets  *)
(* of which one has an invalid descriptor, FD_SETSIZE = 1.              *)
EXTENDS UdpSocketManagerWinRT

MCSockets == {1, 2, 3}
MCInvalidSockets == {3}
MCThreadCounts == {0, 1, 2, 3}
MCThreadCountsWithZero == {0, 2}
============================================================================
