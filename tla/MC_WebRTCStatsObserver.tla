----------------------- MODULE MC_WebRTCStatsObserver -----------------------
(* Three caller threads as model values; the cfgs bound the Toggle calls and *)
(* the GetStats requests in flight.  No symmetry: the runs check liveness. *)
EXTENDS WebRTCStatsObserver, TLC

CONSTANTS t1, t2, t3
MCThreads == {t1, t2, t3}
============================================================================
