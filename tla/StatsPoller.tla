---------------------------- MODULE StatsPoller ----------------------------
(***************************************************************************)
(* What WebRTCStatsObserver promises about its poll loop, without threads, *)
(* messages or locks: status_ and whether a poll loop exists.  Start()    *)
(* sets kStarted and makes sure there is a loop; Stop() asks a started    *)
(* loop to stop; a loop that is not wanted ends and sets kStopped, and     *)
(* must do so eventually.  The object's destruction ends everything.       *)
(***************************************************************************)
VARIABLES status, loop, alive

pvars == <<status, loop, alive>>

PInit == status = "kStopped" /\ loop = FALSE /\ alive = TRUE

PStart ==
  /\ alive
  /\ status' = "kStarted" /\ loop' = TRUE
  /\ UNCHANGED alive

PStop ==
  /\ alive /\ status = "kStarted"
  /\ status' = "kStopping"
  /\ UNCHANGED <<loop, alive>>

LoopEnds ==
  /\ alive /\ loop /\ status # "kStarted"
  /\ status' = "kStopped" /\ loop' = FALSE
  /\ UNCHANGED alive

PDestroy ==
  /\ alive
  /\ alive' = FALSE /\ loop' = FALSE /\ status' = "destroyed"

PNext == PStart \/ PStop \/ LoopEnds \/ PDestroy

PSpec == PInit /\ [][PNext]_pvars /\ WF_pvars(LoopEnds)
============================================================================
