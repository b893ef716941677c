--------------------------- MODULE CaptureSession ---------------------------
(***************************************************************************)
(* What a VideoCaptureWinRT promises its caller, without threads, locks,   *)
(* sinks or async chains: the state CaptureStarted() and the blocking      *)
(* calls expose, and whether a camera failure still waits for its handler. *)
(*   uninit   - constructed; Init not done, or Init failed                 *)
(*   stopped  - a device, no capture                                       *)
(*   starting - StartCapture is waiting for its chain                      *)
(*   started  - CaptureStarted() is true                                   *)
(*   stopping - a StopRecordAsync is being waited for (StopCapture, the    *)
(*              Failed handler, or the destructor)                         *)
(*   gone     - destroyed                                                  *)
(* A start ends started or stopped; a stop ends stopped (or, in the        *)
(* destructor, gone); a failure is answered, and stops a started capture. *)
(***************************************************************************)
VARIABLES cstate, failPending

cvars == <<cstate, failPending>>

CInit == cstate = "uninit" /\ failPending = FALSE

\* Init found the device.
Open ==
  /\ cstate = "uninit"
  /\ cstate' = "stopped"
  /\ UNCHANGED failPending

StartBegin ==
  /\ cstate = "stopped"
  /\ cstate' = "starting"
  /\ UNCHANGED failPending

StartEnd ==
  /\ cstate = "starting"
  /\ cstate' \in {"started", "stopped"}
  /\ UNCHANGED failPending

\* StopCapture or the destructor on a started capture.
StopBegin ==
  /\ cstate = "started"
  /\ cstate' = "stopping"
  /\ UNCHANGED failPending

\* The stop ends; the destructor's own stop ends with the module gone.
StopEnd ==
  /\ cstate = "stopping"
  /\ cstate' \in {"stopped", "gone"}
  /\ UNCHANGED failPending

\* The destructor of a module with no capture.
Destroy ==
  /\ cstate \in {"uninit", "stopped"}
  /\ cstate' = "gone"
  /\ UNCHANGED failPending

\* The camera reports a failure to a module that has a device.
Fail ==
  /\ cstate \notin {"uninit", "gone"}
  /\ ~failPending
  /\ failPending' = TRUE
  /\ UNCHANGED cstate

\* The failure is handled: a started capture begins to stop.  The handler
\* cannot act while a start is in flight.
HandleFailure ==
  /\ failPending
  /\ cstate # "starting"
  /\ failPending' = FALSE
  /\ cstate' = IF cstate = "started" THEN "stopping" ELSE cstate

CNext == Open \/ StartBegin \/ StartEnd \/ StopBegin \/ StopEnd \/ Destroy
         \/ Fail \/ HandleFailure

\* Every start and every stop ends, and every failure is handled.
CSpec ==
  /\ CInit /\ [][CNext]_cvars
  /\ WF_cvars(StartEnd) /\ WF_cvars(StopEnd)
  /\ WF_cvars(HandleFailure)
============================================================================
