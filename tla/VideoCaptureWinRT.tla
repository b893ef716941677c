-------------------------- MODULE VideoCaptureWinRT --------------------------
(***************************************************************************)
(* VideoCaptureWinRT and its CaptureDevice (video_capture_winrt.cc).       *)
(*                                                                         *)
(* Three threads touch one capture module:                                 *)
(*  - the caller ("app"): Init, StartCapture, StopCapture and the          *)
(*    destructor.  Each public call but the destructor holds _apiCs, and   *)
(*    each waits (.wait()) for its chain of WinRT async operations;        *)
(*  - the MediaCapture Failed event ("hdl"): OnCaptureFailed ->            *)
(*    OnCaptureDeviceFailed, which takes _apiCs and stops a started       *)
(*    capture;                                                             *)
(*  - the sink's MediaSampleEvent: OnMediaSample, which reads frame_info_ *)
(*    and calls OnIncomingFrame without any lock.                          *)
(* The completion of an async operation runs its continuation on the       *)
(* thread pool while the caller is blocked in .wait(); the completion and *)
(* the continuation are one step, with the operation's outcome chosen by  *)
(* \E ok.  A sink is numbered by creation; sinkSub[k] is the subtype sink  *)
(* k was initialised with.                                                 *)
(***************************************************************************)
EXTENDS Integers, Sequences, FiniteSets, CaptureFormat

CONSTANTS
  Requests,      \* capability.rawType values the caller passes to StartCapture
  MaxCalls,      \* bound on StartCapture/StopCapture calls
  MaxFailures    \* bound on Failed events raised by the camera

ASSUME Requests \subseteq RawTypes /\ MaxCalls \in Nat /\ MaxFailures \in Nat

VARIABLES
  app,        \* caller's program counter
  hdl,        \* Failed handler thread: "idle", "raised", "stop_wait"
  lock,       \* owner of _apiCs: "none", "app" or "hdl"
  device,     \* device_ != nullptr
  failedReg,  \* the Failed handler is registered on media_capture_
  started,    \* CaptureDevice::capture_started_
  sink,       \* media_sink_: 0 for nullptr, else the sink's number
  sampleReg,  \* sinks whose MediaSampleEvent handler is registered
  sinkSub,    \* sinkSub[k]: subtype of the profile sink k was created for
  frameInfo,  \* frame_info_.rawType
  recording,  \* the camera records to this sink (0: not recording)
  inflight,   \* sinks with a raised sample whose handler has not run yet
  alive,      \* the VideoCaptureWinRT object is not yet destroyed
  calls, failures,
  dangling,   \* history: a handler ran on a destroyed VideoCaptureWinRT
  lastFrame   \* history: the last frame passed to OnIncomingFrame

vars == <<app, hdl, lock, device, failedReg, started, sink, sampleReg, sinkSub,
          frameInfo, recording, inflight, alive, calls, failures, dangling,
          lastFrame>>

AppPcs == {"new", "idle", "failed", "start_init", "start_record",
           "stop_wait", "dtor_wait", "gone"}
NoFrame == [sub |-> "none", info |-> "none"]
Sinks == 1 .. Len(sinkSub)

TypeOK ==
  /\ app \in AppPcs
  /\ hdl \in {"idle", "raised", "stop_wait"}
  /\ lock \in {"none", "app", "hdl"}
  /\ {device, failedReg, started, alive, dangling} \subseteq BOOLEAN
  /\ sink \in {0} \cup Sinks /\ recording \in {0} \cup Sinks
  /\ sampleReg \subseteq Sinks /\ inflight \subseteq Sinks
  /\ sinkSub \in Seq(Subtypes) /\ frameInfo \in RawTypes
  /\ calls \in 0 .. MaxCalls /\ failures \in 0 .. MaxFailures
  /\ lastFrame \in {NoFrame} \cup [sub : Subtypes, info : RawTypes]

\* The VideoCaptureWinRT constructor: device_(nullptr); frame_info_ default.
Init ==
  /\ app = "new" /\ hdl = "idle" /\ lock = "none"
  /\ device = FALSE /\ failedReg = FALSE /\ started = FALSE
  /\ sink = 0 /\ sampleReg = {} /\ sinkSub = <<>>
  /\ frameInfo = "kVideoUnknown" /\ recording = 0 /\ inflight = {}
  /\ alive = TRUE /\ calls = 0 /\ failures = 0
  /\ dangling = FALSE /\ lastFrame = NoFrame

(***************************************************************************)
(* CaptureDevice::CleanupSink: if there is a sink, unregister its sample   *)
(* handler, delete it, and clear capture_started_.                         *)
(***************************************************************************)
CleanupSinkKeepsStarted ==  \* Seeded fault: capture_started_ is not cleared.
  /\ sampleReg' = IF sink # 0 THEN sampleReg \ {sink} ELSE sampleReg
  /\ sink' = 0
  /\ UNCHANGED started

CleanupSink ==
  /\ sampleReg' = IF sink # 0 THEN sampleReg \ {sink} ELSE sampleReg
  /\ sink' = 0
  /\ started' = IF sink # 0 THEN FALSE ELSE started

\* The camera's state after StopRecordAsync completes with outcome ok; a
\* failed stop leaves it as it was.
StopRecordResult(ok) ==
  /\ ok => recording # 0
  /\ recording' = IF ok THEN 0 ELSE recording

\* The CaptureDevice constructor: no sink, capture_started_ false.
NewCaptureDevice == started' = FALSE /\ sink' = 0

(***************************************************************************)
(* VideoCaptureWinRT::Init, whole: a too long name returns -1; else        *)
(* FindAllAsync is waited for, and either no device id matches (or the    *)
(* enumeration throws, which is logged) and Init returns -1, or           *)
(* device_ is created and Initialize registers OnCaptureFailed.  Nothing   *)
(* else can run on the module meanwhile: no handler is registered yet.    *)
(***************************************************************************)
VCInit ==
  /\ app = "new"
  /\ \E found \in BOOLEAN :
       /\ app' = IF found THEN "idle" ELSE "failed"
       /\ device' = found
       /\ failedReg' = found
       /\ IF found THEN NewCaptureDevice ELSE UNCHANGED <<started, sink>>
  /\ UNCHANGED <<hdl, lock, sampleReg, sinkSub, frameInfo,
                 recording, inflight, alive, calls, failures, dangling,
                 lastFrame>>

\* Seeded fault: the new sink is numbered one past the next free number.
DeviceStartCaptureSkipsSinkNumber(sub) ==
  LET k == Len(sinkSub) + 2
  IN  /\ sinkSub' = Append(sinkSub, sub)
      /\ frameInfo' = SubtypeToRaw(sub)
      /\ sink' = k
      /\ sampleReg' = (IF sink # 0 THEN sampleReg \ {sink} ELSE sampleReg) \cup {k}
      /\ started' = FALSE

(***************************************************************************)
(* CaptureDevice::StartCapture for a profile of subtype sub, on a device   *)
(* not started, up to its .wait(): CleanupSink, frame_info_ from the       *)
(* profile, a new sink with OnMediaSample registered, InitializeAsync      *)
(* issued.                                                                 *)
(***************************************************************************)
DeviceStartCapture(sub) ==
  LET k == Len(sinkSub) + 1
  IN  /\ sinkSub' = Append(sinkSub, sub)
      /\ frameInfo' = SubtypeToRaw(sub)
      /\ sink' = k
      /\ sampleReg' = (IF sink # 0 THEN sampleReg \ {sink} ELSE sampleReg) \cup {k}
      /\ started' = FALSE

(***************************************************************************)
(* VideoCaptureWinRT::StartCapture, under _apiCs: an unsupported raw type  *)
(* returns -1; a started device throws ERROR_INVALID_STATE, caught, -1.    *)
(* Otherwise the device starts with the subtype of the switch, and _apiCs  *)
(* stays held until the chain ends.                                        *)
(***************************************************************************)
StartCapture(r) ==
  /\ app = "idle" /\ lock = "none" /\ calls < MaxCalls
  /\ calls' = calls + 1
  /\ IF r \notin SupportedRawTypes \/ started
       THEN UNCHANGED <<app, lock, started, sink, sampleReg, sinkSub, frameInfo>>
       ELSE /\ DeviceStartCapture(RawToSubtype(r))
            /\ lock' = "app" /\ app' = "start_init"
  /\ UNCHANGED <<hdl, device, failedReg, recording, inflight, alive, failures,
                 dangling, lastFrame>>

(***************************************************************************)
(* InitializeAsync completes.  On failure the value-based continuation is  *)
(* skipped, .wait() rethrows, StartCapture logs and returns -1; the sink   *)
(* stays.  On success SetMediaStreamPropertiesAsync runs and its task-     *)
(* based continuation never calls get(): whatever its outcome,             *)
(* StartRecordToCustomSinkAsync is issued.                                 *)
(***************************************************************************)
InitializeDone ==
  /\ app = "start_init"
  /\ \E ok \in BOOLEAN :
       /\ app' = IF ok THEN "start_record" ELSE "idle"
       /\ lock' = IF ok THEN "app" ELSE "none"
  /\ UNCHANGED <<hdl, device, failedReg, started, sink, sampleReg, sinkSub,
                 frameInfo, recording, inflight, alive, calls, failures,
                 dangling, lastFrame>>

(***************************************************************************)
(* StartRecordToCustomSinkAsync completes: capture_started_ = true, or     *)
(* CleanupSink and rethrow (StartCapture returns -1).  The camera starts   *)
(* only when it is not recording already.                                 *)
(***************************************************************************)
RecordDone ==
  /\ app = "start_record"
  /\ \/ /\ recording = 0
        /\ recording' = sink /\ started' = TRUE
        /\ UNCHANGED <<sink, sampleReg>>
     \/ /\ CleanupSink
        /\ UNCHANGED recording
  /\ app' = "idle" /\ lock' = "none"
  /\ UNCHANGED <<hdl, device, failedReg, sinkSub, frameInfo, inflight, alive,
                 calls, failures, dangling, lastFrame>>

\* Seeded fault: StopCapture issues StopRecordAsync without testing
\* capture_started_.
StopCaptureUnguarded ==
  /\ app = "idle" /\ lock = "none" /\ calls < MaxCalls
  /\ calls' = calls + 1
  /\ app' = "stop_wait"
  /\ lock' = "app"
  /\ UNCHANGED <<hdl, device, failedReg, started, sink, sampleReg, sinkSub,
                 frameInfo, recording, inflight, alive, failures, dangling,
                 lastFrame>>

(***************************************************************************)
(* VideoCaptureWinRT::StopCapture: a device not started throws, caught,   *)
(* -1; else StopRecordAsync is issued under _apiCs.                        *)
(***************************************************************************)
StopCapture ==
  /\ app = "idle" /\ lock = "none" /\ calls < MaxCalls
  /\ calls' = calls + 1
  /\ app' = IF started THEN "stop_wait" ELSE "idle"
  /\ lock' = IF started THEN "app" ELSE "none"
  /\ UNCHANGED <<hdl, device, failedReg, started, sink, sampleReg, sinkSub,
                 frameInfo, recording, inflight, alive, failures, dangling,
                 lastFrame>>

\* Seeded fault: the success path of the stop continuation omits CleanupSink.
StopDoneKeepsSinkOnSuccess ==
  /\ app = "stop_wait"
  /\ \E ok \in BOOLEAN :
       /\ StopRecordResult(ok)
       /\ IF ok THEN UNCHANGED <<sink, sampleReg, started>> ELSE CleanupSink
  /\ app' = "idle" /\ lock' = "none"
  /\ UNCHANGED <<hdl, device, failedReg, sinkSub, frameInfo, inflight, alive,
                 calls, failures, dangling, lastFrame>>

\* StopRecordAsync completes: CleanupSink on success and on failure.
StopDone ==
  /\ app = "stop_wait"
  /\ \E ok \in BOOLEAN : StopRecordResult(ok)
  /\ CleanupSink
  /\ app' = "idle" /\ lock' = "none"
  /\ UNCHANGED <<hdl, device, failedReg, sinkSub, frameInfo, inflight, alive,
                 calls, failures, dangling, lastFrame>>

(***************************************************************************)
(* ~VideoCaptureWinRT -> CaptureDevice::Cleanup, without _apiCs: a started *)
(* capture is stopped first (StopRecordAsync, its error ignored); then the *)
(* Failed handler is unregistered, CleanupSink runs and the object is      *)
(* freed.  Handlers already raised are not waited for.                     *)
(***************************************************************************)
Teardown ==
  /\ failedReg' = FALSE
  /\ CleanupSink
  /\ alive' = FALSE /\ app' = "gone"

Destroy ==
  /\ app \in {"idle", "failed"}
  /\ IF device /\ started
       THEN /\ app' = "dtor_wait"
            /\ UNCHANGED <<failedReg, started, sink, sampleReg, alive>>
       ELSE Teardown
  /\ UNCHANGED <<hdl, lock, device, sinkSub, frameInfo, recording, inflight,
                 calls, failures, dangling, lastFrame>>

DestroyStopDone ==
  /\ app = "dtor_wait"
  /\ \E ok \in BOOLEAN : StopRecordResult(ok)
  /\ Teardown
  /\ UNCHANGED <<hdl, lock, device, sinkSub, frameInfo, inflight, calls,
                 failures, dangling, lastFrame>>

(***************************************************************************)
(* The camera fails: it stops recording and raises Failed to the           *)
(* registered handler, which runs later on its own thread.                 *)
(***************************************************************************)
RaiseFailed ==
  /\ failedReg /\ hdl = "idle" /\ failures < MaxFailures
  /\ failures' = failures + 1
  /\ hdl' = "raised" /\ recording' = 0
  /\ UNCHANGED <<app, lock, device, failedReg, started, sink, sampleReg,
                 sinkSub, frameInfo, inflight, alive, calls, dangling,
                 lastFrame>>

\* Seeded fault: the handler only tries _apiCs and gives up when it is held.
OnCaptureDeviceFailedTryLock ==
  /\ hdl = "raised"
  /\ IF ~alive
       THEN /\ dangling' = TRUE /\ hdl' = "idle"
            /\ UNCHANGED lock
       ELSE IF lock # "none"
       THEN /\ hdl' = "idle" /\ UNCHANGED <<lock, dangling>>
       ELSE /\ hdl' = IF device /\ started THEN "stop_wait" ELSE "idle"
            /\ lock' = IF device /\ started THEN "hdl" ELSE "none"
            /\ UNCHANGED dangling
  /\ UNCHANGED <<app, device, failedReg, started, sink, sampleReg, sinkSub,
                 frameInfo, recording, inflight, alive, calls, failures,
                 lastFrame>>

(***************************************************************************)
(* OnCaptureFailed -> OnCaptureDeviceFailed: take _apiCs; if device_ and   *)
(* CaptureStarted(), StopCapture (StopRecordAsync waited for under the     *)
(* lock); else log and release.  On a freed listener the call is a use   *)
(* after free.                                                             *)
(***************************************************************************)
OnCaptureDeviceFailed ==
  /\ hdl = "raised"
  /\ IF ~alive
       THEN /\ dangling' = TRUE /\ hdl' = "idle"
            /\ UNCHANGED lock
       ELSE /\ lock = "none"
            /\ hdl' = IF device /\ started THEN "stop_wait" ELSE "idle"
            /\ lock' = IF device /\ started THEN "hdl" ELSE "none"
            /\ UNCHANGED dangling
  /\ UNCHANGED <<app, device, failedReg, started, sink, sampleReg, sinkSub,
                 frameInfo, recording, inflight, alive, calls, failures,
                 lastFrame>>

\* The handler's StopRecordAsync completes: CleanupSink, release _apiCs.
HandlerStopDone ==
  /\ hdl = "stop_wait"
  /\ \E ok \in BOOLEAN : StopRecordResult(ok)
  /\ CleanupSink
  /\ hdl' = "idle" /\ lock' = "none"
  /\ dangling' = (dangling \/ ~alive)
  /\ UNCHANGED <<app, device, failedReg, sinkSub, frameInfo, inflight, alive,
                 calls, failures, lastFrame>>

\* The sink being recorded to raises MediaSampleEvent to its handlers.
RaiseSample ==
  /\ recording # 0 /\ recording \in sampleReg /\ recording \notin inflight
  /\ inflight' = inflight \cup {recording}
  /\ UNCHANGED <<app, hdl, lock, device, failedReg, started, sink, sampleReg,
                 sinkSub, frameInfo, recording, alive, calls, failures,
                 dangling, lastFrame>>

\* VideoCaptureWinRT::OnIncomingFrame: the frame goes on to IncomingFrame.
OnIncomingFrame(k) == lastFrame' = [sub |-> sinkSub[k], info |-> frameInfo]

(***************************************************************************)
(* OnMediaSample for a sample of sink k: the buffer (in sink k's format)   *)
(* goes to OnIncomingFrame with the current frame_info_.  The buffer and  *)
(* HRESULT paths only log.                                                 *)
(***************************************************************************)
OnMediaSample(k) ==
  /\ k \in inflight
  /\ inflight' = inflight \ {k}
  /\ IF alive
       THEN /\ OnIncomingFrame(k)
            /\ UNCHANGED dangling
       ELSE /\ dangling' = TRUE
            /\ UNCHANGED lastFrame
  /\ UNCHANGED <<app, hdl, lock, device, failedReg, started, sink, sampleReg,
                 sinkSub, frameInfo, recording, alive, calls, failures>>

\* Everything has run down after the destructor.
Done ==
  /\ app = "gone" /\ hdl = "idle" /\ inflight = {}
  /\ UNCHANGED vars

Next ==
  \/ VCInit
  \/ \E r \in Requests : StartCapture(r)
  \/ InitializeDone \/ RecordDone
  \/ StopCapture \/ StopDone
  \/ Destroy \/ DestroyStopDone
  \/ RaiseFailed \/ OnCaptureDeviceFailed \/ HandlerStopDone
  \/ RaiseSample \/ \E k \in Sinks : OnMediaSample(k)
  \/ Done

(***************************************************************************)
(* Fairness: an issued async operation completes (WinRT completes it with  *)
(* a result or an error), and the handler thread, once an event is raised, *)
(* keeps running.  Neither the caller's calls nor the camera's failures    *)
(* are forced.                                                             *)
(***************************************************************************)
Fairness ==
  /\ WF_vars(InitializeDone) /\ WF_vars(RecordDone) /\ WF_vars(StopDone)
  /\ WF_vars(DestroyStopDone)
  /\ WF_vars(OnCaptureDeviceFailed) /\ WF_vars(HandlerStopDone)

Spec == Init /\ [][Next]_vars /\ Fairness

-----------------------------------------------------------------------------
(* Whenever capture_started_ is set, media_sink_ is a live sink with its   *)
(* sample handler registered: every path that drops the sink (CleanupSink  *)
(* from StartCapture, a failed StartRecord, StopCapture's success and      *)
(* error paths, the Failed handler and the destructor) also clears the     *)
(* flag, so CaptureStarted() never reports a capture without a sink.       *)
CaptureStartedImpliesSink ==
  started => sink # 0 /\ sink \in sampleReg

(* CaptureStarted() tells the truth: while capture_started_ is set and no  *)
(* Failed event waits for its handler, the camera records into the        *)
(* module's current sink.  The start path sets the flag only after         *)
(* StartRecordToCustomSinkAsync succeeded, and both stop paths (the       *)
(* caller's and the Failed handler's) clear it with the sink.              *)
CaptureStartedMeansRecording ==
  started /\ hdl = "idle" => recording = sink

(* A camera failure reported to a live module is eventually answered: the  *)
(* handler has run, no StartCapture is in flight, and capture_started_ is  *)
(* clear (or the module is destroyed).  The Failed handler waits for       *)
(* _apiCs, so a failure raised while StartCapture is still in flight is    *)
(* handled after the start completes, with CaptureStarted() read under the *)
(* lock.                                                                   *)
StartPhases == {"start_init", "start_record"}
FailureStopsCapture ==
  (hdl = "raised" /\ alive)
    ~> ((hdl = "idle" /\ ~started /\ app \notin StartPhases) \/ ~alive)

(* The state CaptureStarted() and the blocking calls expose, as            *)
(* CaptureSession names it: a stop in progress is the caller's, the        *)
(* Failed handler's or the destructor's StopRecordAsync.                   *)
SessionState ==
  CASE ~alive                                   -> "gone"
    [] app \in {"new", "failed"}                -> "uninit"
    [] app \in StartPhases                      -> "starting"
    [] app \in {"stop_wait", "dtor_wait"}
         \/ hdl = "stop_wait"                    -> "stopping"
    [] started                                  -> "started"
    [] OTHER                                    -> "stopped"

Session == INSTANCE CaptureSession
             WITH cstate <- SessionState, failPending <- (hdl = "raised")

(* The module implements CaptureSession: every step of the caller, the     *)
(* Failed handler, the async completions and the destructor is a step the  *)
(* contract allows (a start ends started or stopped, only a started        *)
(* capture is stopped, a failure is answered), and every start, stop and   *)
(* failure handling ends.                                                  *)
SessionRefinement == Session!CSpec

(* Each frame reaches OnIncomingFrame with a frame_info_ that describes    *)
(* its buffer: OnMediaSample reads frame_info_ while StartCapture may be   *)
(* rewriting it for a new sink.                                            *)
FrameInfoMatchesSample ==
  lastFrame = NoFrame \/ SubtypeToRaw(lastFrame.sub) = lastFrame.info

(* No Failed or sample handler runs on a destroyed VideoCaptureWinRT: the  *)
(* destructor neither takes _apiCs nor waits for handlers already raised. *)
NoHandlerAfterDestroy == ~dangling
============================================================================
