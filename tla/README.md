# TLA+ models of the WinRT port's concurrent components

This directory holds TLA+ models of the code under `src/`. TLC checks them.
Five parts of the repository are modelled:

* the WinRT camera capture adapter
  (`src/webrtc/modules/video_capture/windows/video_capture_winrt.cc`);
* the periodic stats poller (`Stats/webrtc_stats_observer.cpp`);
* the multi-threaded UDP socket manager
  (`src/webrtc/test/channel_transport/udp_socket_manager_winrt.{h,cc}`),
  which `spec.md` describes;
* the `SampleAttributeQueue` helper of the H.264 codec;
* the bridge from a video track to a WinRT `MediaStreamSource`
  (`Api/RTMediaStreamSource.cc`), with the contract it keeps towards
  Media Foundation.

## 1. Inventory

| Component | Source | State | Operations | Status |
|---|---|---|---|---|
| `VideoCaptureWinRT` / `CaptureDevice` | `video_capture_winrt.cc` | `_apiCs`, `device_`, `capture_started_`, `media_sink_`, the handler registrations, `frame_info_` | `Init`, `StartCapture`, `StopCapture`, `CleanupSink`, `Cleanup`/dtor, `OnCaptureFailed`/`OnCaptureDeviceFailed`, `OnMediaSample` | modelled: `VideoCaptureWinRT`, `CaptureFormat`, refines `CaptureSession` |
| `WebRTCStatsObserver` | `Stats/webrtc_stats_observer.cpp` | `status_`, the three enable flags, `webrtc_stats_observer_winrt_`, posted `MSG_POLL_STATS`, GetStats requests in flight | `Toggle*` + `EvaluatePollNecessity`, `Start`, `Stop`, `PollStats`, `OnMessage`, `OnComplete`, dtor | modelled: `WebRTCStatsObserver`, refines `StatsPoller` |
| `UdpSocketManagerWinRTImpl` (worker) | `udp_socket_manager_winrt.cc` 168-362 | `_socketMap`, `_addList`, `_removeList`, `_thread` | ctor, dtor, `Start`, `Stop`, `AddSocket`, `RemoveSocket`, `Process`, `UpdateSocketMap` | modelled: `UdpSocketManagerImpl` |
| `UdpSocketManagerWinRT` (pool) | `udp_socket_manager_winrt.cc` 25-165 | `_id`, `_numberOfSocketMgr`, the round-robin cursor, `_socketMgr[]` | ctor, `Init`, `Start`, `Stop`, `AddSocket`, `RemoveSocket`, dtor | modelled: `UdpSocketManagerWinRT`, refines `SocketRegistry` |
| `SampleAttributeQueue<T>` | `h264_winrt/Utils/SampleAttributeQueue.h` | FIFO of `(id, T)` | `push`, `pop(id)`, `clear` | modelled: `SampleAttributeQueue` |
| `RTMediaStreamSource` | `Api/RTMediaStreamSource.cc` | global list + lock, per-source `_lock`, `_frame`, `_isNewFrame` | `CreateMediaSource`, `ProcessReceivedFrame`, `OnSampleRequested`, `OnClosed` | modelled: `RTMediaStreamSource`, refines `SampleStream` |
| API declarations, test shims | `peerconnectioninterface.h`, `LibTest_runner/*` | none | none | not modelled (declarations and glue) |

## 2. Modules and how they correspond to the code

| Module | Models |
|---|---|
| `CaptureFormat` | The two format tables (`RawToSubtype`: the switch in `VideoCaptureWinRT::StartCapture`; `SubtypeToRaw`: the `_wcsicmp` chain in `CaptureDevice::StartCapture`) and the closest-stream-property search, a `FoldLeftDomain` of `SearchStep` over the property list. |
| `VideoCaptureWinRT` | Three threads on one capture module: the caller (`app`), the `Failed` handler (`hdl`) and the sample handler. `lock` is `_apiCs`. Each WinRT async chain is an issue step plus one completion step per awaited operation, with the outcome chosen by `\E ok`. Sinks are numbered by creation, and `sinkSub[k]` is sink k's format. `recording` is the camera's state, `inflight` holds raised samples whose handler has not run yet, and `dangling` records a handler that ran on a freed object. `CaptureStarted()` and `CaptureSettings()` only read state under `_apiCs`, so they are not actions. |
| `CaptureSession` | What the capture module promises its caller: `uninit`, `stopped`, `starting`, `started`, `stopping`, `gone`, and whether a failure still waits for its handler. A start ends started or stopped, only a started capture is stopped, and a failure stops a started capture. Starts, stops and failure handling are weakly fair. `VideoCaptureWinRT` maps its threads' program counters and `capture_started_` onto it (`SessionState`). |
| `WebRTCStatsObserver` | Callers on `Threads` toggle the flags. A toggle is one step that writes the flags and decides `Start()` or `Stop()`. `Start()` in kStopped runs `PollStats` on the calling thread (`poll_get`: `GetAllStats`, then `poll_lock`: the locked repost-or-stop). `OnMessage` runs the same two halves as `loop_get`/`loop_lock`. The distinction matters because a posted message holds no reference, so the destructor may begin while a thread is in a `loop_*` step, but not while a caller is inside a call. `msgs[t]` counts `MSG_POLL_STATS` posted to thread t, and `pending` counts GetStats requests not yet answered by `OnComplete`. The destructor is three toggle calls followed by `DtorEnd`, which frees the object; the `MessageHandler` base clears its posted messages. |
| `StatsPoller` | What the stats observer promises: `status_`, whether a loop exists, `Start`/`Stop`/`LoopEnds`/destruction, and weak fairness on `LoopEnds`. The detailed module maps `loop` to "a message is posted or a `PollStats` is running". |
| `UdpSocketManagerImpl` | The worker. Its poll thread is split into `Update`, `Select`, `Dispatch` and `ThreadExit`. The caller's operations are operators. `ImplSpec` drives the workers by a generic client. |
| `UdpSocketManagerWinRT` | EXTENDS the worker module. Manager calls are atomic, except `Stop()` (one step per worker) and the destructor (`Stop()`, then one `MgrDelete` per worker). |
| `SocketRegistry` | The abstract contract of the pool: `registered`, `retiring`, `destroyed`. The manager module instantiates it with a refinement mapping. |
| `SampleAttributeQueue` | `push`, `pop` (RECURSIVE) and `clear` as operators on a sequence of `[id, val]` records. |
| `RTMediaStreamSource` | Per source: the render thread (`RenderFrame`, which runs `ProcessReceivedFrame` under `_lock`) and the Media Foundation request handler. `SampleRequested` raises a request. `CheckSource` is the unlocked test of `_mediaStreamSource` (with the early returns before it), and `TakeDeferral` is `GetDeferral`. Nothing is held between them, so `OnClosed` can run in between. `SampleLocked` takes `_lock` and calls `MFCreateSample`. `SampleServe` is everything under both locks: the FPS block, the resize, then `CompleteRequest` (the buffer, `ConvertFrame`, `SetSample` and `Complete`). A `ConvertFrame` that cannot lock the buffer returns false, and the code ignores that, so the sample is set showing no frame. Either `FireEvent` (FPS or resize) may throw. The exception unwinds both locks into `catch(...)`, which does not complete the deferral. `leaked` records that exit. `OnClosed` removes the source from `gMediaStreamList`. `gMediaStreamListLock` is held only inside single steps, so it is not a variable. A frame is its arrival number and its size. |
| `SampleStream` | What a source promises Media Foundation: frames arrive in order, a request is accepted only while the source is open, and it is completed with a sample of the newest frame in a buffer of that frame's size, with such a buffer showing no frame, or without a sample, or it is abandoned, after which no request follows. Completion is weakly fair. `RTMediaStreamSource` maps the handler's position to the request state: waiting from a passed unlocked test to the end of the handler, abandoned once `leaked`. `SampleRequested`, `TakeDeferral`, the lock step and the unlocked test's refusal are stuttering steps. |
| `MC_*` | TLC instances. `MC_PureAlgorithms` checks `CaptureFormat` and `SampleAttributeQueue` together. A `mode` variable selects the input space, so the two spaces are added rather than multiplied. |

## 3. Runs

| Run | Cfg | Expect | Shows |
|---|---|---|---|
| pure_algorithms | `MC_PureAlgorithms.cfg` | pass | The stream-property search returns the lexicographically closest property of the requested subtype, or none (608k inputs). `pop` agrees with a declarative reference on every queue built by increasing pushes, pops and clears. |
| video_capture | `MC_VideoCaptureWinRT.cfg` | pass | `capture_started_` always has a live, registered sink, and, unless a `Failed` event is pending, the camera records into it. A camera failure is always answered by the handler, which waits for `_apiCs` and stops a started capture (liveness). The module refines `CaptureSession` (`SessionRefinement`). |
| video_capture_frame_info | `..._frameinfo.cfg` | violation | A sample of the old sink, still in flight, is delivered with the `frame_info_` of a new `StartCapture`. |
| video_capture_destroy | `..._destroy.cfg` | violation | The destructor takes no lock and does not wait, so a `Failed` handler already raised runs on the freed object. |
| stats | `MC_WebRTCStatsObserver.cfg` | pass | While the object lives there is exactly one poll loop when `status_` is not kStopped, and none otherwise. The module refines `StatsPoller` (`PollerRefinement`), including its liveness: a loop that is not wanted ends. |
| stats_polling_stops | `..._stop.cfg` | violation | Disabling every stat does not stop polling once an observer was given: the pointer is never cleared. |
| stats_dtor_get_stats | `..._dtor.cfg` | violation | A thread handling a posted `MSG_POLL_STATS` when the last reference is released elsewhere calls `GetStats(this)` on the dying object. The same property also covers the destructor's own toggles restarting a loop after a `Stop()` raced an enabling toggle. |
| media_stream_source | `MC_RTMediaStreamSource.cfg` | pass | Every sample that shows a frame has a buffer of that frame's size, even when frames change size between requests. Every deferral taken is completed, on each allocation failure and when the source closes during a request. The one exception is the `catch(...)` exit, which the property exempts by name: there the stream stalls. The newest frame is shown unless it is replaced, the source is closed, or the stream has stalled that way (liveness). Allocation and conversion failures are transient: at most one per source. The source refines `SampleStream` (`StreamRefinement`). |
| impl | `MC_UdpSocketManagerImpl.cfg` | pass | One worker: ownership, no dispatch to a deleted socket, and every deferred add or remove applied (liveness). |
| impl_capacity | `MC_UdpSocketManagerImpl_capacity.cfg` | violation | Two adds before a merge overfill `FD_SETSIZE`. |
| manager | `MC_UdpSocketManagerWinRT.cfg` | pass | The pool with `Init(0..3)`, timing-out stops and the destructor: ownership, round robin, and the `SocketRegistry` refinement. |
| manager_teardown | `..._teardown.cfg` | violation | `Stop()` stops at the first worker that timed out, and the destructor then deletes workers whose threads still run. |

Every property of a passing run has a seeded fault (PROJECT.json "mutants")
that TLC catches under the run's own configuration.

Four divergences are recorded in PROJECT.json "hazards", but no run checks
them. The first was found with `CaptureFormat` and its run retired to stay
within the project's run budget:
* `VideoCaptureWinRT::StartCapture` asks for `Rgb24` when `kVideoARGB` is
  requested, while `CaptureDevice::StartCapture` maps `Rgb32` back to
  `kVideoARGB`. An ARGB capture records 24-bit RGB and reports
  `kVideoRGB24`.

The other three diverge from `spec.md`:
* the cursor advances after a failed add;
* `Stop()` short-circuits (only its consequence, `manager_teardown`, is checked);
* `Init` accepts zero workers (reachable in `manager` as `MgrAddSocketNoWorker`).

### Bounds

* **Capture.** The caller makes 4 `StartCapture`/`StopCapture` calls, over
  `{YV12, NV12, Unknown}`, with 2 camera failures (57k states). The two violation runs keep 3
  calls and 1 failure, which is enough for their traces. The pass run reaches:
  - a restart while samples are in flight;
  - an unsupported type;
  - start-while-started;
  - every async outcome;
  - a failure during a start;
  - destruction with a handler pending;
  - start, stop, start and stop in two formats, so a second start rewrites
    `frame_info_`;
  - a failure after a restart that followed an earlier failure.
* **Stats.** 3 threads. The pass run allows 5 toggles and 3 GetStats
  requests in flight (49k states); the violation runs allow 4 and 2. Two
  threads are the least needed for a toggle race followed by the
  destructor's own three toggles. The third thread lets two loops' threads
  race a caller, and lets the destructor run while a loop thread handles a
  posted message.
* **Search.** Lists of up to 3 properties, two per dimension value, covering
  ties in width and height and the fps truncation (3/2 = 1).
* **Media stream source.** One source, since sources share only
  `gMediaStreamListLock` and no step holds it across an interleaving
  point. Two frames in three sizes: one equal to the initial 320x240, one
  differing in height only, one differing in both. One failure per source (a buffer
  allocation, an unlockable buffer, or `MFCreateSample`), which reaches each
  error path. An exception can be raised at each `FireEvent`; a source then
  takes no further request, so at most one per source happens.
* **Queue.** Ids 1..4 and pops of ids 0..5 cover pops below, at, between and
  above the queued ids.
* **Manager.** Sockets {1,2,3}, with 3 invalid. `FD_SETSIZE` = 1. 2 worker
  slots, and up to 4 adds.

### Fairness

* **Capture.** WinRT completes every async operation, so completions are
  weakly fair. A handler thread that is raised keeps running. Caller calls
  and camera failures are not forced.
* **Stats.** Each thread finishes its call. Its message loop serves the
  posted `MSG_POLL_STATS`, because `PostDelayed` fires. GetStats is
  answered.
* **Media stream source.** Media Foundation runs a raised handler to its
  end and, while the source plays, asks for the next sample once the last
  deferral completes. Allocation failures are transient (at most
  `MaxAllocFailures`). The render thread, creation and `Closed` are not
  forced.
* **UDP workers.** `Process()` never blocks longer than the `select()`
  timeout, so the worker steps are weakly fair.

## 4. Not modelled, and assumptions

* **Report contents.** `OnComplete`'s report contents (ETW events, health
  counters, kbps arithmetic) are abstracted. It only answers a request.
* **Capture contracts.**
  - Each async operation completes, with either a result or an error.
  - A camera failure stops recording.
  - A failed `StopRecordAsync` leaves the camera recording.
  - A module whose `Init` failed is only destroyed. The NULL-`device_`
    calls are listed as a hazard.
* **Races on plain fields.** The stats flags are read and written
  atomically. A torn or reordered write is not modelled.
* **External contracts.** `ThreadWrapper`, `select()` and the UDP socket are
  outside `src/`. Their contracts are as stated in `UdpSocketManagerImpl`.
* **`RTMediaStreamSource` data and lifetime.** The NV12 conversion, the
  sample timestamps (and the `_frameRate` of 0 that makes the duration
  infinite), and the UI events are abstracted. So is the lifetime of the
  object once `Closed` released it: the render thread's weak reference is
  taken to resolve.

* **Hazards without a run.** Each of these would need a violation run of
  its own, and the project keeps one run per question already asked:
  - `Init(id, 0)` succeeds. The code tests only `_id` and the base class's
    `_numOfWorkThreads`, never the argument, while `spec.md` says zero
    workers fail. The manager run reaches the NULL slot
    (`MgrAddSocketNoWorker`).
  - Calls before `Init()` index 255 slots.
  - An object added twice stays in the map after one removal.
  - A failed `StopRecordAsync` leaves the camera recording into a deleted
    sink, after which every `StartRecord` fails.
  - A swallowed `SetMediaStreamPropertiesAsync` error. This depends on
    platform behaviour (the camera's mode) outside `src/`.
  - An exception from a `FireEvent` in `OnSampleRequested`, swallowed by
    `catch(...)` without `Complete`. The model takes this path, and the
    source then stalls; `DeferralCompletes` and `NewestFrameShown` exempt it
    by name.
  - `OnComplete` calling a WinRT observer the caller has disabled, and the
    race on `conn_health_stats_`. Both concern abstracted report data.
* **Pool-wide liveness.** `PendingApplied` is checked on one worker
  (`impl`). Over the whole pool it exceeds TLC's reach at these bounds:
  after 15 minutes the liveness check had not finished.

## 5. Plan

1. **Uncovered hazards.** Give each hazard above a violation run, once runs
   whose question is settled can be retired.
