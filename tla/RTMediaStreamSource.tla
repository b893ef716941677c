------------------------- MODULE RTMediaStreamSource -------------------------
(***************************************************************************)
(* RTMediaStreamSource (Api/RTMediaStreamSource.cc): the bridge from a     *)
(* webrtc video track to a WinRT MediaStreamSource.  Three parties act on  *)
(* each source:                                                            *)
(*  - the webrtc render thread, whose RTCRenderer::RenderFrame stores the  *)
(*    latest frame under the source's _lock;                               *)
(*  - the Media Foundation thread that raises SampleRequested and runs     *)
(*    OnSampleRequested: an unlocked test of _mediaStreamSource, a         *)
(*    deferral, then _lock, then gMediaStreamListLock, while it fills the  *)
(*    sample; an exception out of a UI event it fires ends it in the       *)
(*    catch(...) that only logs;                                           *)
(*  - the Closed event, whose OnClosed removes the source from the global  *)
(*    list under gMediaStreamListLock and clears _mediaStreamSource.       *)
(* gMediaStreamListLock is only held inside one step (CreateMediaSource's  *)
(* append, OnClosed, the locked part of OnSampleRequested), so it is not a *)
(* variable; _lock is held by the sample handler across two steps.         *)
(* A frame is its arrival number and its size; the pixel conversion, the   *)
(* sample timestamps and the UI events are abstracted.                     *)
(***************************************************************************)
EXTENDS Integers

CONSTANTS
  Sources,    \* the RTMediaStreamSource objects CreateMediaSource makes
  Sizes,      \* the frame sizes the track delivers, as <<width, height>>
  MaxFrames,  \* frames the render thread delivers to each source
  MaxAllocFailures \* failed MFCreateSample/MFCreate2DMediaBuffer per source

\* The initial descriptor of CreateMediaSource: 320x240.
InitialSize == <<320, 240>>

\* _frame.get() == nullptr.
NoFrame == [n |-> 0, size |-> <<0, 0>>]
Frames == [n : 1..MaxFrames, size : Sizes]

VARIABLES
  phase,     \* per source: "none" (not created), "open", "closed" (Closed raised)
  listed,    \* the sources in gMediaStreamList
  mss,       \* per source: _mediaStreamSource != nullptr
  frame,     \* per source: _frame
  isNew,     \* per source: _isNewFrame
  counter,   \* per source: _frameCounter
  desc,      \* per source: _videoDesc width and height
  slock,     \* per source: _lock held by the sample handler
  pc,        \* per source: the sample handler, "idle", "check", "defer", "lock",
             \* "glock"
  deferred,  \* per source: a deferral was taken and not completed
  leaked,    \* per source: the handler left through catch(...) with its deferral
  shown,     \* per source: the last sample set: its frame and its buffer size
  received,  \* per source: frames delivered by the render thread
  failures   \* per source: allocations that failed so far

vars == <<phase, listed, mss, frame, isNew, counter, desc, slock, pc,
          deferred, leaked, shown, received, failures>>

TypeOK ==
  /\ phase \in [Sources -> {"none", "open", "closed"}]
  /\ listed \subseteq Sources
  /\ mss \in [Sources -> BOOLEAN]
  /\ frame \in [Sources -> Frames \cup {NoFrame}]
  /\ isNew \in [Sources -> BOOLEAN]
  /\ counter \in [Sources -> 0..MaxFrames + 1]
  /\ desc \in [Sources -> Sizes \cup {InitialSize}]
  /\ slock \in [Sources -> BOOLEAN]
  /\ pc \in [Sources -> {"idle", "check", "defer", "lock", "glock"}]
  /\ deferred \in [Sources -> BOOLEAN]
  /\ leaked \in [Sources -> BOOLEAN]
  /\ shown \in [Sources -> [frame : Frames \cup {NoFrame},
                            buf : Sizes \cup {InitialSize, <<0, 0>>}]]
  /\ received \in [Sources -> 0..MaxFrames]
  /\ failures \in [Sources -> 0..MaxAllocFailures]

\* The namespace globals and the constructor's initial values.
Init ==
  /\ phase = [s \in Sources |-> "none"]
  /\ listed = {}
  /\ mss = [s \in Sources |-> FALSE]
  /\ frame = [s \in Sources |-> NoFrame]
  /\ isNew = [s \in Sources |-> TRUE]
  /\ counter = [s \in Sources |-> 0]
  /\ desc = [s \in Sources |-> InitialSize]
  /\ slock = [s \in Sources |-> FALSE]
  /\ pc = [s \in Sources |-> "idle"]
  /\ deferred = [s \in Sources |-> FALSE]
  /\ leaked = [s \in Sources |-> FALSE]
  /\ shown = [s \in Sources |-> [frame |-> NoFrame, buf |-> <<0, 0>>]]
  /\ received = [s \in Sources |-> 0]
  /\ failures = [s \in Sources |-> 0]

(***************************************************************************)
(* CreateMediaSource: the renderer is attached to the track, the handlers  *)
(* registered, _mediaStreamSource set and the object appended to the list  *)
(* under gMediaStreamListLock.  No sample is requested before it returns.  *)
(***************************************************************************)
CreateMediaSource(s) ==
  /\ phase[s] = "none"
  /\ phase' = [phase EXCEPT ![s] = "open"]
  /\ mss' = [mss EXCEPT ![s] = TRUE]
  /\ listed' = listed \cup {s}
  /\ UNCHANGED <<frame, isNew, counter, desc, slock, pc, deferred, leaked, shown,
                 received, failures>>

\* ProcessReceivedFrame: under _lock, keep a copy of the frame and mark it new.
ProcessReceivedFrame(s, f) ==
  /\ ~slock[s]
  /\ frame' = [frame EXCEPT ![s] = f]
  /\ isNew' = [isNew EXCEPT ![s] = TRUE]

\* RTCRenderer::RenderFrame: the weak reference resolves while the object lives.
RenderFrame(s) ==
  /\ phase[s] # "none"
  /\ received[s] < MaxFrames
  /\ \E sz \in Sizes :
       ProcessReceivedFrame(s, [n |-> received[s] + 1, size |-> sz])
  /\ received' = [received EXCEPT ![s] = @ + 1]
  /\ UNCHANGED <<phase, listed, mss, counter, desc, slock, pc, deferred, leaked, shown,
                 failures>>

\* Media Foundation raises SampleRequested on an open source whose previous
\* request is complete.
SampleRequested(s) ==
  /\ phase[s] = "open"
  /\ pc[s] = "idle"
  /\ ~deferred[s]
  /\ pc' = [pc EXCEPT ![s] = "check"]
  /\ UNCHANGED <<phase, listed, mss, frame, isNew, counter, desc, slock,
                 deferred, leaked, shown, received, failures>>

\* Seeded fault: the request is served without the _mediaStreamSource test.
CheckSourceUnguarded(s) ==
  /\ pc[s] = "check"
  /\ pc' = [pc EXCEPT ![s] = "defer"]
  /\ UNCHANGED <<phase, listed, mss, frame, isNew, counter, desc, slock,
                 deferred, leaked, shown, received, failures>>

\* The unlocked test of _mediaStreamSource: a cleared pointer returns with no
\* sample.  Nothing is held, so OnClosed may run before the deferral is taken.
CheckSource(s) ==
  /\ pc[s] = "check"
  /\ pc' = [pc EXCEPT ![s] = IF mss[s] THEN "defer" ELSE "idle"]
  /\ UNCHANGED <<phase, listed, mss, frame, isNew, counter, desc, slock,
                 deferred, leaked, shown, received, failures>>

\* request->GetDeferral().
TakeDeferral(s) ==
  /\ pc[s] = "defer"
  /\ pc' = [pc EXCEPT ![s] = "lock"]
  /\ deferred' = [deferred EXCEPT ![s] = TRUE]
  /\ UNCHANGED <<phase, listed, mss, frame, isNew, counter, desc, slock,
                 leaked, shown, received, failures>>

\* The outcome of a Media Foundation allocation: it fails at most
\* MaxAllocFailures times per source (failures are transient).
AllocOutcomes(s) == IF failures[s] < MaxAllocFailures THEN BOOLEAN ELSE {TRUE}
CountFailure(s, ok) == failures' = [failures EXCEPT ![s] = IF ok THEN @ ELSE @ + 1]

\* _lock is taken; MFCreateSample may fail, which completes and returns.
SampleLocked(s) ==
  /\ pc[s] = "lock"
  /\ ~slock[s]
  /\ \E ok \in AllocOutcomes(s) :
       /\ CountFailure(s, ok)
       /\ IF ok
            THEN /\ slock' = [slock EXCEPT ![s] = TRUE]
                 /\ pc' = [pc EXCEPT ![s] = "glock"]
                 /\ UNCHANGED deferred
            ELSE /\ pc' = [pc EXCEPT ![s] = "idle"]
                 /\ deferred' = [deferred EXCEPT ![s] = FALSE]
                 /\ UNCHANGED slock
  /\ UNCHANGED <<phase, listed, mss, frame, isNew, counter, desc, leaked,
                 shown, received>>

\* The FPS block: a new frame is counted; after about a second the count is
\* reported through FrameCounterHelper::FireEvent and then restarts, unless
\* the event throws first.
CountFrame(s, second, throws) ==
  IF isNew[s]
    THEN /\ isNew' = [isNew EXCEPT ![s] = FALSE]
         /\ counter' = [counter EXCEPT ![s] = IF second /\ ~throws THEN 0
                                                                   ELSE @ + 1]
    ELSE UNCHANGED <<isNew, counter>>

\* The resize block's test: a current frame of another size than _videoDesc.
Resized(s) == frame[s] # NoFrame /\ desc[s] # frame[s].size

\* Seeded fault: the resize test compares the widths only.
ResizeDescriptorWidthOnly(s) ==
  desc' = [desc EXCEPT ![s] = IF frame[s] # NoFrame /\ @[1] # frame[s].size[1]
                                THEN frame[s].size ELSE @]

\* Seeded fault: the descriptor copies width and height crossed.
ResizeDescriptorSwapped(s) ==
  desc' = [desc EXCEPT ![s] = IF Resized(s)
                                THEN <<frame[s].size[2], frame[s].size[1]>>
                                ELSE @]

\* The descriptor follows the size of the current frame.
ResizeDescriptor(s) ==
  desc' = [desc EXCEPT ![s] = IF Resized(s) THEN frame[s].size ELSE @]

\* How the rest of the request ends, each failure at most MaxAllocFailures
\* times per source: "ok"; "noBuffer", MFCreate2DMediaBuffer fails; "noConvert",
\* ConvertFrame cannot lock the buffer and returns false, which is ignored.
\* A failed SetSample also completes with no new sample, as "noBuffer" does.
ServeOutcomes(s) ==
  IF failures[s] < MaxAllocFailures THEN {"ok", "noBuffer", "noConvert"}
                                    ELSE {"ok"}

\* The sample left set: frame f converted into a buffer of the descriptor's
\* new size, the buffer unwritten, or no new sample.
SetSample(s, f, out) ==
  shown' = CASE out = "ok"        -> [shown EXCEPT ![s] = [frame |-> f, buf |-> desc'[s]]]
             [] out = "noConvert" -> [shown EXCEPT ![s] = [frame |-> NoFrame, buf |-> desc'[s]]]
             [] out = "noBuffer"  -> shown

\* Seeded fault: the failed MFCreate2DMediaBuffer returns without Complete.
CompleteRequestLeaksDeferral(s) ==
  \E out \in ServeOutcomes(s) :
    /\ failures' = [failures EXCEPT ![s] = IF out = "ok" THEN @ ELSE @ + 1]
    /\ SetSample(s, frame[s], out)
    /\ deferred' = [deferred EXCEPT ![s] = out = "noBuffer" /\ @]

\* Seeded fault: the frame is converted only while it is still marked new,
\* a test made after the FPS block cleared the mark.
CompleteRequestOnlyNew(s) ==
  \E out \in ServeOutcomes(s) :
    /\ failures' = [failures EXCEPT ![s] = IF out = "ok" THEN @ ELSE @ + 1]
    /\ SetSample(s, IF isNew'[s] THEN frame[s] ELSE NoFrame, out)
    /\ deferred' = [deferred EXCEPT ![s] = FALSE]

(***************************************************************************)
(* MFCreate2DMediaBuffer of the descriptor's size, ConvertFrame of the     *)
(* current frame into it (skipped while there is none), SetSample and      *)
(* Complete.  A failed allocation completes with no sample; a failed       *)
(* conversion sets a sample that shows no frame.                           *)
(***************************************************************************)
CompleteRequest(s) ==
  \E out \in ServeOutcomes(s) :
    /\ failures' = [failures EXCEPT ![s] = IF out = "ok" THEN @ ELSE @ + 1]
    /\ SetSample(s, frame[s], out)
    /\ deferred' = [deferred EXCEPT ![s] = FALSE]

(***************************************************************************)
(* The rest of OnSampleRequested, under _lock and gMediaStreamListLock: the *)
(* FPS block, the resize, then CompleteRequest.  FrameCounterHelper's and   *)
(* ResolutionHelper's FireEvent run application handlers and may throw; the *)
(* exception unwinds both locks into catch(...), which only logs: the      *)
(* deferral is never completed.  Both locks are released on every exit.    *)
(***************************************************************************)
SampleServe(s) ==
  /\ pc[s] = "glock"
  /\ \E second, fpsThrows, sizeThrows \in BOOLEAN :
       /\ fpsThrows => isNew[s] /\ second
       /\ sizeThrows => ~fpsThrows /\ Resized(s)
       /\ CountFrame(s, second, fpsThrows)
       /\ IF fpsThrows THEN UNCHANGED desc ELSE ResizeDescriptor(s)
       /\ IF fpsThrows \/ sizeThrows
            THEN /\ leaked' = [leaked EXCEPT ![s] = TRUE]
                 /\ UNCHANGED <<deferred, shown, failures>>
            ELSE /\ CompleteRequest(s)
                 /\ UNCHANGED leaked
  /\ slock' = [slock EXCEPT ![s] = FALSE]
  /\ pc' = [pc EXCEPT ![s] = "idle"]
  /\ UNCHANGED <<phase, listed, mss, frame, received>>

\* Closed is raised; OnClosed, under gMediaStreamListLock, removes the source
\* whose _mediaStreamSource is the sender and clears the pointer.
OnClosed(s) ==
  /\ phase[s] = "open"
  /\ phase' = [phase EXCEPT ![s] = "closed"]
  /\ IF s \in listed
       THEN /\ listed' = listed \ {s}
            /\ mss' = [mss EXCEPT ![s] = FALSE]
       ELSE UNCHANGED <<listed, mss>>
  /\ UNCHANGED <<frame, isNew, counter, desc, slock, pc, deferred, leaked, shown,
                 received, failures>>

\* Every source closed, its handler idle and its frames delivered.
Terminating ==
  /\ \A s \in Sources : phase[s] = "closed" /\ pc[s] = "idle"
                        /\ received[s] = MaxFrames
  /\ UNCHANGED vars

Next ==
  \/ \E s \in Sources :
       \/ CreateMediaSource(s) \/ RenderFrame(s) \/ OnClosed(s)
       \/ SampleRequested(s) \/ CheckSource(s) \/ TakeDeferral(s)
       \/ SampleLocked(s) \/ SampleServe(s)
  \/ Terminating

(***************************************************************************)
(* Media Foundation completes what it started: the handler runs once       *)
(* raised, and a playing source is asked for its next sample.  The render  *)
(* thread, the creation and the closing are not forced.                    *)
(***************************************************************************)
Fairness ==
  \A s \in Sources :
    /\ WF_vars(SampleRequested(s)) /\ WF_vars(CheckSource(s))
    /\ WF_vars(TakeDeferral(s))
    /\ WF_vars(SampleLocked(s)) /\ WF_vars(SampleServe(s))

Spec == Init /\ [][Next]_vars /\ Fairness

-----------------------------------------------------------------------------
(* ConvertFrame writes the frame's width x height pixels into the buffer   *)
(* made from _videoDesc: every sample that shows a frame has a buffer of   *)
(* that frame's size.  The resize block must keep the descriptor in step   *)
(* with frames stored by the render thread between requests.               *)
BufferFitsFrame ==
  \A s \in Sources :
    shown[s].frame # NoFrame => shown[s].buf = shown[s].frame.size

(* Every deferral OnSampleRequested takes is completed, on each HRESULT    *)
(* error path and when the source is closed while the request is in       *)
(* progress, unless an exception from a FireEvent ends the handler in its *)
(* catch(...), which does not complete it: the stream then stalls.         *)
DeferralCompletes ==
  \A s \in Sources : deferred[s] ~> (~deferred[s] \/ leaked[s])

(* A frame the render thread stores is shown by a later sample, unless a   *)
(* newer frame replaces it, the source is closed first, or the stream has  *)
(* stalled on a deferral left by the catch(...) exit.                      *)
NewestFrameShown ==
  \A s \in Sources, f \in Frames :
    frame[s] = f ~> \/ shown[s].frame = f \/ frame[s] # f
                    \/ phase[s] = "closed" \/ leaked[s]

(* The sample handler, seen from Media Foundation: a request is accepted   *)
(* when the unlocked test passes, abandoned when the catch(...) exit keeps *)
(* its deferral, completed by the other exits; the other steps stutter.   *)
Stream == INSTANCE SampleStream
            WITH latest <- frame,
                 request <- [s \in Sources |->
                               IF leaked[s] THEN "abandoned"
                               ELSE IF pc[s] \in {"defer", "lock", "glock"}
                                      THEN "waiting" ELSE "none"],
                 served <- shown

(* The source implements SampleStream: a request is accepted only while   *)
(* the source is open (the unlocked test of _mediaStreamSource still sees *)
(* OnClosed's write), each sample shows the frame that is newest when it   *)
(* is set, or no frame, in a buffer of that frame's size, although the    *)
(* render thread may store frames between the handler's steps, and every  *)
(* accepted request is completed or abandoned.                             *)
StreamRefinement == Stream!SSpec
=============================================================================
