------------------------- MODULE UdpSocketManagerWinRT -------------------------
(***************************************************************************)
(* The pool coordinator UdpSocketManagerWinRT of                            *)
(* src/webrtc/test/channel_transport/udp_socket_manager_winrt.cc composed   *)
(* with its UdpSocketManagerWinRTImpl workers.                              *)
(*                                                                         *)
(* Every public method runs on the caller's thread under _critSect, so the *)
(* calls are serialised; only Stop() spans several steps, because it waits *)
(* in ThreadWrapper::Stop() for each worker thread while holding the lock.  *)
(* The worker threads run concurrently with all of it.                     *)
(***************************************************************************)
EXTENDS UdpSocketManagerImpl

CONSTANTS
  MaxSocketManagers, \* MAX_NUMBER_OF_SOCKET_MANAGERS_LINUX
  ThreadCounts,      \* values of numOfWorkThreads passed to Init()
  Id,                \* the id passed to Init()
  MaxAddCalls        \* bound on AddSocket() calls (history length)

ASSUME Workers = 0 .. MaxSocketManagers - 1
ASSUME ThreadCounts \subseteq 0 .. 255 /\ Id # -1
ASSUME MaxAddCalls \in Nat

VARIABLES
  id,                  \* _id
  numOfWorkThreads,    \* _numOfWorkThreads (of the base class)
  numberOfSocketMgr,   \* _numberOfSocketMgr
  incSocketMgrNextTime,  \* _incSocketMgrNextTime
  nextSocketMgrToAssign, \* _nextSocketMgrToAssign
  mpc,                 \* where the caller's thread is in the manager
  idx,                 \* loop index of Stop() / of the destructor
  retVal,              \* retVal of the Stop() loop
  inDestructor,        \* the Stop() running is the one of the destructor
  assigned,            \* history: worker and result of every AddSocket()
  stopAsked            \* history: workers asked to stop by this Stop()

mgrVars == <<id, numOfWorkThreads, numberOfSocketMgr, incSocketMgrNextTime,
             nextSocketMgrToAssign, mpc, idx, retVal, inDestructor, assigned,
             stopAsked>>
vars == <<implVars, mgrVars>>

\* The slots of _socketMgr that Init() filled.
Created == {i \in Workers : i < numberOfSocketMgr}

MgrTypeOK ==
  /\ TypeOK
  /\ id \in {-1, Id}
  /\ numOfWorkThreads \in 0 .. 255
  /\ numberOfSocketMgr \in 0 .. 255
  /\ incSocketMgrNextTime \in {0, 1}
  /\ nextSocketMgrToAssign \in Workers
  /\ mpc \in {"idle", "stopping", "deleting", "destroyed", "crashed"}
  /\ idx \in 0 .. MaxSocketManagers
  /\ retVal \in BOOLEAN /\ inDestructor \in BOOLEAN
  /\ assigned \in Seq([w : Workers, ok : BOOLEAN])
  /\ stopAsked \subseteq Workers

\* The constructor.
Init ==
  /\ ImplInit
  /\ id = -1
  /\ numOfWorkThreads = 0
  /\ numberOfSocketMgr = 255
  /\ incSocketMgrNextTime = 0
  /\ nextSocketMgrToAssign = 0
  /\ mpc = "idle" /\ idx = 0 /\ retVal = TRUE /\ inDestructor = FALSE
  /\ assigned = <<>>
  /\ stopAsked = {}

\* The caller may call into the manager; the wrapper calls Init() first.
Callable == mpc = "idle" /\ waiting = None
Initialized == id # -1

(***************************************************************************)
(* Init(): fails when already initialised, else records the id and the     *)
(* clamped number of workers and creates them.                             *)
(***************************************************************************)
MgrInit(n) ==
  /\ Callable
  /\ IF id = -1 /\ numOfWorkThreads = 0
     THEN /\ id' = Id
          /\ numOfWorkThreads' = n
          /\ numberOfSocketMgr' = IF MaxSocketManagers < n
                                  THEN MaxSocketManagers ELSE n
     ELSE UNCHANGED <<id, numOfWorkThreads, numberOfSocketMgr>>
  /\ UNCHANGED <<implVars, incSocketMgrNextTime, nextSocketMgrToAssign, mpc,
                 idx, retVal, inDestructor, assigned, stopAsked>>

(***************************************************************************)
(* Start(): starts the workers in order and stops at the first failure;    *)
(* workers 0 .. k-1 start and worker k, if any, fails.                     *)
(***************************************************************************)
MgrStart ==
  /\ Callable /\ Initialized
  /\ \E k \in 0 .. numberOfSocketMgr :
       /\ \A i \in Workers : i < k => thread[i] = "stopped"
       /\ thread' = [i \in Workers |-> IF i < k THEN "running" ELSE thread[i]]
       /\ pc' = [i \in Workers |-> IF i < k THEN "update" ELSE pc[i]]
  /\ UNCHANGED <<addList, removeList, socketMap, ready, alive, waiting,
                 status, deleted, teardown, mgrVars>>

(***************************************************************************)
(* Stop(): for (i = 0; i < _numberOfSocketMgr && retVal; i++)               *)
(*   retVal = _socketMgr[i]->Stop();                                        *)
(* Also the first half of the destructor.                                  *)
(***************************************************************************)
MgrStopBegin(destructor) ==
  /\ Callable /\ Initialized
  /\ mpc' = "stopping" /\ idx' = 0 /\ retVal' = TRUE
  /\ inDestructor' = destructor
  /\ stopAsked' = {}
  /\ UNCHANGED <<implVars, id, numOfWorkThreads, numberOfSocketMgr,
                 incSocketMgrNextTime, nextSocketMgrToAssign, assigned>>

MgrStopCall ==
  /\ mpc = "stopping" /\ waiting = None
  /\ idx < numberOfSocketMgr /\ retVal
  /\ ImplStopBegin(idx)
  /\ stopAsked' = stopAsked \cup {idx}
  /\ UNCHANGED <<addList, removeList, socketMap, pc, ready, alive, status,
                 deleted, teardown, id, numOfWorkThreads, numberOfSocketMgr,
                 incSocketMgrNextTime, nextSocketMgrToAssign, mpc, idx,
                 retVal, inDestructor, assigned>>

MgrStopReturn ==
  /\ mpc = "stopping"
  /\ \E ok \in BOOLEAN : StopResult(ok) /\ retVal' = ok
  /\ idx' = idx + 1
  /\ UNCHANGED <<addList, removeList, socketMap, thread, pc, ready, alive,
                 status, deleted, teardown, id, numOfWorkThreads,
                 numberOfSocketMgr, incSocketMgrNextTime,
                 nextSocketMgrToAssign, mpc, inDestructor, assigned,
                 stopAsked>>

\* The loop ends; Stop() returns retVal, or the destructor goes on to
\* delete the workers whatever Stop() returned.
MgrStopDone ==
  /\ mpc = "stopping" /\ waiting = None
  /\ ~(idx < numberOfSocketMgr /\ retVal)
  /\ mpc' = IF inDestructor THEN "deleting" ELSE "idle"
  /\ idx' = 0
  /\ UNCHANGED <<implVars, id, numOfWorkThreads, numberOfSocketMgr,
                 incSocketMgrNextTime, nextSocketMgrToAssign, retVal,
                 inDestructor, assigned, stopAsked>>

\* ~UdpSocketManagerWinRT(): delete _socketMgr[i] for every created slot.
MgrDelete ==
  /\ mpc = "deleting"
  /\ IF idx < numberOfSocketMgr
     THEN /\ ImplDestroy(idx)
          /\ idx' = idx + 1
          /\ UNCHANGED <<thread, pc, ready, waiting, status, mpc>>
     ELSE /\ mpc' = "destroyed"
          /\ UNCHANGED <<implVars, idx>>
  /\ UNCHANGED <<id, numOfWorkThreads, numberOfSocketMgr,
                 incSocketMgrNextTime, nextSocketMgrToAssign, retVal,
                 inDestructor, assigned, stopAsked>>

(***************************************************************************)
(* AddSocket(): delegate to _socketMgr[_nextSocketMgrToAssign], then move  *)
(* the cursor on every second call, whatever the delegate returned.        *)
(***************************************************************************)
NextCursor ==
  IF nextSocketMgrToAssign + 1 >= numberOfSocketMgr
  THEN 0 ELSE nextSocketMgrToAssign + 1

\* Seeded fault: the cursor moves on every call.
AdvanceEveryCall ==
  /\ incSocketMgrNextTime' = 0
  /\ nextSocketMgrToAssign' = NextCursor

\* The _incSocketMgrNextTime toggle: move the cursor on every second call.
AdvanceCursor ==
  IF incSocketMgrNextTime = 0
  THEN /\ incSocketMgrNextTime' = 1
       /\ UNCHANGED nextSocketMgrToAssign
  ELSE /\ incSocketMgrNextTime' = 0
       /\ nextSocketMgrToAssign' = NextCursor

MgrAddSocket(s) ==
  LET w == nextSocketMgrToAssign IN
  /\ Callable /\ Initialized /\ status[s] = "held"
  /\ Len(assigned) < MaxAddCalls
  /\ w \in Created
  /\ ImplAddSocket(w, s)
  /\ status' = IF AddAccepted(w, s) THEN [status EXCEPT ![s] = "registered"]
               ELSE status
  /\ assigned' = Append(assigned, [w |-> w, ok |-> AddAccepted(w, s)])
  /\ AdvanceCursor
  /\ UNCHANGED <<removeList, socketMap, thread, pc, ready, alive, waiting,
                 deleted, teardown, id, numOfWorkThreads, numberOfSocketMgr,
                 mpc, idx, retVal, inDestructor, stopAsked>>

\* With no worker created, _socketMgr[0] is NULL and the call crashes.
MgrAddSocketNoWorker(s) ==
  /\ Callable /\ Initialized /\ status[s] = "held"
  /\ nextSocketMgrToAssign \notin Created
  /\ mpc' = "crashed"
  /\ UNCHANGED <<implVars, id, numOfWorkThreads, numberOfSocketMgr,
                 incSocketMgrNextTime, nextSocketMgrToAssign, idx, retVal,
                 inDestructor, assigned, stopAsked>>

(***************************************************************************)
(* RemoveSocket(): ask the workers in order until one finds the socket.    *)
(***************************************************************************)
MgrRemoveSocket(s) ==
  LET finders == {i \in Created : RemoveFound(i, s)} IN
  /\ Callable /\ Initialized /\ status[s] # "removed"
  /\ IF finders = {}
     THEN UNCHANGED <<removeList, status>>
     ELSE /\ ImplRemoveSocket(Min(finders), s)
          /\ status' = [status EXCEPT ![s] = "removed"]
  /\ UNCHANGED <<addList, socketMap, thread, pc, ready, alive, waiting,
                 deleted, teardown, mgrVars>>

\* After the destructor or a crash nothing of the manager runs any more.
Terminated ==
  /\ mpc \in {"destroyed", "crashed"}
  /\ UNCHANGED vars

WorkerThread(w) == WorkerStep(w) /\ UNCHANGED mgrVars

Next ==
  \/ \E n \in ThreadCounts : MgrInit(n)
  \/ MgrStart
  \/ \E d \in BOOLEAN : MgrStopBegin(d)
  \/ MgrStopCall \/ MgrStopReturn \/ MgrStopDone \/ MgrDelete
  \/ \E s \in Sockets : MgrAddSocket(s) \/ MgrAddSocketNoWorker(s)
  \/ \E s \in Sockets : MgrRemoveSocket(s)
  \/ \E w \in Workers : WorkerThread(w)
  \/ Terminated

\* The worker threads are dedicated OS threads; the caller's thread, once
\* inside Stop() or the destructor, runs to the end of it.
Fairness ==
  /\ \A w \in Workers : WF_vars(WorkerThread(w))
  /\ WF_vars(MgrStopCall \/ MgrStopReturn \/ MgrStopDone \/ MgrDelete)

Spec == Init /\ [][Next]_vars /\ Fairness

-----------------------------------------------------------------------------
(***************************************************************************)
(* Properties.                                                             *)
(***************************************************************************)

\* The worker the k-th AddSocket() call goes to when the cursor moves on
\* every second call: 0, 0, 1, 1, ..., wrapping at _numberOfSocketMgr.
RoundRobinWorker(k) == ((k - 1) \div 2) % numberOfSocketMgr

(* Round-robin alternation: AddSocket() hands the k-th call to worker       *)
(* ((k-1) div 2) mod _numberOfSocketMgr, i.e. two calls per worker before   *)
(* the cursor moves on, as the _incSocketMgrNextTime toggle intends.        *)
RoundRobinAlternation ==
  \A k \in DOMAIN assigned : assigned[k].w = RoundRobinWorker(k)

(* Teardown: the destructor deletes a UdpSocketManagerWinRTImpl only once   *)
(* its thread has stopped, so no poll thread runs Process() on a deleted    *)
(* Impl or its deleted sockets.                                            *)
ImplDeletedAfterThreadStopped ==
  \A w \in Workers : ~alive[w] => thread[w] = "stopped"

(* Refinement: the pool implements the SocketRegistry abstraction.  A      *)
(* socket pending or live in a worker and not queued for removal is         *)
(* registered, one queued for removal is retiring, a deleted one is         *)
(* destroyed; every step of the callers, the poll threads and the          *)
(* destructor is a step of SocketRegistry or leaves this view unchanged.    *)
Registry == INSTANCE SocketRegistry WITH
  registered <- {s \in Sockets : Owners(s) # {} /\ Retirers(s) = {}},
  retiring <- {s \in Sockets : Retirers(s) # {}},
  destroyed <- {s \in Sockets : deleted[s] > 0}

RegistryRefinement == Registry!Spec

=============================================================================
