------------------------- MODULE UdpSocketManagerImpl -------------------------
(***************************************************************************)
(* The per-thread socket poller UdpSocketManagerWinRTImpl of               *)
(* src/webrtc/test/channel_transport/udp_socket_manager_winrt.cc.          *)
(*                                                                         *)
(* Each worker w owns a dedicated thread that loops over Process():        *)
(* UpdateSocketMap() folds the deferred _removeList and _addList into      *)
(* _socketMap under _critSectList, then select() waits on the map's        *)
(* sockets and HasIncoming() is called on the ready ones.  Callers (the    *)
(* manager, on its own thread) only append to _addList / _removeList.      *)
(*                                                                         *)
(* A socket object is identified with its descriptor: GetFd() of a valid   *)
(* object is the object itself, of an object in InvalidSockets it is       *)
(* INVALID_SOCKET.  Sockets are integers so that the ascending iteration   *)
(* order of std::map<SOCKET, ...> is available.                            *)
(*                                                                         *)
(* The caller's view of each socket (status) and the number of deletions   *)
(* and ReadyForDeletion() calls per socket are history variables used by   *)
(* the properties only.                                                    *)
(***************************************************************************)
EXTENDS Integers, FiniteSets, Sequences, SequencesExt

CONSTANTS
  Workers,         \* the UdpSocketManagerWinRTImpl instances
  Sockets,         \* socket objects a caller may hand in (integers)
  InvalidSockets,  \* objects whose GetFd() is INVALID_SOCKET
  FdSetSize,       \* FD_SETSIZE
  StopMayTimeOut,  \* ThreadWrapper::Stop() may return false
  None             \* the caller is blocked in no Stop()

ASSUME InvalidSockets \subseteq Sockets /\ Sockets \subseteq Nat
ASSUME FdSetSize \in Nat \ {0} /\ StopMayTimeOut \in BOOLEAN
ASSUME None \notin Workers

VARIABLES
  addList,     \* _addList: sockets queued for insertion
  removeList,  \* _removeList: descriptors queued for removal
  socketMap,   \* _socketMap: the descriptors polled by select()
  thread,      \* the worker thread: "stopped", "running" or "stopping"
  pc,          \* where the thread is in Process()
  ready,       \* the descriptors select() reported readable
  alive,       \* the Impl object has not been deleted
  waiting,     \* the worker whose ThreadWrapper::Stop() the caller waits in
  status,      \* history: the caller's view of each socket
  deleted,     \* history: number of times each socket was deleted
  teardown     \* history: number of ReadyForDeletion() calls per socket

implVars == <<addList, removeList, socketMap, thread, pc, ready, alive,
              waiting, status, deleted, teardown>>

ValidSockets == Sockets \ InvalidSockets

TypeOK ==
  /\ addList \in [Workers -> Seq(ValidSockets)]
  /\ removeList \in [Workers -> Seq(ValidSockets)]
  /\ socketMap \in [Workers -> SUBSET ValidSockets]
  /\ thread \in [Workers -> {"stopped", "running", "stopping"}]
  /\ pc \in [Workers -> {"update", "select", "dispatch"}]
  /\ ready \in [Workers -> SUBSET ValidSockets]
  /\ alive \in [Workers -> BOOLEAN]
  /\ waiting \in Workers \cup {None}
  /\ status \in [Sockets -> {"held", "registered", "removed"}]
  /\ deleted \in [Sockets -> Nat]
  /\ teardown \in [Sockets -> Nat]

ImplInit ==
  /\ addList = [w \in Workers |-> <<>>]
  /\ removeList = [w \in Workers |-> <<>>]
  /\ socketMap = [w \in Workers |-> {}]
  /\ thread = [w \in Workers |-> "stopped"]
  /\ pc = [w \in Workers |-> "update"]
  /\ ready = [w \in Workers |-> {}]
  /\ alive = [w \in Workers |-> TRUE]
  /\ waiting = None
  /\ status = [s \in Sockets |-> "held"]
  /\ deleted = [s \in Sockets |-> 0]
  /\ teardown = [s \in Sockets |-> 0]

(***************************************************************************)
(* UpdateSocketMap().  For each descriptor of _removeList in order: erase  *)
(* its first entry from _addList, erase it from _socketMap, and if either  *)
(* held it call ReadyForDeletion() and delete it.  Then every entry of     *)
(* _addList is inserted into _socketMap and both lists are cleared.  The   *)
(* result records the new map and the sequence of deleted sockets.         *)
(***************************************************************************)
\* Seeded fault: the socket is deleted but its map entry is not erased.
RemoveOneKeepsMapEntry(st, fd) ==
  [add |-> RemoveFirst(st.add, fd),
   map |-> st.map,
   del |-> IF Contains(st.add, fd) \/ fd \in st.map
           THEN Append(st.del, fd) ELSE st.del]

RemoveOne(st, fd) ==
  [add |-> RemoveFirst(st.add, fd),
   map |-> st.map \ {fd},
   del |-> IF Contains(st.add, fd) \/ fd \in st.map
           THEN Append(st.del, fd) ELSE st.del]

UpdateSocketMap(add, rem, map) ==
  LET st == FoldLeft(RemoveOne, [add |-> add, map |-> map, del |-> <<>>], rem)
  IN  [map |-> st.map \cup ToSet(st.add), del |-> st.del]

\* How often s occurs in a sequence of deleted sockets.
Occurrences(seq, s) == Cardinality({i \in DOMAIN seq : seq[i] = s})

\* FD_SET() silently ignores a descriptor once fd_count = FD_SETSIZE; the
\* map is walked in ascending descriptor order.
Polled(map) == {s \in map : Cardinality({t \in map : t < s}) < FdSetSize}

(***************************************************************************)
(* The worker thread.  ThreadWrapper calls Process() in a loop and checks  *)
(* the stop flag between two calls, i.e. at pc = "update".                 *)
(***************************************************************************)

\* Process() up to the select(): UpdateSocketMap(), then sleep and return
\* when the map is empty.
\* Seeded fault: _removeList.clear() is missing.
UpdateKeepsRemoveList(w) ==
  LET u == UpdateSocketMap(addList[w], removeList[w], socketMap[w])
  IN  /\ alive[w] /\ thread[w] = "running" /\ pc[w] = "update"
      /\ socketMap' = [socketMap EXCEPT ![w] = u.map]
      /\ addList' = [addList EXCEPT ![w] = <<>>]
      /\ UNCHANGED removeList
      /\ deleted' = [s \in Sockets |-> deleted[s] + Occurrences(u.del, s)]
      /\ teardown' = [s \in Sockets |-> teardown[s] + Occurrences(u.del, s)]
      /\ pc' = [pc EXCEPT ![w] = IF u.map = {} THEN "update" ELSE "select"]
      /\ UNCHANGED <<thread, ready, alive, waiting, status>>

\* Seeded fault: the empty-map sleep is taken before UpdateSocketMap().
UpdateOnlyWhenPolling(w) ==
  LET u == UpdateSocketMap(addList[w], removeList[w], socketMap[w])
  IN  /\ alive[w] /\ thread[w] = "running" /\ pc[w] = "update"
      /\ IF socketMap[w] = {}
         THEN UNCHANGED <<socketMap, addList, removeList, deleted, teardown, pc>>
         ELSE /\ socketMap' = [socketMap EXCEPT ![w] = u.map]
              /\ addList' = [addList EXCEPT ![w] = <<>>]
              /\ removeList' = [removeList EXCEPT ![w] = <<>>]
              /\ deleted' = [s \in Sockets |-> deleted[s] + Occurrences(u.del, s)]
              /\ teardown' = [s \in Sockets |-> teardown[s] + Occurrences(u.del, s)]
              /\ pc' = [pc EXCEPT ![w] = IF u.map = {} THEN "update" ELSE "select"]
      /\ UNCHANGED <<thread, ready, alive, waiting, status>>

Update(w) ==
  LET u == UpdateSocketMap(addList[w], removeList[w], socketMap[w])
  IN  /\ alive[w] /\ thread[w] = "running" /\ pc[w] = "update"
      /\ socketMap' = [socketMap EXCEPT ![w] = u.map]
      /\ addList' = [addList EXCEPT ![w] = <<>>]
      /\ removeList' = [removeList EXCEPT ![w] = <<>>]
      /\ deleted' = [s \in Sockets |-> deleted[s] + Occurrences(u.del, s)]
      /\ teardown' = [s \in Sockets |-> teardown[s] + Occurrences(u.del, s)]
      /\ pc' = [pc EXCEPT ![w] = IF u.map = {} THEN "update" ELSE "select"]
      /\ UNCHANGED <<thread, ready, alive, waiting, status>>

\* select() with a 10 ms timeout: SOCKET_ERROR sleeps and returns; otherwise
\* some subset of the sockets in the fd_set is readable (none on timeout).
Select(w) ==
  /\ alive[w] /\ thread[w] # "stopped" /\ pc[w] = "select"
  /\ \/ pc' = [pc EXCEPT ![w] = "update"] /\ UNCHANGED ready
     \/ \E r \in SUBSET Polled(socketMap[w]) :
          /\ ready' = [ready EXCEPT ![w] = r]
          /\ pc' = [pc EXCEPT ![w] = "dispatch"]
  /\ UNCHANGED <<addList, removeList, socketMap, thread, alive, waiting,
                 status, deleted, teardown>>

\* HasIncoming() on every ready socket of the map; Process() returns true.
Dispatch(w) ==
  /\ alive[w] /\ thread[w] # "stopped" /\ pc[w] = "dispatch"
  /\ ready' = [ready EXCEPT ![w] = {}]
  /\ pc' = [pc EXCEPT ![w] = "update"]
  /\ UNCHANGED <<addList, removeList, socketMap, thread, alive, waiting,
                 status, deleted, teardown>>

\* The thread sees the stop flag between two Process() calls and exits.
ThreadExit(w) ==
  /\ alive[w] /\ thread[w] = "stopping" /\ pc[w] = "update"
  /\ thread' = [thread EXCEPT ![w] = "stopped"]
  /\ UNCHANGED <<addList, removeList, socketMap, pc, ready, alive, waiting,
                 status, deleted, teardown>>

WorkerStep(w) == Update(w) \/ Select(w) \/ Dispatch(w) \/ ThreadExit(w)

(***************************************************************************)
(* The operations a caller invokes.  They change the worker's variables    *)
(* only; the caller's own bookkeeping is done by the calling action.       *)
(***************************************************************************)

\* AddSocket(): reject an invalid descriptor or a full _socketMap (read
\* without the lock), else append to _addList under _critSectList.
\* Seeded fault: the INVALID_SOCKET test is dropped.
AddAcceptsInvalid(w, s) == Cardinality(socketMap[w]) < FdSetSize

AddAccepted(w, s) ==
  s \notin InvalidSockets /\ Cardinality(socketMap[w]) < FdSetSize

ImplAddSocket(w, s) ==
  addList' = IF AddAccepted(w, s)
             THEN [addList EXCEPT ![w] = Append(@, s)] ELSE addList

\* RemoveSocket(): found in _addList or in _socketMap, queue the descriptor.
\* Seeded fault: RemoveSocket() queues the descriptor without finding it.
RemoveFoundAlways(w, s) == TRUE

RemoveFound(w, s) == Contains(addList[w], s) \/ s \in socketMap[w]

ImplRemoveSocket(w, s) ==
  removeList' = IF RemoveFound(w, s)
                THEN [removeList EXCEPT ![w] = Append(@, s)] ELSE removeList

\* Start(): ThreadWrapper::Start() succeeds (ok) only on a stopped thread;
\* it may also fail to create the thread.
ImplStart(w, ok) ==
  /\ ok => thread[w] = "stopped"
  /\ thread' = IF ok THEN [thread EXCEPT ![w] = "running"] ELSE thread
  /\ pc' = IF ok THEN [pc EXCEPT ![w] = "update"] ELSE pc

\* Stop(): ThreadWrapper::Stop() raises the stop flag and waits for the
\* thread; the caller is blocked in waiting until StopReturns.
ImplStopBegin(w) ==
  /\ thread' = IF thread[w] = "running"
               THEN [thread EXCEPT ![w] = "stopping"] ELSE thread
  /\ waiting' = w

\* The wait ends when the thread has exited (true) or, where the wrapper
\* times out, while it is still running (false).
StopResult(ok) ==
  /\ waiting # None
  /\ \/ ok /\ thread[waiting] = "stopped"
     \/ ~ok /\ StopMayTimeOut /\ thread[waiting] # "stopped"
  /\ waiting' = None

\* ~UdpSocketManagerWinRTImpl(): UpdateSocketMap(), then delete every socket
\* left in the map (without ReadyForDeletion()), and the thread object.
ImplDestroy(w) ==
  LET u == UpdateSocketMap(addList[w], removeList[w], socketMap[w])
  IN  /\ alive' = [alive EXCEPT ![w] = FALSE]
      /\ socketMap' = [socketMap EXCEPT ![w] = {}]
      /\ addList' = [addList EXCEPT ![w] = <<>>]
      /\ removeList' = [removeList EXCEPT ![w] = <<>>]
      /\ deleted' = [s \in Sockets |-> deleted[s] + Occurrences(u.del, s)
                                       + IF s \in u.map THEN 1 ELSE 0]
      /\ teardown' = [s \in Sockets |-> teardown[s] + Occurrences(u.del, s)]

(***************************************************************************)
(* A client driving the workers directly, one call at a time (the manager  *)
(* serialises its calls under _critSect the same way).  It adds only       *)
(* sockets it holds and removes only sockets it has not yet removed: after *)
(* a successful RemoveSocket() the object belongs to the worker.           *)
(***************************************************************************)
ClientIdle == waiting = None

ClientAdd(w, s) ==
  /\ ClientIdle /\ status[s] = "held"
  /\ ImplAddSocket(w, s)
  /\ status' = IF AddAccepted(w, s) THEN [status EXCEPT ![s] = "registered"]
               ELSE status
  /\ UNCHANGED <<removeList, socketMap, thread, pc, ready, alive, waiting,
                 deleted, teardown>>

ClientRemove(w, s) ==
  /\ ClientIdle /\ status[s] # "removed"
  /\ ImplRemoveSocket(w, s)
  /\ status' = IF RemoveFound(w, s) THEN [status EXCEPT ![s] = "removed"]
               ELSE status
  /\ UNCHANGED <<addList, socketMap, thread, pc, ready, alive, waiting,
                 deleted, teardown>>

ClientStart(w) ==
  /\ ClientIdle
  /\ \E ok \in BOOLEAN : ImplStart(w, ok)
  /\ UNCHANGED <<addList, removeList, socketMap, ready, alive, waiting,
                 status, deleted, teardown>>

ClientStopBegin(w) ==
  /\ ClientIdle
  /\ ImplStopBegin(w)
  /\ UNCHANGED <<addList, removeList, socketMap, pc, ready, alive, status,
                 deleted, teardown>>

ClientStopEnd ==
  /\ \E ok \in BOOLEAN : StopResult(ok)
  /\ UNCHANGED <<addList, removeList, socketMap, thread, pc, ready, alive,
                 status, deleted, teardown>>

ImplNext ==
  \/ \E w \in Workers, s \in Sockets : ClientAdd(w, s) \/ ClientRemove(w, s)
  \/ \E w \in Workers : ClientStart(w) \/ ClientStopBegin(w)
  \/ ClientStopEnd
  \/ \E w \in Workers : WorkerStep(w)

\* Each worker thread is a dedicated OS thread whose Process() always
\* returns; the client is not obliged to call anything.
WorkerFairness == \A w \in Workers : WF_implVars(WorkerStep(w))

ImplSpec == ImplInit /\ [][ImplNext]_implVars /\ WorkerFairness

-----------------------------------------------------------------------------
(***************************************************************************)
(* Properties.                                                             *)
(***************************************************************************)

\* The workers whose _addList or _socketMap hold s, and whose _removeList
\* holds it.
Owners(s) == {w \in Workers : Contains(addList[w], s) \/ s \in socketMap[w]}
Retirers(s) == {w \in Workers : Contains(removeList[w], s)}

(* Ownership: what the caller believes about a socket agrees with where the *)
(* workers keep it.  A socket the caller holds is in no worker; one whose   *)
(* AddSocket() succeeded is pending or live in exactly one worker (or was   *)
(* deleted with that worker's Impl); one whose RemoveSocket() succeeded is  *)
(* queued for removal in the very worker that owns it, or has been deleted  *)
(* exactly once after ReadyForDeletion().  Covers the deferred add/remove   *)
(* lists of AddSocket/RemoveSocket and their merge in UpdateSocketMap.      *)
OwnershipConsistent ==
  \A s \in Sockets :
    CASE status[s] = "held" ->
           Owners(s) = {} /\ Retirers(s) = {} /\ deleted[s] = 0
      [] status[s] = "registered" ->
           /\ Retirers(s) = {}
           /\ \/ Cardinality(Owners(s)) = 1 /\ deleted[s] = 0
              \/ Owners(s) = {} /\ deleted[s] = 1 /\ teardown[s] = 0
                 /\ \E w \in Workers : ~alive[w]
      [] status[s] = "removed" ->
           \/ Cardinality(Owners(s)) = 1 /\ Retirers(s) = Owners(s)
              /\ deleted[s] = 0
           \/ Owners(s) = {} /\ Retirers(s) = {}
              /\ deleted[s] = 1 /\ teardown[s] = 1

(* No use after delete: the poll thread never calls HasIncoming() on a     *)
(* socket that UpdateSocketMap (or the Impl destructor) already deleted,   *)
(* although RemoveSocket() may return while a poll cycle is in flight.     *)
(* (A thread left running in a deleted Impl is ImplDeletedAfterThreadStopped.) *)
NoDispatchToDeleted ==
  \A w \in Workers :
    alive[w] /\ pc[w] = "dispatch" => \A s \in ready[w] : deleted[s] = 0

\* s waits in a deferred list of w.
Pending(w, s) == Contains(addList[w], s) \/ Contains(removeList[w], s)

(* Deferred changes are applied: while its thread keeps running, every      *)
(* socket queued by AddSocket() or RemoveSocket() on a worker is eventually *)
(* merged into (or deleted from) its map by Process()/UpdateSocketMap.      *)
PendingApplied ==
  \A w \in Workers, s \in Sockets :
    (Pending(w, s) /\ thread[w] = "running")
      ~> (~Pending(w, s) \/ thread[w] # "running")

(* Capacity: AddSocket() rejects a socket once the worker polls FD_SETSIZE *)
(* of them, so that every socket in _socketMap fits in the fd_set that     *)
(* Process() builds (FD_SET() drops the rest without an error).            *)
LiveSetWithinFdSetSize ==
  \A w \in Workers : Cardinality(socketMap[w]) <= FdSetSize

=============================================================================
