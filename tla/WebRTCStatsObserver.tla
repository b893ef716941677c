------------------------- MODULE WebRTCStatsObserver -------------------------
(***************************************************************************)
(* WebRTCStatsObserver (Stats/webrtc_stats_observer.cpp): a self-reposting *)
(* poll loop that asks the PeerConnection for stats every kInterval ms.    *)
(*                                                                         *)
(* Callers on the threads in Threads toggle the three kinds of stats; each *)
(* toggle writes its flags and calls EvaluatePollNecessity, which calls    *)
(* Start() or Stop().  Start() called in kStopped runs PollStats on the    *)
(* calling thread, and PollStats posts MSG_POLL_STATS to that same thread  *)
(* (rtc::Thread::Current()), so a loop lives on the thread that started    *)
(* it.  status_ is guarded by crit_sect_; the flags and the observer       *)
(* pointer are plain fields, each written and read in one step.  GetStats  *)
(* answers later with OnComplete.  The PeerConnection pci_ is never null   *)
(* here (the constructor's argument), so PollStats' early return is not   *)
(* taken.                                                                  *)
(***************************************************************************)
EXTENDS Integers, Sequences, FiniteSets, Functions, FiniteSetsExt

CONSTANTS
  Threads,      \* threads calling the Toggle methods (and running loops)
  MaxToggles,   \* bound on Toggle calls made by the callers
  MaxPending    \* bound on GetStats requests in flight at once

VARIABLES
  status,     \* status_: "kStopped", "kStarted", "kStopping"
  etw,        \* etw_stats_enabled_
  rtc,        \* rtc_stats_enabled_
  health,     \* conn_health_stats_enabled_
  observer,   \* webrtc_stats_observer_winrt_ != NULL
  pc,         \* per thread: where its current call is
  todo,       \* per thread: Toggle calls the destructor still has to make
  msgs,       \* per thread: MSG_POLL_STATS posted to it, not yet handled
  pending,    \* GetStats requests not yet answered by OnComplete
  dtorBy,     \* the thread running ~WebRTCStatsObserver, or "none"
  alive,      \* the observer object is not destroyed
  toggles,
  dtorPoll    \* history: GetStats(this) was issued once destruction began

vars == <<status, etw, rtc, health, observer, pc, todo, msgs, pending, dtorBy,
          alive, toggles, dtorPoll>>

Kinds == {"etw", "health", "rtc"}
(* PollStats runs in two halves, either inside a caller's call (Start()   *)
(* found kStopped: "poll_*") or from the message loop ("loop_*"), where   *)
(* the posted message holds no reference to the observer.                 *)
GetPcs == {"poll_get", "loop_get"}
LockPcs == {"poll_lock", "loop_lock"}
Pcs == {"idle", "start", "stop"} \cup GetPcs \cup LockPcs
\* The calls of ~WebRTCStatsObserver, in order.
DtorCalls == <<[kind |-> "etw", on |-> FALSE], [kind |-> "health", on |-> FALSE],
               [kind |-> "rtc", on |-> FALSE]>>

TypeOK ==
  /\ status \in {"kStopped", "kStarted", "kStopping"}
  /\ {etw, rtc, health, observer, alive, dtorPoll} \subseteq BOOLEAN
  /\ pc \in [Threads -> Pcs]
  /\ todo \in [Threads -> Seq([kind : Kinds, on : BOOLEAN])]
  /\ msgs \in [Threads -> Nat] /\ pending \in 0 .. MaxPending
  /\ dtorBy \in Threads \cup {"none"}
  /\ toggles \in 0 .. MaxToggles

\* The constructor: kStopped, nothing enabled, no observer.
Init ==
  /\ status = "kStopped"
  /\ etw = FALSE /\ rtc = FALSE /\ health = FALSE /\ observer = FALSE
  /\ pc = [t \in Threads |-> "idle"]
  /\ todo = [t \in Threads |-> <<>>]
  /\ msgs = [t \in Threads |-> 0]
  /\ pending = 0 /\ dtorBy = "none" /\ alive = TRUE
  /\ toggles = 0 /\ dtorPoll = FALSE

(***************************************************************************)
(* EvaluatePollNecessity, as read right after a toggle: Start() when any  *)
(* flag is set or an observer pointer is held, else Stop().                *)
(***************************************************************************)
PollNeeded(e, o, r, h) == e \/ o \/ r \/ h

(***************************************************************************)
(* ToggleETWStats / ToggleConnectionHealthStats / ToggleRTCStats with the  *)
(* trailing EvaluatePollNecessity: write the flag (a non-null observer    *)
(* argument also stores the pointer; NULL only clears the flag), read all  *)
(* four, and go on to Start() or Stop().                                   *)
(***************************************************************************)
ToggleEffect(t, c) ==
  LET e == IF c.kind = "etw" THEN c.on ELSE etw
      h == IF c.kind = "health" THEN c.on ELSE health
      r == IF c.kind = "rtc" THEN c.on ELSE rtc
      o == observer \/ (c.kind # "etw" /\ c.on)
  IN  /\ etw' = e /\ health' = h /\ rtc' = r /\ observer' = o
      /\ pc' = [pc EXCEPT ![t] = IF PollNeeded(e, o, r, h) THEN "start" ELSE "stop"]

\* A caller's Toggle call, from a thread with nothing else in progress.
Toggle(t, c) ==
  /\ alive /\ dtorBy = "none" /\ pc[t] = "idle" /\ toggles < MaxToggles
  /\ toggles' = toggles + 1
  /\ ToggleEffect(t, c)
  /\ UNCHANGED <<status, todo, msgs, pending, alive, dtorBy, dtorPoll>>

\* The destructor's next Toggle call.
DtorToggle(t) ==
  /\ pc[t] = "idle" /\ todo[t] # <<>>
  /\ ToggleEffect(t, Head(todo[t]))
  /\ todo' = [todo EXCEPT ![t] = Tail(@)]
  /\ UNCHANGED <<status, msgs, pending, alive, toggles, dtorBy, dtorPoll>>

(***************************************************************************)
(* Start(): under crit_sect_, note whether status_ was kStopped and set     *)
(* kStarted; if it was kStopped, run PollStats on this thread.             *)
(***************************************************************************)
Start(t) ==
  /\ pc[t] = "start"
  /\ status' = "kStarted"
  /\ pc' = [pc EXCEPT ![t] = IF status = "kStopped" THEN "poll_get" ELSE "idle"]
  /\ UNCHANGED <<etw, rtc, health, observer, todo, msgs, pending, alive,
                 toggles, dtorBy, dtorPoll>>

\* Seeded fault: Stop() marks the loop stopped at once.
StopAtOnce(t) ==
  /\ pc[t] = "stop"
  /\ status' = IF status = "kStarted" THEN "kStopped" ELSE status
  /\ pc' = [pc EXCEPT ![t] = "idle"]
  /\ UNCHANGED <<etw, rtc, health, observer, todo, msgs, pending, alive,
                 toggles, dtorBy, dtorPoll>>

\* Stop(): under crit_sect_, kStarted becomes kStopping; the loop ends later.
Stop(t) ==
  /\ pc[t] = "stop"
  /\ status' = IF status = "kStarted" THEN "kStopping" ELSE status
  /\ pc' = [pc EXCEPT ![t] = "idle"]
  /\ UNCHANGED <<etw, rtc, health, observer, todo, msgs, pending, alive,
                 toggles, dtorBy, dtorPoll>>

(***************************************************************************)
(* PollStats, first half: GetAllStats (snapshot and reset of the health   *)
(* counters, then pci_->GetStats(this, ...)), outside crit_sect_.          *)
(***************************************************************************)
GetAllStats(t) ==
  /\ pc[t] \in GetPcs /\ pending < MaxPending
  /\ pending' = pending + 1
  /\ dtorPoll' = (dtorPoll \/ dtorBy # "none")
  /\ pc' = [pc EXCEPT ![t] = IF pc[t] = "poll_get" THEN "poll_lock"
                                                   ELSE "loop_lock"]
  /\ UNCHANGED <<status, etw, rtc, health, observer, todo, msgs, alive, toggles,
                 dtorBy>>

(***************************************************************************)
(* PollStats, second half, under crit_sect_: unless status_ is kStarted,   *)
(* set kStopped and return; else PostDelayed MSG_POLL_STATS to the current *)
(* thread.                                                                 *)
(***************************************************************************)
\* Seeded fault: the loop only ends when status_ is kStopped.
PollStatsLockedKeepsStopping(t) ==
  /\ pc[t] \in LockPcs
  /\ IF status = "kStopped"
       THEN /\ status' = "kStopped" /\ UNCHANGED msgs
       ELSE /\ msgs' = [msgs EXCEPT ![t] = @ + 1] /\ UNCHANGED status
  /\ pc' = [pc EXCEPT ![t] = "idle"]
  /\ UNCHANGED <<etw, rtc, health, observer, todo, pending, alive, toggles,
                 dtorBy, dtorPoll>>

PollStatsLocked(t) ==
  /\ pc[t] \in LockPcs
  /\ IF status # "kStarted"
       THEN /\ status' = "kStopped" /\ UNCHANGED msgs
       ELSE /\ msgs' = [msgs EXCEPT ![t] = @ + 1] /\ UNCHANGED status
  /\ pc' = [pc EXCEPT ![t] = "idle"]
  /\ UNCHANGED <<etw, rtc, health, observer, todo, pending, alive, toggles,
                 dtorBy, dtorPoll>>

\* OnMessage(MSG_POLL_STATS): the message loop of a thread that is idle (not
\* inside a call, nor inside the destructor) runs PollStats.
OnMessage(t) ==
  /\ alive /\ dtorBy # t /\ pc[t] = "idle" /\ msgs[t] > 0
  /\ msgs' = [msgs EXCEPT ![t] = @ - 1]
  /\ pc' = [pc EXCEPT ![t] = "loop_get"]
  /\ UNCHANGED <<status, etw, rtc, health, observer, todo, pending, alive,
                 toggles, dtorBy, dtorPoll>>

(***************************************************************************)
(* OnComplete: the reports are written to ETW, folded into the health      *)
(* counters and handed to the WinRT observer according to the flags; only *)
(* the answered request matters to the control here.                       *)
(***************************************************************************)
\* Seeded fault: an answer for a request that was never made.
OnCompleteUnrequested ==
  /\ pending' = pending - 1
  /\ UNCHANGED <<status, etw, rtc, health, observer, pc, todo, msgs, alive,
                 toggles, dtorBy, dtorPoll>>

OnComplete ==
  /\ pending > 0
  /\ pending' = pending - 1
  /\ UNCHANGED <<status, etw, rtc, health, observer, pc, todo, msgs, alive,
                 toggles, dtorBy, dtorPoll>>

(***************************************************************************)
(* The last reference is released (no GetStats holds one, no caller is in  *)
(* a call): ~WebRTCStatsObserver makes its three Toggle calls on thread t, *)
(* while loops on other threads may still run (a posted message holds no *)
(* reference).  When its calls are done the object is freed and the       *)
(* MessageHandler base clears every message still posted to it.           *)
(***************************************************************************)
Destroy(t) ==
  /\ alive /\ dtorBy = "none" /\ pending = 0 /\ pc[t] = "idle"
  /\ \A u \in Threads : pc[u] \in {"idle", "loop_get", "loop_lock"}
  /\ dtorBy' = t
  /\ todo' = [todo EXCEPT ![t] = DtorCalls]
  /\ UNCHANGED <<status, etw, rtc, health, observer, pc, msgs, pending, alive,
                 toggles, dtorPoll>>

DtorEnd(t) ==
  /\ alive /\ dtorBy = t /\ pc[t] = "idle" /\ todo[t] = <<>>
  /\ alive' = FALSE
  /\ msgs' = [u \in Threads |-> 0]
  /\ UNCHANGED <<status, etw, rtc, health, observer, pc, todo, pending, dtorBy,
                 toggles, dtorPoll>>

\* Nothing is left to run after the object is gone.
Done ==
  /\ ~alive /\ pending = 0 /\ \A u \in Threads : pc[u] = "idle"
  /\ UNCHANGED vars

Next ==
  \/ \E t \in Threads :
       \/ \E k \in Kinds, on \in BOOLEAN : Toggle(t, [kind |-> k, on |-> on])
       \/ DtorToggle(t) \/ Start(t) \/ Stop(t)
       \/ GetAllStats(t) \/ PollStatsLocked(t) \/ OnMessage(t)
       \/ Destroy(t) \/ DtorEnd(t)
  \/ OnComplete
  \/ Done

(***************************************************************************)
(* Fairness: every thread runs its calls to completion and its message    *)
(* loop handles what was posted to it (PostDelayed fires after kInterval); *)
(* GetStats is answered.  Callers are not forced to toggle anything, nor  *)
(* the object to be released.                                              *)
(***************************************************************************)
Fairness ==
  /\ \A t \in Threads :
       /\ WF_vars(DtorToggle(t)) /\ WF_vars(Start(t)) /\ WF_vars(Stop(t))
       /\ WF_vars(GetAllStats(t)) /\ WF_vars(PollStatsLocked(t))
       /\ WF_vars(OnMessage(t)) /\ WF_vars(DtorEnd(t))
  /\ WF_vars(OnComplete)

Spec == Init /\ [][Next]_vars /\ Fairness

-----------------------------------------------------------------------------
\* Poll loops alive: messages posted and PollStats calls in progress.
Loops == SumFunction(msgs)
           + Quantify(Threads, LAMBDA t : pc[t] \in GetPcs \cup LockPcs)

(* While the object lives there is at most one poll loop, and there is one *)
(* exactly when status_ is not kStopped.  Start() only spawns PollStats    *)
(* when it finds kStopped, Stop() only marks kStopping, and the loop alone *)
(* sets kStopped when it declines to repost: so Toggle calls racing on     *)
(* several threads never leave two loops, nor a kStarted status with none. *)
OneLoopWhileActive ==
  alive => Loops <= 1 /\ ((status # "kStopped") <=> (Loops = 1))

(* The poll machinery implements StatsPoller: seen through status_ and    *)
(* "some loop exists" (a posted MSG_POLL_STATS or a PollStats in          *)
(* progress), every step of every thread is a Start(), a Stop(), the end   *)
(* of the loop, the destruction, or invisible; and a loop that is not     *)
(* wanted (status_ not kStarted) ends, i.e. the loop thread comes round    *)
(* to PollStats and honours kStopping.                                     *)
Poller == INSTANCE StatsPoller WITH
  status <- IF alive THEN status ELSE "destroyed",
  loop <- alive /\ Loops > 0,
  alive <- alive

PollerRefinement == Poller!PSpec

\* Every kind of stats is disabled.
AllDisabled == ~etw /\ ~rtc /\ ~health

(* Once every kind of stats is disabled (and stays so), polling stops:     *)
(* EvaluatePollNecessity is meant to Stop() then, and the destructor's     *)
(* comment says its Toggle calls "will trigger Stop()".                    *)
PollingStopsWhenDisabled ==
  (alive /\ AllDisabled) ~> (status = "kStopped" \/ ~AllDisabled \/ ~alive)

(* No pci_->GetStats(this) is issued once the last reference is released: *)
(* neither by the destructor, whose toggles may Start() a loop, nor by a  *)
(* loop thread already inside PollStats or about to handle a posted       *)
(* MSG_POLL_STATS.  Such a GetStats hands out a reference to an object     *)
(* being destroyed or already freed.                                       *)
NoGetStatsWhileDestroying == ~dtorPoll
============================================================================
