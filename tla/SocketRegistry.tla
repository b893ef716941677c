---------------------------- MODULE SocketRegistry ----------------------------
(***************************************************************************)
(* What the UDP socket manager promises its callers, without workers,      *)
(* threads or deferred lists.  A socket is registered by a successful      *)
(* AddSocket(), becomes retiring by a successful RemoveSocket(), and is    *)
(* destroyed once, either after it retired or, at teardown, while still    *)
(* registered.  Nothing comes back from retiring or destroyed.             *)
(***************************************************************************)
CONSTANT Sockets

VARIABLES registered, retiring, destroyed

regVars == <<registered, retiring, destroyed>>

Free == Sockets \ (registered \cup retiring \cup destroyed)

RegInit == registered = {} /\ retiring = {} /\ destroyed = {}

Register(s) ==
  /\ s \in Free
  /\ registered' = registered \cup {s}
  /\ UNCHANGED <<retiring, destroyed>>

Retire(s) ==
  /\ s \in registered
  /\ registered' = registered \ {s}
  /\ retiring' = retiring \cup {s}
  /\ UNCHANGED destroyed

\* The owner deletes some retiring sockets and, when it is torn down,
\* some registered ones, in one step.
Destroy(R, D) ==
  /\ R \subseteq retiring /\ D \subseteq registered /\ R \cup D # {}
  /\ retiring' = retiring \ R
  /\ registered' = registered \ D
  /\ destroyed' = destroyed \cup R \cup D

RegNext ==
  \/ \E s \in Sockets : Register(s) \/ Retire(s)
  \/ \E R, D \in SUBSET Sockets : Destroy(R, D)

Spec == RegInit /\ [][RegNext]_regVars
=============================================================================
