---------------------------- MODULE SampleStream ----------------------------
(***************************************************************************)
(* What an RTMediaStreamSource promises Media Foundation, without locks,   *)
(* the unlocked test of the source pointer, or the allocation steps: per  *)
(* source,                                                                 *)
(*   phase   - "none" (not created), "open", "closed" (Closed raised);     *)
(*   latest  - the newest frame delivered by the track;                    *)
(*   request - "waiting" from the moment a request is accepted until it is *)
(*             completed, "abandoned" once one is given up without being   *)
(*             completed, else "none";                                     *)
(*   served  - the frame and buffer size of the last sample set.           *)
(* Frames arrive in order.  A request is accepted only while the source is *)
(* open, and is completed either with a sample of the newest frame, in a   *)
(* buffer of that frame's size (the initial size while there is no frame), *)
(* or with a sample in such a buffer that shows no frame, or without a     *)
(* sample, or is abandoned: the source then takes no further  *)
(* request.  Each accepted request is completed or abandoned.              *)
(***************************************************************************)
EXTENDS Naturals

CONSTANTS Sources, Frames, NoFrame, InitialSize

VARIABLES phase, latest, request, served

svars == <<phase, latest, request, served>>

SInit ==
  /\ phase = [s \in Sources |-> "none"]
  /\ latest = [s \in Sources |-> NoFrame]
  /\ request = [s \in Sources |-> "none"]
  /\ served = [s \in Sources |-> [frame |-> NoFrame, buf |-> <<0, 0>>]]

Create(s) ==
  /\ phase[s] = "none"
  /\ phase' = [phase EXCEPT ![s] = "open"]
  /\ UNCHANGED <<latest, request, served>>

\* The track delivers the next frame to a created source.
Deliver(s) ==
  /\ phase[s] # "none"
  /\ \E f \in Frames :
       /\ f.n = latest[s].n + 1
       /\ latest' = [latest EXCEPT ![s] = f]
  /\ UNCHANGED <<phase, request, served>>

Accept(s) ==
  /\ phase[s] = "open" /\ request[s] = "none"
  /\ request' = [request EXCEPT ![s] = "waiting"]
  /\ UNCHANGED <<phase, latest, served>>

\* The size of the buffer a sample of the newest frame gets.
BufferFor(s) == IF latest[s] = NoFrame THEN InitialSize ELSE latest[s].size

Serve(s) ==
  /\ request[s] = "waiting"
  /\ request' = [request EXCEPT ![s] = "none"]
  /\ served' = [served EXCEPT ![s] = [frame |-> latest[s], buf |-> BufferFor(s)]]
  /\ UNCHANGED <<phase, latest>>

\* The sample is set with a buffer of the newest frame's size left unwritten.
ServeBlank(s) ==
  /\ request[s] = "waiting"
  /\ request' = [request EXCEPT ![s] = "none"]
  /\ served' = [served EXCEPT ![s] = [frame |-> NoFrame, buf |-> BufferFor(s)]]
  /\ UNCHANGED <<phase, latest>>

\* The request is given up without being completed; no request follows it.
Abandon(s) ==
  /\ request[s] = "waiting"
  /\ request' = [request EXCEPT ![s] = "abandoned"]
  /\ UNCHANGED <<phase, latest, served>>

\* The request is completed without a sample.
Drop(s) ==
  /\ request[s] = "waiting"
  /\ request' = [request EXCEPT ![s] = "none"]
  /\ UNCHANGED <<phase, latest, served>>

Close(s) ==
  /\ phase[s] = "open"
  /\ phase' = [phase EXCEPT ![s] = "closed"]
  /\ UNCHANGED <<latest, request, served>>

SNext ==
  \E s \in Sources :
    Create(s) \/ Deliver(s) \/ Accept(s) \/ Serve(s) \/ ServeBlank(s)
    \/ Drop(s) \/ Abandon(s) \/ Close(s)

\* Every accepted request is completed or abandoned.
SSpec ==
  SInit /\ [][SNext]_svars
        /\ \A s \in Sources :
              WF_svars(Serve(s) \/ ServeBlank(s) \/ Drop(s) \/ Abandon(s))
============================================================================
