------------------------------ MODULE Workload ------------------------------
(***************************************************************************)
(* What a server sees of the requests its endpoints have taken in: whether *)
(* any waits, whether any runs (or a spot is held), and whether the        *)
(* service is ready.  has_activity looks at either, the manager's wake rule *)
(* at the waiting ones only.  It is the interface between two models:      *)
(* EndpointQueue implements it, and the steps ServerRuntime takes for its  *)
(* endpoints' requests are these.                                          *)
(*                                                                         *)
(* What waits runs only while the service is ready, and no probe changes   *)
(* its answer in the middle of that; requests may go on waiting beside     *)
(* those that run, and what has begun to run may outlast the readiness.    *)
(***************************************************************************)
VARIABLES queued,   \* a request waits in the deque
          running,  \* a spot is held, or a request is being forwarded
          ready     \* the answer of the last probe

workload == <<queued, running, ready>>

WorkloadInit == queued = FALSE /\ running = FALSE /\ ready \in BOOLEAN

\* A request joins those that wait, or runs at once.
Arrive ==
  /\ \/ queued' = TRUE /\ UNCHANGED running
     \/ ready /\ running' = TRUE /\ UNCHANGED queued
  /\ UNCHANGED ready

\* A request that waits begins to run; others may still wait.
Start ==
  /\ queued /\ ready
  /\ running' = TRUE /\ queued' \in BOOLEAN
  /\ UNCHANGED ready

\* The last request that waits leaves, or what runs ends.
End ==
  /\ \/ queued /\ queued' = FALSE /\ UNCHANGED running
     \/ running /\ running' = FALSE /\ UNCHANGED queued
  /\ UNCHANGED ready

\* The service comes up or goes down.
Probe == ready' \in BOOLEAN \ {ready} /\ UNCHANGED <<queued, running>>

WorkloadNext == Arrive \/ Start \/ End \/ Probe

WorkloadSpec == WorkloadInit /\ [][WorkloadNext]_workload

=============================================================================
