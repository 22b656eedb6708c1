---------------------------- MODULE WsAdmission ----------------------------
(***************************************************************************)
(* WebSocket connections of a queued endpoint (EndpointRuntime.admit_ws,   *)
(* _hold_ws_spot, _release_ws_spot and the release of transport.ws.tunnel) *)
(* beside its HTTP requests, which EndpointQueue models.                   *)
(*                                                                         *)
(* A connection is numbered like a request when it gets its Session.  It   *)
(* never enters the deque: it takes a spot by itself, or polls for one     *)
(* ("polling") outside FIFO, cap, readiness and atomic mode, and then      *)
(* counts in the session's inflight but not in inflight_total.  What comes *)
(* before it has a Session (accept, probe, the wait for readiness) touches *)
(* nothing of the queue.                                                   *)
(***************************************************************************)
EXTENDS EndpointQueue

CONSTANT WsKeys   \* keys of the sessions that open WebSockets

ASSUME WsKeysAssumption == WsKeys \subseteq Keys

\* The numbers that belong to WebSocket connections.
Connections == {r \in Req : stage[r] \in {"polling", "open", "closed"}}

-----------------------------------------------------------------------------
\* _hold_ws_spot can go on with a session that runs on one of these keys.
CanHold(keys) == keys \cap spots # {} \/ Cardinality(spots) < MaxSpots

\* _hold_ws_spot returns True: the connection runs on the session's own spot,
\* on the one it shares, or on a free one that it takes.
HoldSpot(o, k, shared) ==
  /\ inflight' = [inflight EXCEPT ![o] = @ + 1]
  /\ IF {k, shared} \cap spots # {}
     THEN UNCHANGED <<spots, spotHeld>>
     ELSE /\ spots' = spots \cup {k}
          /\ spotHeld' = [spotHeld EXCEPT ![o] = TRUE]

\* admit_ws on a ready endpoint: get_or_create_session and the first pass
\* through _hold_ws_spot, with no await between them.
WsAdmit(k) ==
  LET r == arrived + 1
      o == IF sessions[k] = NoObj THEN r ELSE sessions[k]
      shared == IF o = r THEN NoKey ELSE info[o].shared IN
  /\ LoopFree
  /\ ready
  /\ r <= MaxRequests
  /\ arrived' = r
  /\ reqKey' = [reqKey EXCEPT ![r] = k]
  /\ sessOf' = [sessOf EXCEPT ![r] = o]
  /\ sessions' = [sessions EXCEPT ![k] = o]
  /\ info' = IF o = r THEN [info EXCEPT ![o] = NewInfo]
                      ELSE Revived(o)
  /\ IF CanHold({k, shared})
     THEN /\ HoldSpot(o, k, shared)
          /\ stage' = [stage EXCEPT ![r] = "open"]
     ELSE /\ stage' = [stage EXCEPT ![r] = "polling"]
          /\ UNCHANGED <<inflight, spots, spotHeld>>
  /\ UNCHANGED <<ready, queue, inflightTotal, waiting, promoting, managerVars>>

\* A later pass, after another second.
WsHold(r) ==
  LET o == sessOf[r] IN
  /\ LoopFree
  /\ stage[r] = "polling"
  /\ CanHold({reqKey[r], info[o].shared})
  /\ HoldSpot(o, reqKey[r], info[o].shared)
  /\ stage' = [stage EXCEPT ![r] = "open"]
  /\ UNCHANGED <<ready, queue, sessions, inflightTotal, waiting, info, arrived, reqKey, sessOf,
                 promoting, managerVars>>

\* The client disconnects, or queue_timeout elapses, before there is a spot.
WsGiveUp(r) ==
  /\ LoopFree
  /\ stage[r] = "polling"
  /\ stage' = [stage EXCEPT ![r] = "closed"]
  /\ UNCHANGED <<queueVars, counterVars, info, arrived, reqKey, sessOf, promoting, managerVars>>

\* Mutant of WsClose: the connection stays counted.
WsCloseStillCounted(r) ==
  LET o == sessOf[r] IN
  /\ LoopFree
  /\ stage[r] = "open"
  /\ stage' = [stage EXCEPT ![r] = "closed"]
  /\ spots' = spots \ {reqKey[r]}
  /\ spotHeld' = [spotHeld EXCEPT ![o] = @ /\ reqKey[r] \notin spots]
  /\ UNCHANGED <<ready, queue, sessions, inflightTotal, inflight, waiting, info, arrived, reqKey,
                 sessOf, managerVars>>
  /\ promoting' = (reqKey[r] \in spots /\ CanPromote')

\* Mutant of WsClose: the freed spot is left to the next admission.
WsCloseUnpromoted(r) ==
  LET o == sessOf[r] IN
  /\ LoopFree
  /\ stage[r] = "open"
  /\ stage' = [stage EXCEPT ![r] = "closed"]
  /\ inflight' = [inflight EXCEPT ![o] = Longest(0, @ - 1)]
  /\ spots' = spots \ {reqKey[r]}
  /\ spotHeld' = [spotHeld EXCEPT ![o] = @ /\ reqKey[r] \notin spots]
  /\ UNCHANGED <<ready, queue, sessions, inflightTotal, waiting, info, arrived, reqKey, sessOf,
                 promoting, managerVars>>

\* The tunnel ends, for whatever reason, and calls _release_ws_spot once: the
\* session's own spot goes, whoever else of the session runs on it.
WsClose(r) ==
  LET o == sessOf[r] IN
  /\ LoopFree
  /\ stage[r] = "open"
  /\ stage' = [stage EXCEPT ![r] = "closed"]
  /\ inflight' = [inflight EXCEPT ![o] = Longest(0, @ - 1)]
  /\ spots' = spots \ {reqKey[r]}
  /\ spotHeld' = [spotHeld EXCEPT ![o] = @ /\ reqKey[r] \notin spots]
  /\ UNCHANGED <<ready, queue, sessions, inflightTotal, waiting, info, arrived, reqKey, sessOf,
                 managerVars>>
  /\ promoting' = (reqKey[r] \in spots /\ CanPromote')

WsNext ==
  \/ Next
  \/ \E k \in WsKeys : WsAdmit(k)
  \/ \E r \in Req : WsHold(r)
  \/ \E r \in Req : WsGiveUp(r)
  \/ \E r \in Req : WsClose(r)

WsSpec == Init /\ [][WsNext]_vars

-----------------------------------------------------------------------------
(* Properties *)

\* inflight counts the HTTP requests and the connections of a session,
\* inflight_total the HTTP requests alone, in every mix of the two: a
\* connection that ends takes nothing off the count of a running request, and
\* conversely.
WsAccounting ==
  /\ \A o \in Obj : /\ inflight[o] = Cardinality(InStageOf("inflight", o))
                                     + Cardinality(InStageOf("open", o))
                    /\ waiting[o] = Cardinality(InStageOf("waiting", o))
  /\ inflightTotal = Cardinality(InStage("inflight"))

\* D18, "an open WS holds its slot for the connection's lifetime", as far as
\* it is true: the only connection of a tracked session that shares no other
\* session's spot and is not released by hand has its spot until it closes,
\* although HTTP requests of the session come and go on the same spot and tick
\* looks at it every second.  (A second connection of the session that closes
\* takes the spot with it.)
OpenKeepsSpot ==
  \A r \in InStage("open") :
    /\ SelfContained(reqKey[r]) /\ sessions[reqKey[r]] = sessOf[r]
    /\ \A q \in Connections : reqKey[q] = reqKey[r] => q = r
    => reqKey[r] \in spots

=============================================================================
