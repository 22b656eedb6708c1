------------------------- MODULE WsAdmissionProofs -------------------------
(***************************************************************************)
(* The queue beside WebSockets: WsSpec keeps IInv and the idle countdown   *)
(* of SessionProofs, and a session's only connection keeps its spot.  The  *)
(* steps of the HTTP path are those of EndpointQueue, for which the        *)
(* lemmas of EndpointQueueProofs and SessionProofs hold unchanged; here    *)
(* are the four steps of a connection.                                     *)
(***************************************************************************)
EXTENDS WsAdmission, SessionProofs

\* A step of some connection.
WsStep ==
  \/ \E k \in WsKeys : WsAdmit(k)
  \/ \E r \in Req : WsHold(r) \/ WsGiveUp(r) \/ WsClose(r)

\* The inductive invariant.
WsInv == IInv /\ Countdown /\ OpenKeepsSpot

-----------------------------------------------------------------------------
(* What the steps of a connection have in common *)

\* _hold_ws_spot counts the connection and leaves the spots within max_spots.
LEMMA HoldFacts ==
  ASSUME TypeOK, NEW o \in Obj, NEW k \in Keys, NEW shared,
         CanHold({k, shared}), HoldSpot(o, k, shared)
  PROVE  /\ inflight' = [inflight EXCEPT ![o] = inflight[o] + 1] /\ inflight' \in [Obj -> Nat]
         /\ \/ spots' = spots
            \/ spots' = spots \cup {k} /\ Cardinality(spots) < MaxSpots
         /\ spotHeld' \in [Obj -> BOOLEAN] /\ \A p \in Obj : spotHeld'[p] => spotHeld[p] \/ p = o
         /\ shared \notin spots => k \in spots'
<1>1. inflight \in [Obj -> Nat] /\ inflight[o] + 1 \in Nat /\ spotHeld \in [Obj -> BOOLEAN]
  BY DEF TypeOK
<1>2. inflight' = [inflight EXCEPT ![o] = inflight[o] + 1] /\ inflight' \in [Obj -> Nat]
  BY <1>1 DEF HoldSpot
<1>3. CASE {k, shared} \cap spots # {}
  BY <1>1, <1>2, <1>3 DEF HoldSpot
<1>4. CASE {k, shared} \cap spots = {}
  BY <1>1, <1>2, <1>4 DEF HoldSpot, CanHold
<1> QED
  BY <1>3, <1>4

\* A connection r that moves to stage t, for its Session object o: only the
\* count of o moves, and only if r opens or was open.
Moves(r, t, o) ==
  /\ stage[r] \in {"new", "polling", "open"} /\ t \in {"polling", "open", "closed"}
  /\ stage[r] # t
  /\ stage' = [stage EXCEPT ![r] = t]
  /\ \A q \in Req : q # r => sessOf'[q] = sessOf[q]
  /\ sessOf'[r] = o /\ (stage[r] = "new" \/ sessOf[r] = o)
  /\ inflight' \in [Obj -> Nat]
  /\ \/ t = "open" /\ stage[r] # "open" /\ inflight' = [inflight EXCEPT ![o] = inflight[o] + 1]
     \/ t # "open" /\ stage[r] # "open" /\ inflight' = inflight
     \/ t = "closed" /\ stage[r] = "open" /\ inflight' = [inflight EXCEPT ![o] = inflight[o] - 1]

\* What no connection touches, and how far it may change the spots.
Around(o) ==
  /\ LoopFree
  /\ UNCHANGED <<ready, queue, inflightTotal, waiting, mgr, mgrAge, pollSet, fetchSet, tickTodo>>
  /\ promoting' \in BOOLEAN
  /\ \/ spots' \subseteq spots
     \/ \E k \in Keys : spots' = spots \cup {k} /\ Cardinality(spots) < MaxSpots
  /\ spotHeld' \in [Obj -> BOOLEAN] /\ \A p \in Obj : spotHeld'[p] => spotHeld[p] \/ p = o

\* admit_ws: the connection is numbered, its session made or revived.
LEMMA WsAdmitFacts ==
  ASSUME IInv, NEW k \in WsKeys, WsAdmit(k)
  PROVE  LET r == arrived + 1
             o == IF sessions[k] = NoObj THEN r ELSE sessions[k] IN
         /\ k \in Keys /\ r \in Req /\ o \in Obj /\ o <= r /\ arrived \in Nat /\ r <= MaxRequests
         /\ stage[r] = "new"
         /\ arrived' = r /\ reqKey' = [reqKey EXCEPT ![r] = k] /\ sessOf' = [sessOf EXCEPT ![r] = o]
         /\ sessions' = [sessions EXCEPT ![k] = o]
         /\ info' = IF o = r THEN [info EXCEPT ![o] = NewInfo] ELSE Revived(o)
         /\ Around(o)
         /\ \E t \in {"polling", "open"} : Moves(r, t, o)
         /\ spots \subseteq spots'
         /\ LET shared == IF o = r THEN NoKey ELSE info[o].shared IN
            stage'[r] = "open" /\ shared \notin spots => k \in spots'
<1> DEFINE r == arrived + 1
           o == IF sessions[k] = NoObj THEN r ELSE sessions[k]
           shared == IF o = r THEN NoKey ELSE info[o].shared
<1>t. /\ TypeOK /\ stage \in [Req -> Stages] /\ sessions \in [Keys -> Obj \cup {NoObj}]
      /\ sessOf \in [Req -> Obj \cup {NoObj}] /\ inflight \in [Obj -> Nat]
      /\ spotHeld \in [Obj -> BOOLEAN] /\ promoting \in BOOLEAN
  BY DEF IInv, TypeOK
<1>1. /\ k \in Keys /\ r \in Req /\ arrived \in Nat /\ r <= MaxRequests /\ r \in Obj
  BY <1>t, ArrivedFacts, WsKeysAssumption DEF WsAdmit, Req, Obj
<1>2. o \in Obj /\ o <= r
  <2>1. sessions[k] # NoObj => sessions[k] \in Obj /\ sessions[k] <= arrived
    BY <1>t, <1>1 DEF IInv, Wiring
  <2>2. sessions[k] # NoObj => sessions[k] \in Int
    BY <2>1 DEF Obj, Req
  <2> QED
    BY <1>1, <2>1, <2>2
<1>3. stage[r] = "new"
  BY <1>1 DEF IInv, Wiring
<1>4. /\ arrived' = r /\ reqKey' = [reqKey EXCEPT ![r] = k] /\ sessOf' = [sessOf EXCEPT ![r] = o]
      /\ sessions' = [sessions EXCEPT ![k] = o]
      /\ info' = IF o = r THEN [info EXCEPT ![o] = NewInfo] ELSE Revived(o)
      /\ LoopFree /\ UNCHANGED <<ready, queue, inflightTotal, waiting, promoting, managerVars>>
      /\ IF CanHold({k, shared})
         THEN /\ HoldSpot(o, k, shared)
              /\ stage' = [stage EXCEPT ![r] = "open"]
         ELSE /\ stage' = [stage EXCEPT ![r] = "polling"]
              /\ UNCHANGED <<inflight, spots, spotHeld>>
  BY DEF WsAdmit
<1> HIDE DEF r, o, shared
<1>5. CASE CanHold({k, shared})
  <2>1. HoldSpot(o, k, shared) /\ stage' = [stage EXCEPT ![r] = "open"]
    BY <1>4, <1>5
  <2>2. /\ inflight' = [inflight EXCEPT ![o] = inflight[o] + 1] /\ inflight' \in [Obj -> Nat]
        /\ \/ spots' = spots
           \/ spots' = spots \cup {k} /\ Cardinality(spots) < MaxSpots
        /\ spotHeld' \in [Obj -> BOOLEAN] /\ \A p \in Obj : spotHeld'[p] => spotHeld[p] \/ p = o
        /\ shared \notin spots => k \in spots'
    BY <1>t, <1>1, <1>2, <1>5, <2>1, HoldFacts
  <2>3. Moves(r, "open", o)
    BY <1>t, <1>1, <1>3, <1>4, <2>1, <2>2 DEF Moves
  <2>4. Around(o)
    BY <1>t, <1>1, <1>4, <2>2 DEF Around, managerVars
  <2> QED
    BY <1>1, <1>2, <1>3, <1>4, <2>2, <2>3, <2>4 DEF r, o, shared
<1>6. CASE ~CanHold({k, shared})
  <2>1. stage' = [stage EXCEPT ![r] = "polling"] /\ UNCHANGED <<inflight, spots, spotHeld>>
    BY <1>4, <1>6
  <2>2. Moves(r, "polling", o)
    BY <1>t, <1>1, <1>3, <1>4, <2>1 DEF Moves
  <2>3. Around(o)
    BY <1>t, <1>4, <2>1 DEF Around, managerVars
  <2>4. stage'[r] = "polling"
    BY <1>t, <1>1, <2>1
  <2> QED
    BY <1>1, <1>2, <1>3, <1>4, <2>1, <2>2, <2>3, <2>4 DEF r, o, shared
<1> QED
  BY <1>5, <1>6

\* _hold_ws_spot on a later pass, a client that gives up, the end of a tunnel:
\* what is admitted stays as it is.
LEMMA WsMoveFacts ==
  ASSUME IInv, NEW r \in Req, WsHold(r) \/ WsGiveUp(r) \/ WsClose(r)
  PROVE  /\ stage[r] \in {"polling", "open"} /\ sessOf[r] \in Obj /\ sessOf[r] \in 1..arrived
         /\ reqKey[r] \in Keys
         /\ UNCHANGED <<arrived, reqKey, sessOf, sessions, info>>
         /\ Around(sessOf[r])
         /\ \E t \in {"open", "closed"} : Moves(r, t, sessOf[r])
         /\ stage'[r] = "open" => /\ spots \subseteq spots'
                                  /\ info[sessOf[r]].shared \notin spots => reqKey[r] \in spots'
         /\ \A k \in spots : k \in spots' \/ (stage[r] = "open" /\ k = reqKey[r])
<1> USE DEF queueVars, counterVars, managerVars
<1>t. /\ TypeOK /\ stage \in [Req -> Stages] /\ inflight \in [Obj -> Nat]
      /\ spotHeld \in [Obj -> BOOLEAN] /\ promoting \in BOOLEAN
  BY DEF IInv, TypeOK
<1>1. stage[r] \in {"polling", "open"} /\ UNCHANGED <<arrived, reqKey, sessOf, sessions, info>>
  BY DEF WsHold, WsGiveUp, WsClose
<1>2. sessOf[r] \in Obj /\ sessOf[r] \in 1..arrived /\ reqKey[r] \in Keys
  BY <1>1, RequestFacts
<1>3. CASE WsHold(r)
  <2>1. /\ stage[r] = "polling" /\ stage' = [stage EXCEPT ![r] = "open"] /\ stage'[r] = "open"
        /\ CanHold({reqKey[r], info[sessOf[r]].shared})
        /\ HoldSpot(sessOf[r], reqKey[r], info[sessOf[r]].shared)
    BY <1>t, <1>3 DEF WsHold
  <2>2. /\ inflight' = [inflight EXCEPT ![sessOf[r]] = inflight[sessOf[r]] + 1]
        /\ inflight' \in [Obj -> Nat]
        /\ \/ spots' = spots
           \/ spots' = spots \cup {reqKey[r]} /\ Cardinality(spots) < MaxSpots
        /\ spotHeld' \in [Obj -> BOOLEAN]
        /\ \A p \in Obj : spotHeld'[p] => spotHeld[p] \/ p = sessOf[r]
        /\ info[sessOf[r]].shared \notin spots => reqKey[r] \in spots'
    BY <1>t, <1>2, <2>1, HoldFacts
  <2>3. Moves(r, "open", sessOf[r])
    BY <1>1, <2>1, <2>2 DEF Moves
  <2>4. Around(sessOf[r])
    BY <1>t, <1>2, <1>3, <2>2 DEF Around, WsHold
  <2> QED
    BY <1>1, <1>2, <2>1, <2>2, <2>3, <2>4
<1>4. CASE WsGiveUp(r)
  <2>1. /\ stage[r] = "polling" /\ stage' = [stage EXCEPT ![r] = "closed"]
        /\ stage'[r] = "closed" /\ UNCHANGED <<spots, inflight, spotHeld>>
    BY <1>t, <1>4 DEF WsGiveUp
  <2>2. Moves(r, "closed", sessOf[r])
    BY <1>t, <1>1, <2>1 DEF Moves
  <2>3. Around(sessOf[r])
    BY <1>t, <1>4, <2>1 DEF Around, WsGiveUp
  <2> QED
    BY <1>1, <1>2, <2>1, <2>2, <2>3
<1>5. CASE WsClose(r)
  <2>1. /\ stage[r] = "open" /\ stage' = [stage EXCEPT ![r] = "closed"] /\ stage'[r] = "closed"
        /\ spots' = spots \ {reqKey[r]}
    BY <1>t, <1>5 DEF WsClose
  <2>2. inflight[sessOf[r]] > 0 /\ inflight[sessOf[r]] \in Nat
    BY <1>t, <1>2, <2>1, RunnerCounted
  <2>3. Longest(0, inflight[sessOf[r]] - 1) = inflight[sessOf[r]] - 1
        /\ inflight[sessOf[r]] - 1 \in Nat
    BY <2>2 DEF Longest
  <2>4. inflight' = [inflight EXCEPT ![sessOf[r]] = inflight[sessOf[r]] - 1]
        /\ inflight' \in [Obj -> Nat]
    BY <1>t, <1>2, <1>5, <2>3 DEF WsClose
  <2>5. Moves(r, "closed", sessOf[r])
    BY <1>1, <2>1, <2>4 DEF Moves
  <2>6. Around(sessOf[r])
    <3>1. promoting' \in BOOLEAN
      BY <1>5 DEF WsClose, CanPromote
    <3>2. spotHeld' \in [Obj -> BOOLEAN] /\ \A p \in Obj : spotHeld'[p] => spotHeld[p]
      BY <1>t, <1>2, <1>5 DEF WsClose
    <3> QED
      BY <1>5, <2>1, <3>1, <3>2 DEF Around, WsClose
  <2> QED
    BY <1>1, <1>2, <2>1, <2>5, <2>6
<1> QED
  BY <1>3, <1>4, <1>5

-----------------------------------------------------------------------------
(* Preservation of IInv, part by part *)

\* Every step of a connection is one of these two.
LEMMA WsCases ==
  ASSUME IInv, WsStep
  PROVE  \E r \in Req, o \in Obj : Around(o) /\ \E t \in Stages \ {"new"} : Moves(r, t, o)
<1>1. ASSUME NEW k \in WsKeys, WsAdmit(k)
      PROVE  \E r \in Req, o \in Obj : Around(o) /\ \E t \in Stages \ {"new"} : Moves(r, t, o)
  BY <1>1, WsAdmitFacts DEF Stages
<1>2. ASSUME NEW r \in Req, WsHold(r) \/ WsGiveUp(r) \/ WsClose(r)
      PROVE  \E o \in Obj : Around(o) /\ \E t \in Stages \ {"new"} : Moves(r, t, o)
  BY <1>2, WsMoveFacts DEF Stages
<1> QED
  BY <1>1, <1>2 DEF WsStep

\* The type of the state.
LEMMA WsTypeStep ==
  ASSUME IInv, WsStep
  PROVE  TypeOK'
<1>t. TypeOK
  BY DEF IInv
<1>1. PICK r \in Req, o \in Obj : Around(o) /\ \E t \in Stages \ {"new"} : Moves(r, t, o)
  BY WsCases
<1>2. stage' \in [Req -> Stages] /\ inflight' \in [Obj -> Nat]
  BY <1>t, <1>1 DEF TypeOK, Moves
<1>3. /\ spots' \subseteq Keys /\ spotHeld' \in [Obj -> BOOLEAN] /\ promoting' \in BOOLEAN
      /\ UNCHANGED <<ready, queue, inflightTotal, waiting, mgr, mgrAge, pollSet, fetchSet, tickTodo>>
  BY <1>t, <1>1 DEF TypeOK, Around
<1>4. /\ arrived' \in 0..MaxRequests /\ reqKey' \in [Req -> Keys \cup {NoKey}]
      /\ sessOf' \in [Req -> Obj \cup {NoObj}] /\ sessions' \in [Keys -> Obj \cup {NoObj}]
      /\ info' \in [Obj -> Info]
  <2>1. ASSUME NEW k \in WsKeys, WsAdmit(k)
        PROVE  /\ arrived' \in 0..MaxRequests /\ reqKey' \in [Req -> Keys \cup {NoKey}]
               /\ sessOf' \in [Req -> Obj \cup {NoObj}] /\ sessions' \in [Keys -> Obj \cup {NoObj}]
               /\ info' \in [Obj -> Info]
    <3> DEFINE n == arrived + 1
               p == IF sessions[k] = NoObj THEN n ELSE sessions[k]
    <3>1. /\ k \in Keys /\ n \in Req /\ p \in Obj /\ arrived \in Nat /\ n <= MaxRequests
          /\ arrived' = n /\ reqKey' = [reqKey EXCEPT ![n] = k] /\ sessOf' = [sessOf EXCEPT ![n] = p]
          /\ sessions' = [sessions EXCEPT ![k] = p]
          /\ info' = IF p = n THEN [info EXCEPT ![p] = NewInfo] ELSE Revived(p)
      BY <2>1, WsAdmitFacts
    <3>2. n \in 0..MaxRequests
      BY <3>1, LimitsAssumption
    <3> HIDE DEF n, p
    <3>3. info' \in [Obj -> Info]
      BY <1>t, <3>1, InfoUpdates DEF Revived
    <3> QED
      BY <1>t, <3>1, <3>2, <3>3 DEF TypeOK
  <2>2. ASSUME NEW q \in Req, WsHold(q) \/ WsGiveUp(q) \/ WsClose(q)
        PROVE  UNCHANGED <<arrived, reqKey, sessOf, sessions, info>>
    BY <2>2, WsMoveFacts
  <2> QED
    BY <1>t, <2>1, <2>2 DEF WsStep, TypeOK
<1> QED
  BY <1>t, <1>2, <1>3, <1>4 DEF TypeOK

\* A connection refers to its session as a request does.
LEMMA WsWiringStep ==
  ASSUME IInv, WsStep
  PROVE  Wiring'
<1>t. stage \in [Req -> Stages] /\ sessions \in [Keys -> Obj \cup {NoObj}]
  BY DEF IInv, TypeOK
<1>1. ASSUME NEW k \in WsKeys, WsAdmit(k)
      PROVE  Wiring'
  <2> DEFINE r == arrived + 1
             o == IF sessions[k] = NoObj THEN r ELSE sessions[k]
  <2>1. /\ k \in Keys /\ o <= r /\ r <= MaxRequests
        /\ arrived' = r /\ reqKey' = [reqKey EXCEPT ![r] = k] /\ sessOf' = [sessOf EXCEPT ![r] = o]
        /\ sessions' = [sessions EXCEPT ![k] = o]
        /\ Around(o)
        /\ \E t \in {"polling", "open"} : Moves(r, t, o)
    BY <1>1, WsAdmitFacts
  <2>2. PICK t \in Stages \ {"new"} : stage' = [stage EXCEPT ![r] = t]
    BY <2>1 DEF Moves, Stages
  <2>3. /\ UNCHANGED <<pollSet, fetchSet, tickTodo>>
        /\ \A p \in Obj : spotHeld'[p] => spotHeld[p] \/ p <= r
    BY <2>1 DEF Around
  <2> QED
    BY <2>1, <2>2, <2>3, WiringAdmitted
<1>2. ASSUME NEW r \in Req, WsHold(r) \/ WsGiveUp(r) \/ WsClose(r)
      PROVE  Wiring'
  <2>1. /\ stage[r] # "new" /\ sessOf[r] \in 1..arrived
        /\ UNCHANGED <<arrived, reqKey, sessOf, sessions>>
        /\ Around(sessOf[r])
        /\ \E t \in {"open", "closed"} : Moves(r, t, sessOf[r])
    BY <1>2, WsMoveFacts
  <2>2. \E t \in Stages \ {"new"} : stage' = [stage EXCEPT ![r] = t]
    BY <2>1 DEF Moves, Stages
  <2>3. /\ UNCHANGED <<pollSet, fetchSet, tickTodo>>
        /\ \A p \in Obj : spotHeld'[p] => spotHeld[p] \/ p <= arrived
    BY <2>1 DEF Around
  <2> QED
    BY <2>1, <2>2, <2>3, WiringKept
<1> QED
  BY <1>1, <1>2 DEF WsStep

\* A connection is counted from the moment it opens until it closes, and
\* nothing else is.
LEMMA WsAccountingStep ==
  ASSUME IInv, WsStep
  PROVE  SlotAccounting'
<1>1. PICK r \in Req, o \in Obj : Around(o) /\ \E t \in Stages \ {"new"} : Moves(r, t, o)
  BY WsCases
<1>2. PICK t \in Stages \ {"new"} : Moves(r, t, o)
  BY <1>1
<1>t. /\ TypeOK /\ stage \in [Req -> Stages] /\ inflight \in [Obj -> Nat]
      /\ UNCHANGED <<queue, inflightTotal, waiting>>
  BY <1>1 DEF IInv, TypeOK, Around
<1>3. \A q \in Req : stage'[q] = IF q = r THEN t ELSE stage[q]
  BY <1>t, <1>2 DEF Moves
<1>4. ASSUME NEW s \in {"inflight", "waiting"}
      PROVE  /\ InStage(s)' = InStage(s)
             /\ \A p \in Obj : InStageOf(s, p)' = InStageOf(s, p)
  BY <1>2, <1>3 DEF Moves, InStage, InStageOf
<1>5. ASSUME NEW p \in Obj
      PROVE  inflight'[p] = Cardinality(InStageOf("inflight", p)') + Cardinality(InStageOf("open", p)')
  <2> DEFINE a == Cardinality(InStageOf("inflight", p))
             b == Cardinality(InStageOf("open", p))
             c == Cardinality(InStageOf("open", p)')
  <2>1. inflight[p] = a + b /\ a \in Nat /\ b \in Nat /\ IsFiniteSet(InStageOf("open", p))
    BY <1>t, StagesFinite DEF IInv, SlotAccounting
  <2>2. CASE p # o \/ (t # "open" /\ stage[r] # "open")
    <3>1. InStageOf("open", p)' = InStageOf("open", p)
      BY <1>2, <1>3, <2>2 DEF Moves, InStageOf
    <3>2. inflight'[p] = inflight[p]
      BY <1>t, <1>2, <2>2 DEF Moves
    <3> QED
      BY <1>4, <2>1, <3>1, <3>2
  <2>3. CASE p = o /\ t = "open"
    <3>1. /\ InStageOf("open", p)' = InStageOf("open", p) \cup {r}
          /\ r \notin InStageOf("open", p)
      BY <1>2, <1>3, <2>3 DEF Moves, InStageOf
    <3>2. inflight'[p] = inflight[p] + 1
      BY <1>t, <1>2, <2>3 DEF Moves
    <3>3. c = b + 1
      BY <2>1, <3>1, FS_AddElement
    <3> HIDE DEF a, b, c
    <3>4. inflight'[p] = a + c
      BY <2>1, <3>2, <3>3
    <3> QED
      BY <1>4, <3>4 DEF a, c
  <2>4. CASE p = o /\ stage[r] = "open"
    <3>1. /\ InStageOf("open", p)' = InStageOf("open", p) \ {r}
          /\ r \in InStageOf("open", p)
      BY <1>2, <1>3, <2>4 DEF Moves, InStageOf
    <3>2. inflight'[p] = inflight[p] - 1
      BY <1>t, <1>2, <2>4 DEF Moves
    <3>3. c = b - 1
      BY <2>1, <3>1, FS_RemoveElement
    <3> HIDE DEF a, b, c
    <3>4. inflight'[p] = a + c
      BY <2>1, <3>2, <3>3
    <3> QED
      BY <1>4, <3>4 DEF a, c
  <2> QED
    BY <2>2, <2>3, <2>4
<1>6. \A p \in Obj : waiting'[p] = Cardinality(InStageOf("waiting", p)')
  BY <1>t, <1>4 DEF IInv, SlotAccounting
<1>7. inflightTotal' = Cardinality(InStage("inflight")')
  BY <1>t, <1>4 DEF IInv, SlotAccounting
<1>8. /\ \A q \in InStage("waiting")' : \E i \in 1..Len(queue') : queue'[i] = q
      /\ \A i \in 1..Len(queue') : stage'[queue'[i]] = "waiting"
      /\ \A i, j \in 1..Len(queue') : queue'[i] = queue'[j] => i = j
  <2>1. \A i \in 1..Len(queue) : queue[i] \in Req /\ stage[queue[i]] = "waiting"
    BY EntryFacts
  <2>2. stage[r] # "waiting"
    BY <1>2 DEF Moves
  <2> QED
    BY <1>t, <1>3, <1>4, <2>1, <2>2 DEF IInv, SlotAccounting
<1> QED
  BY <1>5, <1>6, <1>7, <1>8 DEF SlotAccounting

\* _hold_ws_spot takes a spot only while there is a free one.
LEMMA WsBoundStep ==
  ASSUME IInv, WsStep
  PROVE  SpotsBounded'
<1>1. PICK o \in Obj : Around(o)
  BY WsCases
<1>2. IsFiniteSet(spots) /\ Cardinality(spots) \in Nat /\ Cardinality(spots) <= MaxSpots
  BY SpotsFinite DEF IInv, SpotsBounded
<1>3. CASE spots' \subseteq spots
  <2>1. Cardinality(spots') <= Cardinality(spots) /\ Cardinality(spots') \in Nat
    BY <1>2, <1>3, FS_Subset, FS_CardinalityType
  <2> QED
    BY <1>2, <2>1, LimitsAssumption DEF SpotsBounded
<1>4. ASSUME NEW k \in Keys, spots' = spots \cup {k}, Cardinality(spots) < MaxSpots
      PROVE  SpotsBounded'
  <2>1. Cardinality(spots \cup {k}) \in {Cardinality(spots), Cardinality(spots) + 1}
    BY <1>2, FS_AddElement
  <2> QED
    BY <1>2, <1>4, <2>1, LimitsAssumption DEF SpotsBounded
<1> QED
  BY <1>1, <1>3, <1>4 DEF Around

\* No connection starts or ends an HTTP request.
LEMMA WsAtomicStep ==
  ASSUME IInv, WsStep
  PROVE  AtomicExclusion'
<1>1. PICK r \in Req, o \in Obj, t \in Stages \ {"new"} : Moves(r, t, o)
  BY WsCases
<1>2. InStage("inflight")' = InStage("inflight")
  BY <1>1 DEF Moves, InStage, IInv, TypeOK
<1> QED
  BY <1>2 DEF IInv, AtomicExclusion

LEMMA WsIInvStep ==
  ASSUME IInv, [WsNext]_vars
  PROVE  IInv'
<1>1. WsStep \/ [Next]_vars
  BY DEF WsNext, WsStep
<1>2. CASE WsStep
  BY <1>2, WsTypeStep, WsWiringStep, WsAccountingStep, WsBoundStep, WsAtomicStep DEF IInv
<1>3. CASE [Next]_vars
  BY <1>3, TypeStep, WiringStep, AccountingStep, BoundStep, AtomicStep DEF IInv
<1> QED
  BY <1>1, <1>2, <1>3

-----------------------------------------------------------------------------
(* Preservation of the countdown and of the connection's spot *)

\* A connection restarts the countdown of its session as a request does.
LEMMA WsCountdownStep ==
  ASSUME IInv, Countdown, WsStep
  PROVE  Countdown'
<1>t. /\ TypeOK /\ reqKey \in [Req -> Keys \cup {NoKey}] /\ stage \in [Req -> Stages] /\ Obj = Req
  BY DEF IInv, TypeOK, Obj
<1>1. PICK r \in Req, o \in Obj, t \in Stages \ {"new"} : Around(o) /\ Moves(r, t, o)
  BY WsCases
<1>2. TickTracked'
  BY <1>1 DEF Around, LoopFree, TickTracked
<1>3. \A p \in Obj : Serving(p)' => Serving(p)
  BY <1>t, <1>1 DEF Moves, Serving
<1>4. ASSUME NEW p \in Obj
      PROVE  /\ info[p].last \in Nat /\ info[p].idle \in Int /\ MaxLag \in Nat /\ NoTime = -1
             /\ Serving(p) => info[p].idle = NoTime
             /\ info[p].idle <= info[p].last + MaxLag
  BY <1>t, InfoNumbers DEF Countdown, IdleAges, NoTime
<1>5. ASSUME NEW k \in WsKeys, WsAdmit(k)
      PROVE  Unshared' /\ IdleAges'
  <2> DEFINE n == arrived + 1
  <2>1. k \in Keys /\ n \in Req /\ n <= MaxRequests /\ arrived \in Nat
        /\ arrived' = n /\ reqKey' = [reqKey EXCEPT ![n] = k]
    BY <1>5, WsAdmitFacts
  <2>2. ASSUME NEW p \in Obj
        PROVE  /\ info'[p].shared \in {info[p].shared, NoKey}
               /\ \/ info'[p].idle = NoTime /\ info'[p].last = 0
                  \/ info'[p].idle = info[p].idle /\ info'[p].last = info[p].last
    BY <1>t, <1>5, <2>1, AdmittedInfo DEF WsAdmit
  <2>3. ASSUME NEW p \in Obj, info'[p].shared # NoKey
        PROVE  p <= arrived' /\ Ancestors[reqKey'[p]] # <<>>
    <3>1. p <= arrived /\ Ancestors[reqKey[p]] # <<>>
      BY <2>2, <2>3 DEF Countdown, Unshared
    <3>2. p \in Int /\ p # n
      BY <2>1, <3>1 DEF Obj, Req
    <3> QED
      BY <1>t, <2>1, <3>1, <3>2
  <2>4. ASSUME NEW p \in Obj
        PROVE  (Serving(p)' => info'[p].idle = NoTime) /\ info'[p].idle <= info'[p].last + MaxLag
    BY <1>3, <1>4, <2>2
  <2> QED
    BY <2>3, <2>4 DEF Unshared, IdleAges
<1>6. ASSUME NEW q \in Req, WsHold(q) \/ WsGiveUp(q) \/ WsClose(q)
      PROVE  Unshared' /\ IdleAges'
  <2>1. UNCHANGED <<arrived, reqKey, info>>
    BY <1>6, WsMoveFacts
  <2> QED
    BY <1>3, <1>4, <2>1 DEF Countdown, Unshared, IdleAges
<1> QED
  BY <1>2, <1>5, <1>6 DEF WsStep, Countdown

\* The HTTP path leaves the connections alone.
LEMMA ConnectionsKept ==
  ASSUME IInv, [Next]_vars, NEW r \in Req,
         r \in Connections \/ r \in Connections'
  PROVE  stage'[r] = stage[r]
<1>1. stage \in [Req -> Stages]
  BY DEF IInv, TypeOK
<1>2. ASSUME NEW q, NEW s \in {"admitting", "waiting", "inflight", "done"},
             stage' = [stage EXCEPT ![q] = s], stage[q] \in {"new", "admitting", "waiting", "inflight"}
      PROVE  stage'[r] = stage[r]
  BY <1>1, <1>2 DEF Connections
<1>3. Promote => stage'[r] = stage[r]
  BY <1>2, PromoteFacts
<1>4. ASSUME NEW k \in Keys, Admit(k)
      PROVE  stage'[r] = stage[r]
  <2>1. arrived + 1 \in Req /\ arrived \in Nat
    BY <1>4, ArrivedFacts DEF IInv, Admit, Req
  <2>2. stage[arrived + 1] = "new"
    BY <2>1 DEF IInv, Wiring
  <2> QED
    BY <1>2, <1>4, <2>2 DEF Admit
<1>5. (\E q \in Req : Enqueue(q)) => stage'[r] = stage[r]
  BY <1>2 DEF Enqueue
<1>6. (\E q \in Req : stage[q] = "inflight" /\ Release(q)) => stage'[r] = stage[r]
  BY <1>2 DEF Release
<1>7. (\E q \in Req : stage[q] = "waiting" /\ Abandon(q)) => stage'[r] = stage[r]
  BY <1>2 DEF Abandon
<1> QED
  BY <1>3, <1>4, <1>5, <1>6, <1>7, StepCases DEF ReleaseSpot, Quiet, requestVars

\* A session without parents, whose key this is, shares no spot.
LEMMA NothingShared ==
  ASSUME IInv, Countdown, NEW o \in Obj, SelfContained(reqKey[o])
  PROVE  info[o].shared = NoKey /\ NoKey \notin spots
BY KeysAssumption DEF IInv, TypeOK, Countdown, Unshared, SelfContained

\* A step of the HTTP path or of the manager leaves a connection its spot:
\* tick sees it in inflight, and an operator cannot reach it.
LEMMA OpenHttpStep ==
  ASSUME WsInv, [Next]_vars
  PROVE  OpenKeepsSpot'
<1>t. /\ IInv /\ TypeOK /\ Countdown
      /\ stage \in [Req -> Stages] /\ sessions \in [Keys -> Obj \cup {NoObj}]
      /\ reqKey \in [Req -> Keys \cup {NoKey}] /\ sessOf \in [Req -> Obj \cup {NoObj}]
  BY DEF WsInv, IInv, TypeOK
<1> SUFFICES ASSUME NEW r \in Req, stage'[r] = "open", SelfContained(reqKey'[r]),
                    sessions'[reqKey'[r]] = sessOf'[r],
                    \A q \in Connections' : reqKey'[q] = reqKey'[r] => q = r
             PROVE  reqKey'[r] \in spots'
  BY DEF OpenKeepsSpot, InStage, SelfContained
<1>c. Connections' = Connections
  BY <1>t, ConnectionsKept DEF Connections
<1>o. stage[r] = "open"
  <2>1. r \in Connections'
    BY DEF Connections
  <2> QED
    BY <1>t, <2>1, ConnectionsKept
<1>1. reqKey[r] \in Keys /\ sessOf[r] \in Obj /\ r \in 1..arrived /\ sessOf[r] # NoObj
  BY <1>t, <1>o, RequestFacts DEF Obj, Req, NoObj
<1>2. ASSUME SelfContained(reqKey[r]), sessions[reqKey[r]] = sessOf[r],
             \A q \in Connections : reqKey[q] = reqKey[r] => q = r
      PROVE  reqKey[r] \in spots
  BY <1>o, <1>2 DEF WsInv, OpenKeepsSpot, InStage
<1>3. CASE Promote
  <2>1. UNCHANGED <<sessions, reqKey, sessOf>> /\ spots \subseteq spots'
    BY <1>3 DEF Promote
  <2> QED
    BY <1>2, <1>c, <2>1
<1>4. ASSUME NEW k \in Keys, Admit(k)
      PROVE  reqKey'[r] \in spots'
  <2> DEFINE n == arrived + 1
             o == IF sessions[k] = NoObj THEN n ELSE sessions[k]
  <2>1. /\ n \in Req /\ arrived \in Nat
        /\ reqKey' = [reqKey EXCEPT ![n] = k] /\ sessOf' = [sessOf EXCEPT ![n] = o]
        /\ sessions' = [sessions EXCEPT ![k] = o]
        /\ spots' = spots
    BY <1>t, <1>4, ArrivedFacts DEF Admit, Req
  <2>2. r # n /\ reqKey'[r] = reqKey[r] /\ sessOf'[r] = sessOf[r] /\ sessOf[r] # n
    BY <1>t, <1>o, <1>1, <2>1, RequestFacts
  <2>3. sessions[reqKey[r]] = sessOf[r]
    BY <1>t, <1>1, <2>1, <2>2
  <2>4. \A q \in Connections : reqKey'[q] = reqKey[q]
    <3>1. stage[n] = "new"
      BY <1>t, <2>1 DEF IInv, Wiring
    <3> QED
      BY <1>t, <2>1, <3>1 DEF Connections
  <2> QED
    BY <1>2, <1>c, <2>1, <2>2, <2>3, <2>4
<1>5. ASSUME NEW k \in ManualKeys, ManualRelease(k)
      PROVE  reqKey'[r] \in spots'
  <2>1. sessions[k] \in Obj /\ reqKey[sessions[k]] = k /\ k \in Keys
    BY <1>t, <1>5, KeysAssumption DEF ManualRelease, IInv, Wiring
  <2>2. /\ spots' = spots \ {k} /\ UNCHANGED <<reqKey, sessOf>>
        /\ \/ sessions' = sessions
           \/ sessions' = [sessions EXCEPT ![k] = NoObj]
    BY <1>5, <2>1 DEF ManualRelease, ReleaseSpot, requestVars
  <2>3. reqKey[r] # k
    BY <2>2 DEF SelfContained
  <2> QED
    BY <1>t, <1>1, <1>2, <1>c, <2>1, <2>2, <2>3
<1>6. ASSUME NEW o \in Obj, TickSurrenders(o)
      PROVE  reqKey'[r] \in spots'
  <2>1. sessions[reqKey[o]] = o /\ inflight[o] = 0
    BY <1>t, <1>6 DEF TickSurrenders, Countdown, TickTracked, DeadlinePassed
  <2>2. /\ spots' = spots \ {reqKey[o]} /\ UNCHANGED <<reqKey, sessOf>>
        /\ \/ sessions' = sessions
           \/ sessions' = [sessions EXCEPT ![reqKey[o]] = NoObj]
    BY <1>6 DEF TickSurrenders, ReleaseSpot, requestVars
  <2>3. sessOf[r] # o
    BY <1>t, <1>o, <2>1, RunnerCounted
  <2>4. reqKey[r] # reqKey[o]
    BY <1>t, <1>1, <2>1, <2>2, <2>3
  <2> QED
    BY <1>t, <1>1, <1>2, <1>c, <2>2, <2>4
<1>7. CASE Calm
  BY <1>t, <1>1, <1>2, <1>c, <1>7 DEF Calm
<1> QED
  BY <1>t, <1>3, <1>4, <1>5, <1>6, <1>7, SpotCases

\* A step of a connection: it opens on a spot of its session, and the only
\* connection of a session loses nothing when another session's closes.
LEMMA OpenWsStep ==
  ASSUME WsInv, WsStep
  PROVE  OpenKeepsSpot'
<1>t. /\ IInv /\ TypeOK /\ Countdown
      /\ stage \in [Req -> Stages] /\ sessions \in [Keys -> Obj \cup {NoObj}]
      /\ reqKey \in [Req -> Keys \cup {NoKey}] /\ sessOf \in [Req -> Obj \cup {NoObj}]
  BY DEF WsInv, IInv, TypeOK
<1> SUFFICES ASSUME NEW r \in Req, stage'[r] = "open", SelfContained(reqKey'[r]),
                    sessions'[reqKey'[r]] = sessOf'[r],
                    \A q \in Connections' : reqKey'[q] = reqKey'[r] => q = r
             PROVE  reqKey'[r] \in spots'
  BY DEF OpenKeepsSpot, InStage, SelfContained
<1>1. ASSUME stage[r] = "open", SelfContained(reqKey[r]), sessions[reqKey[r]] = sessOf[r],
             \A q \in Connections : reqKey[q] = reqKey[r] => q = r
      PROVE  reqKey[r] \in spots
  BY <1>1 DEF WsInv, OpenKeepsSpot, InStage
<1>2. ASSUME NEW k \in WsKeys, WsAdmit(k)
      PROVE  reqKey'[r] \in spots'
  <2> DEFINE n == arrived + 1
             o == IF sessions[k] = NoObj THEN n ELSE sessions[k]
             shared == IF o = n THEN NoKey ELSE info[o].shared
  <2>1. /\ k \in Keys /\ n \in Req /\ o \in Obj /\ stage[n] = "new"
        /\ reqKey' = [reqKey EXCEPT ![n] = k] /\ sessOf' = [sessOf EXCEPT ![n] = o]
        /\ sessions' = [sessions EXCEPT ![k] = o]
        /\ \E t \in {"polling", "open"} : Moves(n, t, o)
        /\ spots \subseteq spots'
        /\ stage'[n] = "open" /\ shared \notin spots => k \in spots'
    BY <1>t, <1>2, WsAdmitFacts
  <2>2. PICK t \in {"polling", "open"} : \A q \in Req : stage'[q] = IF q = n THEN t ELSE stage[q]
    BY <1>t, <2>1 DEF Moves
  <2>3. CASE r = n
    <3>1. reqKey'[r] = k
      BY <1>t, <2>1, <2>3
    <3>2. shared \notin spots
      <4>1. NoKey \notin spots
        BY <1>t, KeysAssumption DEF TypeOK
      <4>2. ASSUME o # n
            PROVE  info[o].shared = NoKey
        <5>1. reqKey[o] = k
          BY <1>t, <2>1, <4>2 DEF IInv, Wiring
        <5> QED
          BY <1>t, <2>1, <3>1, <5>1, NothingShared
      <4> QED
        BY <4>1, <4>2
    <3> QED
      BY <2>1, <2>3, <3>1, <3>2
  <2>4. CASE r # n
    <3>1. stage[r] = "open" /\ reqKey'[r] = reqKey[r] /\ sessOf'[r] = sessOf[r]
      BY <1>t, <2>1, <2>2, <2>4
    <3>2. n \in Connections' /\ reqKey'[n] = k
      BY <1>t, <2>1, <2>2 DEF Connections
    <3>3. reqKey[r] # k
      BY <2>4, <3>1, <3>2
    <3>4. sessions[reqKey[r]] = sessOf[r]
      BY <1>t, <2>1, <3>1, <3>3, RequestFacts
    <3>5. \A q \in Connections : q \in Connections' /\ reqKey'[q] = reqKey[q]
      BY <1>t, <2>1, <2>2 DEF Connections
    <3> QED
      BY <1>1, <2>1, <3>1, <3>4, <3>5
  <2> QED
    BY <2>3, <2>4
<1>3. ASSUME NEW c \in Req, WsHold(c) \/ WsGiveUp(c) \/ WsClose(c)
      PROVE  reqKey'[r] \in spots'
  <2>1. /\ stage[c] \in {"polling", "open"} /\ sessOf[c] \in Obj
        /\ UNCHANGED <<reqKey, sessOf, sessions>>
        /\ \E t \in {"open", "closed"} : Moves(c, t, sessOf[c])
        /\ stage'[c] = "open" => (info[sessOf[c]].shared \notin spots => reqKey[c] \in spots')
        /\ \A k \in spots : k \in spots' \/ (stage[c] = "open" /\ k = reqKey[c])
    BY <1>t, <1>3, WsMoveFacts
  <2>2. PICK t \in {"open", "closed"} : \A q \in Req : stage'[q] = IF q = c THEN t ELSE stage[q]
    BY <1>t, <2>1 DEF Moves
  <2>3. CASE r = c
    <3>1. reqKey[sessOf[r]] = reqKey[r]
      BY <1>t, <2>1, <2>3, RequestFacts
    <3>2. info[sessOf[r]].shared \notin spots
      BY <1>t, <2>1, <2>3, <3>1, NothingShared
    <3> QED
      BY <2>1, <2>3, <3>2
  <2>4. CASE r # c
    <3>1. stage[r] = "open" /\ c \in Connections' /\ reqKey[c] # reqKey[r]
      BY <2>1, <2>2, <2>4 DEF Connections
    <3>2. \A q \in Connections : q \in Connections'
      BY <2>1, <2>2 DEF Connections
    <3>3. reqKey[r] \in spots
      BY <1>1, <2>1, <3>1, <3>2
    <3> QED
      BY <2>1, <3>1, <3>3
  <2> QED
    BY <2>3, <2>4
<1> QED
  BY <1>2, <1>3 DEF WsStep

-----------------------------------------------------------------------------
(* The theorems *)

\* Requests and connections together keep the invariant of the queue, the
\* countdown of its sessions and the spot of a session's only connection.
THEOREM WsInvariance == WsSpec => []WsInv
<1>1. Init => WsInv
  <2>1. Init => OpenKeepsSpot
    BY DEF Init, OpenKeepsSpot, InStage
  <2> QED
    BY <2>1, InitIInv, InitSession DEF WsInv, SessionInv
<1>2. WsInv /\ [WsNext]_vars => WsInv'
  <2> SUFFICES ASSUME WsInv, [WsNext]_vars PROVE WsInv'
    OBVIOUS
  <2>1. IInv'
    BY WsIInvStep DEF WsInv
  <2>2. WsStep \/ [Next]_vars
    BY DEF WsNext, WsStep
  <2>3. Countdown' /\ OpenKeepsSpot'
    BY <2>2, CountdownStep, WsCountdownStep, OpenHttpStep, OpenWsStep DEF WsInv
  <2> QED
    BY <2>1, <2>3 DEF WsInv
<1> QED
  BY <1>1, <1>2, PTL DEF WsSpec

\* _hold_ws_spot and _release_ws_spot keep inflight exact beside the HTTP
\* path: it counts the running requests and the open connections of a session,
\* and inflight_total the requests alone.
THEOREM WsCountsExact == WsSpec => []WsAccounting
<1>1. WsInv => WsAccounting
  BY DEF WsInv, IInv, SlotAccounting, WsAccounting
<1> QED
  BY <1>1, WsInvariance, PTL

\* A connection, outside FIFO and readiness as it is, never takes a spot
\* beyond max_spots.
THEOREM WsSpotsBounded == WsSpec => []SpotsBounded
<1>1. WsInv => SpotsBounded
  BY DEF WsInv, IInv
<1> QED
  BY <1>1, WsInvariance, PTL

\* request_mode "atomic" holds among the HTTP requests whatever the
\* connections do: they take nothing off inflight_total.
THEOREM WsAtomic == WsSpec => []AtomicExclusion
<1>1. WsInv => AtomicExclusion
  BY DEF WsInv, IInv
<1> QED
  BY <1>1, WsInvariance, PTL

\* D18: the only connection of a tracked session that shares no spot and is not
\* released by hand has its spot until it closes.
THEOREM OpenConnectionsKeepSpots == WsSpec => []OpenKeepsSpot
<1>1. WsInv => OpenKeepsSpot
  BY DEF WsInv
<1> QED
  BY <1>1, WsInvariance, PTL

\* tick honours the cooldown of a known client's session when connections
\* open, poll and close on it too.
THEOREM WsCooldowns == WsSpec => CooldownHonoured
<1> DEFINE Honoured ==
      \A k \in Known : (mgr = "tick" /\ k \in spots /\ k \notin spots') =>
        LET f == info[sessions[k]] IN
        \/ f.last >= Expiry - MaxLag
        \/ f.cstat = "waiting"
        \/ Immediate /\ f.cstat = "idle" /\ f.cat < f.last
<1>1. WsInv /\ [WsNext]_vars => [Honoured]_vars
  <2> SUFFICES ASSUME WsInv, [WsNext]_vars PROVE Honoured
    OBVIOUS
  <2>1. WsStep \/ [Next]_vars
    BY DEF WsNext, WsStep
  <2>2. CASE WsStep
    BY <2>2, WsCases DEF WsInv, Around, LoopFree
  <2>3. CASE [Next]_vars
    BY <2>3, CooldownStep DEF WsInv
  <2> QED
    BY <2>1, <2>2, <2>3
<1> QED
  BY <1>1, WsInvariance, PTL DEF WsSpec, CooldownHonoured

-----------------------------------------------------------------------------
(* Wake-ups beside connections *)

\* A connection that is counted, and takes a spot while there is a free one,
\* makes no entry eligible that was not: whose session's spot it takes could
\* have taken that spot itself.
LEMMA HeldEligible ==
  ASSUME TypeOK, NEW r \in Req, sessOf[r] \in Obj, SameFor(r), UNCHANGED inflightTotal,
         \A o \in Obj : inflight'[o] \in Nat /\ inflight[o] <= inflight'[o],
         \/ spots' = spots
         \/ \E k \in Keys : spots' = spots \cup {k} /\ Cardinality(spots) < MaxSpots,
         Eligible(r)'
  PROVE  Eligible(r)
<1> DEFINE o == sessOf[r]
<1>1. inflight[o] \in Nat /\ inflight'[o] \in Nat /\ inflight[o] <= inflight'[o] /\ Cap \in Int
  BY LimitsAssumption DEF TypeOK
<1>2. spots \subseteq Keys /\ NoKey \notin Keys /\ NoKey \notin spots /\ spots \subseteq spots'
      /\ NoKey \notin spots'
  BY KeysAssumption DEF TypeOK
<1>3. sessOf'[r] = o /\ reqKey'[o] = reqKey[o] /\ info'[o].shared = info[o].shared
  BY DEF SameFor
<1>4. ~(Atomic /\ inflightTotal > 0)
  BY DEF Eligible
<1>5. IF SpotKey(o)' # NoKey THEN Cap < 0 \/ inflight'[o] < Cap
                             ELSE Cardinality(spots') < MaxSpots
  BY <1>3 DEF Eligible, SpotKey
<1>6. (SpotKey(o) # NoKey <=> {reqKey[o], info[o].shared} \cap spots # {})
      /\ (SpotKey(o)' # NoKey <=> {reqKey[o], info[o].shared} \cap spots' # {})
  BY <1>2, <1>3 DEF SpotKey
<1> HIDE DEF o
<1>7. CASE Cardinality(spots) < MaxSpots /\ SpotKey(o) = NoKey
  BY <1>4, <1>7 DEF Eligible, o
<1>8. CASE SpotKey(o) # NoKey
  <2>1. Cap < 0 \/ inflight'[o] < Cap
    BY <1>2, <1>5, <1>6, <1>8
  <2> QED
    BY <1>1, <1>4, <1>8, <2>1 DEF Eligible, o
<1>9. CASE spots' = spots /\ SpotKey(o) = NoKey
  <2>1. SpotKey(o)' = NoKey
    BY <1>6, <1>9
  <2> QED
    BY <1>5, <1>7, <1>9, <2>1
<1> QED
  BY <1>7, <1>8, <1>9

\* A step of a connection leaves an entry that may run waiting only if it
\* already did, or if it is the end of a connection without a spot of its own.
LEMMA WsStalledStep ==
  ASSUME IInv, WsStep, Stalled'
  PROVE  Stalled \/ ClosesWithoutSpot
<1>t. TypeOK /\ queue \in Seq(Req) /\ ~promoting' /\ CanPromote'
  BY DEF IInv, TypeOK, Stalled
<1>e. \A i \in 1..Len(queue) : queue[i] \in Req /\ sessOf[queue[i]] \in Obj
  BY EntryFacts
<1>1. ASSUME NEW o \in Obj, Around(o), \A i \in 1..Len(queue) : SameFor(queue[i]),
             \A p \in Obj : inflight'[p] \in Nat /\ inflight[p] <= inflight'[p],
             \/ spots' = spots
             \/ \E k \in Keys : spots' = spots \cup {k} /\ Cardinality(spots) < MaxSpots
      PROVE  Stalled
  <2>1. UNCHANGED <<ready, queue, inflightTotal>> /\ ~promoting
    BY <1>1 DEF Around, LoopFree
  <2>2. ready /\ \E i \in 1..Len(queue) : Eligible(queue[i])'
    BY <1>t, <2>1 DEF CanPromote
  <2>3. PICK i \in 1..Len(queue) : Eligible(queue[i])'
    BY <2>2
  <2>4. PICK r \in Req : r = queue[i] /\ r = queue'[i] /\ sessOf[r] \in Obj /\ SameFor(r)
    BY <1>e, <1>1, <2>1
  <2>5. Eligible(r)'
    BY <2>3, <2>4 DEF Eligible
  <2>6. Eligible(r)
    BY <1>t, <1>1, <2>1, <2>4, <2>5, HeldEligible
  <2> QED
    BY <2>1, <2>2, <2>4, <2>6 DEF Stalled, CanPromote
\* What counting a connection, or not, does to inflight.
<1>2. ASSUME NEW o \in Obj, inflight' = inflight \/ inflight' = [inflight EXCEPT ![o] = inflight[o] + 1],
             NEW p \in Obj
      PROVE  inflight'[p] \in Nat /\ inflight[p] <= inflight'[p]
  <2>1. inflight \in [Obj -> Nat] /\ inflight[p] \in Nat /\ inflight[o] \in Nat
    BY <1>t DEF TypeOK
  <2> QED
    BY <1>2, <2>1
<1>3. ASSUME NEW k \in WsKeys, WsAdmit(k) PROVE Stalled
  <2>1. PICK r \in Req, o \in Obj :
          /\ k \in Keys /\ r = arrived + 1 /\ Around(o)
          /\ reqKey' = [reqKey EXCEPT ![r] = k] /\ sessOf' = [sessOf EXCEPT ![r] = o]
          /\ info' = IF o = r THEN [info EXCEPT ![o] = NewInfo] ELSE Revived(o)
          /\ \E t \in {"polling", "open"} : Moves(r, t, o)
          /\ spots \subseteq spots'
    BY <1>3, WsAdmitFacts
  <2>2. \A i \in 1..Len(queue) : SameFor(queue[i])
    BY <2>1, AdmissionSame
  <2>3. inflight' = inflight \/ inflight' = [inflight EXCEPT ![o] = inflight[o] + 1]
    BY <2>1 DEF Moves
  <2>4. spots' = spots \/ \E q \in Keys : spots' = spots \cup {q} /\ Cardinality(spots) < MaxSpots
    BY <2>1 DEF Around
  <2> QED
    BY <1>1, <1>2, <2>1, <2>2, <2>3, <2>4
<1>4. ASSUME NEW r \in Req, WsHold(r) \/ WsGiveUp(r) PROVE Stalled
  <2>1. /\ sessOf[r] \in Obj /\ Around(sessOf[r]) /\ UNCHANGED <<reqKey, sessOf, info>>
        /\ \E t \in {"open", "closed"} : Moves(r, t, sessOf[r])
    BY <1>4, WsMoveFacts
  <2>2. stage[r] = "polling"
    BY <1>4 DEF WsHold, WsGiveUp
  <2>3. \A i \in 1..Len(queue) : SameFor(queue[i])
    BY <2>1 DEF SameFor
  <2>4. \/ inflight' = inflight
        \/ inflight' = [inflight EXCEPT ![sessOf[r]] = inflight[sessOf[r]] + 1]
    BY <2>1, <2>2 DEF Moves
  <2>5. spots \subseteq spots'
    BY <1>4, <2>2, WsMoveFacts
  <2>6. spots' = spots \/ \E q \in Keys : spots' = spots \cup {q} /\ Cardinality(spots) < MaxSpots
    BY <2>1, <2>5 DEF Around
  <2> QED
    BY <1>1, <1>2, <2>1, <2>3, <2>4, <2>6
<1>5. ASSUME NEW r \in Req, WsClose(r) PROVE ClosesWithoutSpot
  <2>1. promoting' = (reqKey[r] \in spots /\ CanPromote') /\ stage[r] = "open"
        /\ stage' = [stage EXCEPT ![r] = "closed"]
    BY <1>5 DEF WsClose
  <2>2. reqKey[r] \notin spots
    BY <1>t, <2>1, Zenon
  <2>3. stage'[r] = "closed"
    BY <1>t, <2>1 DEF TypeOK
  <2> QED
    BY <2>1, <2>2, <2>3 DEF ClosesWithoutSpot
<1> QED
  BY <1>3, <1>4, <1>5 DEF WsStep

\* Connections take and free spots outside the queue; still an entry that may
\* run is left to the manager only by a probe, a shared spot, or the end of a
\* connection that had no spot of its own (_release_ws_spot), and no pass of
\* the manager leaves one.
THEOREM WsNoWakeupLost == WsSpec => NoLostWakeup
<1>1. WsInv /\ [WsNext]_vars => [Woken]_vars
  <2> SUFFICES ASSUME WsInv, [WsNext]_vars PROVE Woken
    OBVIOUS
  <2>1. WsStep \/ [Next]_vars
    BY DEF WsNext, WsStep
  <2>2. CASE WsStep
    <3>1. mgr' = mgr
      BY <2>2, WsCases DEF WsInv, Around
    <3> QED
      BY <2>2, <3>1, WsStalledStep DEF WsInv, Woken
  <2>3. CASE [Next]_vars
    BY <2>3, StalledStep, PassEnds DEF WsInv, Woken
  <2> QED
    BY <2>1, <2>2, <2>3
<1> QED
  BY <1>1, WsInvariance, PTL DEF WsSpec, NoLostWakeup, Woken

=============================================================================
