--------------------------- MODULE SessionProofs ---------------------------
(***************************************************************************)
(* What EndpointQueue promises one session: it keeps the spot it runs on,  *)
(* stays within its cap, has its requests started in order, and loses its  *)
(* spot only after the cooldown.  Proved on top of IInv.                   *)
(***************************************************************************)
EXTENDS EndpointQueueProofs

-----------------------------------------------------------------------------
(* The inductive invariant *)

\* While tick is in its loop, the sessions it has still to visit are tracked:
\* nothing is admitted meanwhile and each visit drops at most the session it
\* is at.  So tick never surrenders the spot of a Session object whose key has
\* passed to another one.
TickTracked == mgr = "tick" => \A o \in tickTodo : sessions[reqKey[o]] = o

\* Only a session with a parent chain shares an ancestor's spot.
Unshared ==
  \A o \in Obj : info[o].shared # NoKey => o <= arrived /\ Ancestors[reqKey[o]] # <<>>

\* An HTTP request of session object o is in flight.
Serving(o) == \E r \in Req : stage[r] = "inflight" /\ sessOf[r] = o

\* A session with such a request is in no idle countdown, and a countdown
\* began at most the lag of one manager pass before its last request.
IdleAges ==
  \A o \in Obj : /\ Serving(o) => info[o].idle = NoTime
                 /\ info[o].idle <= info[o].last + MaxLag

\* The three parts that hold beside WebSockets too.
Countdown == TickTracked /\ Unshared /\ IdleAges

\* Without WebSockets there is none.
HttpOnly == \A r \in Req : stage[r] # "open"

SessionInv == Countdown /\ HttpOnly /\ RunnerKeepsSpot /\ SessionCap

-----------------------------------------------------------------------------
(* Lemmas *)

\* The numbers of one session's info.
LEMMA InfoNumbers ==
  ASSUME TypeOK, NEW o \in Obj
  PROVE  /\ info[o].last \in Nat /\ info[o].last <= Horizon
         /\ info[o].idle \in Int /\ info[o].idle >= -1 /\ info[o].idle <= Horizon
         /\ info[o].cat \in Nat /\ info[o].shared \in Keys \cup {NoKey}
         /\ mgrAge \in Nat /\ mgrAge <= MaxLag /\ MaxLag \in Nat /\ Horizon \in Nat
<1>1. info[o] \in Info /\ mgrAge \in 0..MaxLag
  BY DEF TypeOK
<1>2. /\ info[o].last \in Age /\ info[o].idle \in {NoTime} \cup Age /\ info[o].cat \in Age
      /\ info[o].shared \in Keys \cup {NoKey}
  BY <1>1 DEF Info
<1> QED
  BY <1>1, <1>2, HorizonNat, TimesAssumption DEF Age, NoTime

\* What each update of a session's info leaves of it, field by field.
LEMMA InfoFields ==
  ASSUME TypeOK, NEW o \in Obj, NEW p \in Obj
  PROVE  /\ \A t : LET f == [info EXCEPT ![o].idle = t] IN
              /\ f[p].idle = (IF p = o THEN t ELSE info[p].idle)
              /\ f[p].last = info[p].last /\ f[p].shared = info[p].shared
         /\ LET f == [info EXCEPT ![o].last = 0] IN
              /\ f[p].last = (IF p = o THEN 0 ELSE info[p].last)
              /\ f[p].idle = info[p].idle /\ f[p].shared = info[p].shared
         /\ LET f == Revived(o) IN
              /\ f[p].last = (IF p = o THEN 0 ELSE info[p].last)
              /\ f[p].idle = (IF p = o THEN NoTime ELSE info[p].idle)
              /\ f[p].shared = info[p].shared
         /\ LET f == [info EXCEPT ![o] = NewInfo] IN
              f[p] = (IF p = o THEN NewInfo ELSE info[p])
         /\ \A k : LET f == [info EXCEPT ![o].shared = k] IN
              /\ f[p].shared = (IF p = o THEN k ELSE info[p].shared)
              /\ f[p].last = info[p].last /\ f[p].idle = info[p].idle
         /\ \A s : LET f == [info EXCEPT ![o].cstat = s, ![o].cat = 0] IN
              /\ f[p].last = info[p].last /\ f[p].idle = info[p].idle
              /\ f[p].shared = info[p].shared
<1>1. info \in [Obj -> Info] /\ info[o] \in Info /\ info[p] \in Info
  BY DEF TypeOK
<1> QED
  BY <1>1 DEF Info, Revived

\* get_or_create_session makes a session or restarts its idle countdown; it
\* never lets one share a spot.
LEMMA AdmittedInfo ==
  ASSUME TypeOK, NEW k \in Keys, arrived + 1 <= MaxRequests,
         LET o == IF sessions[k] = NoObj THEN arrived + 1 ELSE sessions[k] IN
         info' = IF o = arrived + 1 THEN [info EXCEPT ![o] = NewInfo] ELSE Revived(o),
         NEW p \in Obj
  PROVE  /\ info'[p].shared \in {info[p].shared, NoKey}
         /\ \/ info'[p].idle = NoTime /\ info'[p].last = 0
            \/ info'[p].idle = info[p].idle /\ info'[p].last = info[p].last
<1> DEFINE r == arrived + 1
           q == IF sessions[k] = NoObj THEN r ELSE sessions[k]
<1>1. /\ q \in Obj
      /\ info' = IF q = r THEN [info EXCEPT ![q] = NewInfo] ELSE Revived(q)
  BY ArrivedFacts DEF TypeOK, Obj, Req
<1> HIDE DEF q, r
<1>2. CASE q = r
  <2>1. info'[p] = IF p = q THEN NewInfo ELSE info[p]
    <3>1. info' = [info EXCEPT ![q] = NewInfo] /\ info \in [Obj -> Info]
      BY <1>1, <1>2 DEF TypeOK
    <3> QED
      BY <3>1
  <2>2. NewInfo.shared = NoKey /\ NewInfo.idle = NoTime /\ NewInfo.last = 0
    BY DEF NewInfo
  <2> QED
    BY <2>1, <2>2
<1>3. CASE q # r
  BY <1>1, <1>3, InfoFields
<1> QED
  BY <1>2, <1>3

\* What the promotion loop, an admission and a surrendered spot do to info.
\* Every other step of the queue that changes it is a step of the clock or of
\* the manager.
LEMMA InfoCases ==
  ASSUME IInv, [Next]_vars
  PROVE  \/ \E o \in Obj : Promote /\ info' = [info EXCEPT ![o].idle = NoTime]
         \/ \E k \in Keys : Admit(k)
         \/ \E o \in Obj : UNCHANGED <<inflight, arrived, reqKey>>
                           /\ info' = [info EXCEPT ![o].idle = NoTime]
         \/ \E r \in Req : stage[r] = "inflight" /\ Release(r)
         \/ TickStep
         \/ Second
         \/ \E o \in Obj : ResolveShared(o)
         \/ \E o \in Obj, s \in Reports : Report(o, s)
         \/ UNCHANGED <<info, inflight, arrived, reqKey>>
<1> USE DEF queueVars, counterVars, requestVars, managerVars
<1>1. CASE Promote
  <2>1. PICK i \in 1..Len(queue) : info' = [info EXCEPT ![sessOf[queue[i]]].idle = NoTime]
    BY <1>1 DEF Promote
  <2>2. sessOf[queue[i]] \in Obj
    BY EntryFacts
  <2> QED
    BY <1>1, <2>1, <2>2
<1>2. ASSUME NEW k \in ManualKeys, ManualRelease(k)
      PROVE  \E o \in Obj : UNCHANGED <<inflight, arrived, reqKey>>
                            /\ info' = [info EXCEPT ![o].idle = NoTime]
  <2>1. sessions[k] \in Obj
    BY <1>2, KeysAssumption DEF ManualRelease, TypeOK, IInv
  <2> QED
    BY <1>2, <2>1 DEF ManualRelease, ReleaseSpot
<1>3. ASSUME NEW r \in Req, GiveUp(r) \/ Finish(r)
      PROVE  \/ stage[r] = "inflight" /\ Release(r)
             \/ UNCHANGED <<info, inflight, arrived, reqKey>>
  BY <1>3 DEF GiveUp, Finish, Abandon
<1>4. ASSUME NEW r \in Req, Enqueue(r)
      PROVE  UNCHANGED <<info, inflight, arrived, reqKey>>
  BY <1>4 DEF Enqueue
<1>5. CASE Wake \/ TickStart \/ TickEnd \/ ManagerPromote \/ ReadinessFlip
  BY <1>5 DEF Wake, TickStart, TickEnd, ManagerPromote, ReadinessFlip
<1>6. CASE UNCHANGED vars
  BY <1>6 DEF vars
<1> QED
  BY <1>1, <1>2, <1>3, <1>4, <1>5, <1>6 DEF Next, Manager

-----------------------------------------------------------------------------
(* Preservation of the invariant, part by part *)

\* The tracked sessions a snapshot takes are tracked under their own keys.
LEMMA SnapshotTracked ==
  ASSUME IInv, NEW o \in {sessions[k] : k \in Keys} \ {NoObj}
  PROVE  o \in Obj /\ sessions[reqKey[o]] = o
<1>1. PICK k \in Keys : o = sessions[k] /\ sessions[k] # NoObj
  OBVIOUS
<1>2. sessions[k] \in Obj /\ reqKey[sessions[k]] = k
  BY <1>1 DEF IInv, TypeOK, Wiring
<1> QED
  BY <1>1, <1>2

\* tick's snapshot stays tracked until each of its sessions is visited.
LEMMA TickTrackedStep ==
  ASSUME IInv, TickTracked, [Next]_vars
  PROVE  TickTracked'
<1> USE DEF queueVars, counterVars, requestVars, managerVars
<1> SUFFICES ASSUME mgr' = "tick", NEW o \in tickTodo'
             PROVE  sessions'[reqKey'[o]] = o
  BY DEF TickTracked
<1>1. CASE Wake \/ TickStart
  <2>1. o \in {sessions[k] : k \in Keys} \ {NoObj} /\ UNCHANGED <<sessions, reqKey>>
    BY <1>1 DEF Wake, TickStart
  <2> QED
    BY <2>1, SnapshotTracked
<1>2. CASE TickStep
  <2>1. PICK p \in tickTodo : tickTodo' = tickTodo \ {p} /\ TickSession(p)
    BY <1>2 DEF TickStep
  <2>2. mgr = "tick" /\ o # p /\ o \in tickTodo
    BY <1>2, <2>1 DEF TickStep
  <2>3. sessions[reqKey[o]] = o /\ sessions[reqKey[p]] = p
    BY <2>1, <2>2 DEF TickTracked
  <2>4. reqKey' = reqKey /\ \/ sessions' = sessions
                            \/ sessions' = [sessions EXCEPT ![reqKey[p]] = NoObj]
    BY <2>1 DEF TickSession, ReleaseSpot
  <2>5. reqKey[o] # reqKey[p] /\ sessions \in [Keys -> Obj \cup {NoObj}]
    BY <2>2, <2>3 DEF IInv, TypeOK
  <2>6. reqKey[o] \in Keys
    <3>1. o \in Obj /\ o <= arrived /\ arrived \in Nat
      BY <2>2, ArrivedFacts DEF IInv, TypeOK, Wiring
    <3> QED
      BY <3>1 DEF IInv, Wiring, Obj, Req
  <2> QED
    BY <2>3, <2>4, <2>5, <2>6
<1>3. CASE Promote
  BY <1>3 DEF Promote, TickTracked
<1>4. CASE UNCHANGED vars
  BY <1>4 DEF vars, TickTracked
<1>5. CASE mgr # "tick" /\ mgr' = mgr
  BY <1>5
<1>6. ASSUME NEW k \in Keys, Admit(k)
      PROVE  mgr # "tick" /\ mgr' = mgr
  BY <1>6 DEF Admit, LoopFree
<1>7. ASSUME NEW r \in Req, Enqueue(r) \/ GiveUp(r) \/ Finish(r)
      PROVE  mgr # "tick" /\ mgr' = mgr
  BY <1>7 DEF Enqueue, GiveUp, Finish, Release, Abandon, LoopFree
<1>8. ASSUME NEW k \in ManualKeys, ManualRelease(k)
      PROVE  mgr # "tick" /\ mgr' = mgr
  BY <1>8 DEF ManualRelease, LoopFree
<1>9. ASSUME NEW p \in Obj, \/ ResolveShared(p) \/ \E s \in Reports : Report(p, s)
      PROVE  mgr # "tick" /\ mgr' = mgr
  BY <1>9 DEF ResolveShared, Report, LoopFree
<1>10. CASE TickEnd \/ ManagerPromote
  BY <1>10 DEF TickEnd, ManagerPromote
<1>11. CASE ReadinessFlip \/ Second
  BY <1>11 DEF ReadinessFlip, Second, LoopFree
<1> QED
  BY <1>1, <1>2, <1>3, <1>4, <1>5, <1>6, <1>7, <1>8, <1>9, <1>10, <1>11 DEF Next, Manager

\* resolve_shared_spot gives a session without a parent chain nothing to share.
LEMMA UnsharedStep ==
  ASSUME IInv, Unshared, [Next]_vars
  PROVE  Unshared'
<1>t. TypeOK
  BY DEF IInv
<1> SUFFICES ASSUME NEW o \in Obj, info'[o].shared # NoKey
             PROVE  o <= arrived' /\ Ancestors[reqKey'[o]] # <<>>
  BY DEF Unshared
<1>1. ASSUME UNCHANGED <<arrived, reqKey>>, info'[o].shared = info[o].shared
      PROVE  o <= arrived' /\ Ancestors[reqKey'[o]] # <<>>
  BY <1>1 DEF Unshared
<1>2. ASSUME NEW p \in Obj, NEW t, info' = [info EXCEPT ![p].idle = t]
      PROVE  info'[o].shared = info[o].shared
  BY <1>t, <1>2, InfoFields
<1>3. ASSUME NEW k \in Keys, Admit(k)
      PROVE  o <= arrived' /\ Ancestors[reqKey'[o]] # <<>>
  <2> DEFINE r == arrived + 1
  <2>1. /\ r \in Obj /\ arrived \in Nat /\ r <= MaxRequests
        /\ arrived' = r /\ reqKey' = [reqKey EXCEPT ![r] = k]
    BY <1>t, <1>3, ArrivedFacts DEF Admit, Obj, Req
  <2>2. info'[o].shared \in {info[o].shared, NoKey}
    BY <1>t, <1>3, <2>1, AdmittedInfo DEF Admit
  <2>3. o <= arrived /\ Ancestors[reqKey[o]] # <<>>
    BY <2>2 DEF Unshared
  <2>4. o \in Int /\ o # r
    BY <2>1, <2>3 DEF Obj, Req
  <2> QED
    BY <1>t, <2>1, <2>3, <2>4 DEF TypeOK
<1>4. ASSUME NEW r \in Req, stage[r] = "inflight", Release(r)
      PROVE  info'[o].shared = info[o].shared /\ UNCHANGED <<arrived, reqKey>>
  <2>1. sessOf[r] \in Obj
    BY <1>4, RequestFacts
  <2> QED
    BY <1>t, <1>4, <2>1, InfoFields DEF Release
<1>5. CASE TickStep
  <2>1. PICK p \in tickTodo : TickSession(p)
    BY <1>5 DEF TickStep
  <2>2. p \in Obj
    BY <1>t DEF TypeOK
  <2>3. UNCHANGED <<arrived, reqKey>> /\ \E t : info' = [info EXCEPT ![p].idle = t]
    BY <2>1 DEF TickSession, ReleaseSpot, requestVars
  <2> QED
    BY <1>1, <1>2, <2>2, <2>3
<1>6. CASE Second
  <2>1. UNCHANGED <<arrived, reqKey>>
    BY <1>6 DEF Second, requestVars
  <2>2. \/ info'[o] = [info[o] EXCEPT !.idle = Older(@), !.last = Older(@), !.cat = Older(@)]
        \/ info'[o] = NewInfo
    BY <1>6 DEF Second
  <2>3. info[o] \in Info
    BY <1>t DEF TypeOK
  <2>4. info'[o] # NewInfo
    BY DEF NewInfo
  <2>5. info'[o].shared = info[o].shared
    <3> DEFINE a == Older(info[o].idle)
               b == Older(info[o].last)
               c == Older(info[o].cat)
    <3>1. info'[o] = [info[o] EXCEPT !.idle = a, !.last = b, !.cat = c]
      BY <2>2, <2>4
    <3> HIDE DEF a, b, c
    <3> QED
      BY <2>3, <3>1 DEF Info
  <2> QED
    BY <1>1, <2>1, <2>5
<1>7. ASSUME NEW p \in Obj, ResolveShared(p)
      PROVE  o <= arrived' /\ Ancestors[reqKey'[o]] # <<>>
  <2>1. p <= arrived /\ UNCHANGED <<arrived, reqKey>>
    BY <1>7 DEF ResolveShared, requestVars, IInv, Wiring
  <2>2. PICK k : info' = [info EXCEPT ![p].shared = k]
                 /\ (k # NoKey => \E i \in 1..Len(Ancestors[reqKey[p]]) : TRUE)
    BY <1>7 DEF ResolveShared
  <2>3. info'[o].shared = IF o = p THEN k ELSE info[o].shared
    BY <1>t, <2>2, InfoFields
  <2>4. ASSUME o = p
        PROVE  Ancestors[reqKey[o]] # <<>>
    BY <2>2, <2>3, <2>4
  <2> QED
    BY <2>1, <2>3, <2>4 DEF Unshared
<1>8. ASSUME NEW p \in Obj, NEW s \in Reports, Report(p, s)
      PROVE  info'[o].shared = info[o].shared /\ UNCHANGED <<arrived, reqKey>>
  <2>1. info' = [info EXCEPT ![p].cstat = s, ![p].cat = 0] /\ UNCHANGED <<arrived, reqKey>>
    BY <1>8 DEF Report, requestVars
  <2>2. info \in [Obj -> Info] /\ info[o] \in Info
    BY <1>t DEF TypeOK
  <2> QED
    BY <2>1, <2>2 DEF Info
<1>9. Promote => UNCHANGED <<arrived, reqKey>>
  BY DEF Promote
<1> QED
  BY <1>1, <1>2, <1>3, <1>4, <1>5, <1>6, <1>7, <1>8, <1>9, InfoCases

\* A request in flight, and an open connection, is counted.
LEMMA RunnerCounted ==
  ASSUME IInv, NEW r \in Req, stage[r] \in {"inflight", "open"}
  PROVE  sessOf[r] \in Obj /\ inflight[sessOf[r]] > 0
<1>1. sessOf[r] \in Obj
  BY RequestFacts
<1>2. r \in InStageOf(stage[r], sessOf[r])
  BY DEF InStageOf
<1>3. Cardinality(InStageOf(stage[r], sessOf[r])) # 0
  BY <1>2, StagesFinite, FS_EmptySet DEF IInv
<1>4. inflight[sessOf[r]] = Cardinality(InStageOf("inflight", sessOf[r]))
                            + Cardinality(InStageOf("open", sessOf[r]))
  BY <1>1 DEF IInv, SlotAccounting
<1>5. /\ Cardinality(InStageOf("inflight", sessOf[r])) \in Nat
      /\ Cardinality(InStageOf("open", sessOf[r])) \in Nat
  BY StagesFinite DEF IInv
<1> QED
  BY <1>1, <1>3, <1>4, <1>5

\* What is counted for a session is one of its requests or connections.
LEMMA CountedRunner ==
  ASSUME IInv, NEW o \in Obj, inflight[o] # 0
  PROVE  \E r \in Req : stage[r] \in {"inflight", "open"} /\ sessOf[r] = o
<1>1. inflight[o] = Cardinality(InStageOf("inflight", o)) + Cardinality(InStageOf("open", o))
  BY DEF IInv, SlotAccounting
<1>2. /\ Cardinality(InStageOf("inflight", o)) \in Nat
      /\ Cardinality(InStageOf("open", o)) \in Nat
  BY StagesFinite DEF IInv
<1>3. Cardinality(InStageOf("inflight", o)) # 0 \/ Cardinality(InStageOf("open", o)) # 0
  BY <1>1, <1>2
<1>4. InStageOf("inflight", o) # {} \/ InStageOf("open", o) # {}
  BY <1>3, FS_EmptySet
<1> QED
  BY <1>4 DEF InStageOf

\* Spots stay as they are, no request starts and no session appears.
Calm ==
  /\ UNCHANGED <<spots, reqKey, sessOf>>
  /\ \A k \in Keys : sessions'[k] \in {sessions[k], NoObj}
  /\ \A r \in Req : stage'[r] = "inflight" => stage[r] = "inflight"
  /\ \A o \in Obj : inflight'[o] <= inflight[o]

\* tick surrenders the spot of the tracked session o, whose deadline passed.
TickSurrenders(o) ==
  /\ mgr = "tick" /\ o \in tickTodo
  /\ spotHeld[o] /\ DeadlinePassed(o)
  /\ ReleaseSpot(o)

\* Every step promotes, admits, surrenders a spot by hand or in tick, or is
\* calm.
LEMMA SpotCases ==
  ASSUME IInv, [Next]_vars
  PROVE  \/ Promote
         \/ \E k \in Keys : Admit(k)
         \/ \E k \in ManualKeys : ManualRelease(k)
         \/ \E o \in Obj : TickSurrenders(o)
         \/ Calm
<1> USE DEF queueVars, counterVars, requestVars, managerVars
<1>t. /\ TypeOK /\ stage \in [Req -> Stages] /\ sessions \in [Keys -> Obj \cup {NoObj}]
      /\ inflight \in [Obj -> Nat]
  BY DEF IInv, TypeOK
<1>1. CASE UNCHANGED <<spots, reqKey, sessOf, sessions, stage, inflight>>
  BY <1>t, <1>1 DEF Calm
<1>2. ASSUME NEW r \in Req, Enqueue(r)
      PROVE  Calm
  BY <1>t, <1>2 DEF Enqueue, Calm
<1>3. ASSUME NEW r \in Req, Release(r)
      PROVE  Calm
  BY <1>t, <1>3 DEF Release, Calm
<1>4. ASSUME NEW r \in Req, Abandon(r)
      PROVE  Calm
  BY <1>t, <1>4 DEF Abandon, Calm
<1>5. CASE TickStep
  <2>1. PICK o \in tickTodo : TickSession(o)
    BY <1>5 DEF TickStep
  <2>2. o \in Obj /\ mgr = "tick"
    BY <1>t, <1>5 DEF TypeOK, TickStep
  <2>3. CASE spotHeld[o] /\ DeadlinePassed(o)
    BY <2>1, <2>2, <2>3 DEF TickSession, TickSurrenders
  <2>4. CASE ~(spotHeld[o] /\ DeadlinePassed(o))
    BY <1>t, <2>1, <2>4 DEF TickSession, Calm
  <2> QED
    BY <2>3, <2>4
<1>6. CASE \/ Wake \/ TickStart \/ TickEnd \/ ManagerPromote \/ ReadinessFlip \/ Second
           \/ \E o \in Obj : ResolveShared(o)
           \/ \E o \in Obj, s \in Reports : Report(o, s)
           \/ UNCHANGED vars
  BY <1>1, <1>6 DEF Wake, TickStart, TickEnd, ManagerPromote, ReadinessFlip, Second,
                    ResolveShared, Report, vars
<1> QED
  BY <1>2, <1>3, <1>4, <1>5, <1>6 DEF Next, Manager, GiveUp, Finish

\* The idle countdown: promotion and revival stop it, a completion finds it
\* stopped, and tick starts it at its `now`, which is at most MaxLag old.
LEMMA IdleAgesStep ==
  ASSUME IInv, IdleAges, [Next]_vars
  PROVE  IdleAges'
<1>t. TypeOK
  BY DEF IInv
<1> SUFFICES ASSUME NEW o \in Obj
             PROVE  /\ Serving(o)' => info'[o].idle = NoTime
                    /\ info'[o].idle <= info'[o].last + MaxLag
  BY DEF IdleAges
<1>n. /\ info[o].last \in Nat /\ info[o].last <= Horizon
      /\ info[o].idle \in Int /\ info[o].idle >= -1 /\ info[o].idle <= Horizon
      /\ mgrAge \in Nat /\ mgrAge <= MaxLag /\ MaxLag \in Nat /\ Horizon \in Nat
      /\ NoTime = -1
  BY <1>t, InfoNumbers DEF TypeOK, NoTime
<1>i. (Serving(o) => info[o].idle = NoTime) /\ info[o].idle <= info[o].last + MaxLag
  BY DEF IdleAges
<1>1. ASSUME NEW p \in Obj, info' = [info EXCEPT ![p].idle = NoTime],
             o # p => (Serving(o)' => Serving(o))
      PROVE  /\ Serving(o)' => info'[o].idle = NoTime
             /\ info'[o].idle <= info'[o].last + MaxLag
  <2>1. info'[o].last = info[o].last /\ info'[o].idle = IF o = p THEN NoTime ELSE info[o].idle
    BY <1>t, <1>1, InfoFields
  <2> QED
    BY <1>n, <1>i, <1>1, <2>1
<1>2. CASE Promote
  <2>1. PICK i \in 1..Len(queue) :
          /\ info' = [info EXCEPT ![sessOf[queue[i]]].idle = NoTime]
          /\ stage' = [stage EXCEPT ![queue[i]] = "inflight"]
    BY <1>2 DEF Promote
  <2>2. sessOf[queue[i]] \in Obj /\ queue[i] \in Req
    BY EntryFacts
  <2>3. o # sessOf[queue[i]] => (Serving(o)' => Serving(o))
    BY <1>t, <1>2, <2>1, <2>2 DEF TypeOK, Serving, Promote
  <2> QED
    BY <1>1, <2>1, <2>2, <2>3
<1> SUFFICES ASSUME ~Promote
             PROVE  /\ Serving(o)' => info'[o].idle = NoTime
                    /\ info'[o].idle <= info'[o].last + MaxLag
  BY <1>2
<1>v. Serving(o)' => Serving(o)
  <2>1. ASSUME NEW k \in Keys, Admit(k), Serving(o)'
        PROVE  Serving(o)
    <3>1. PICK r \in Req : stage'[r] = "inflight" /\ sessOf'[r] = o
      BY <2>1 DEF Serving
    <3>2. r # arrived + 1 /\ stage[r] = "inflight" /\ sessOf[r] = o
      BY <1>t, <2>1, <3>1 DEF Admit, TypeOK
    <3> QED
      BY <3>2 DEF Serving
  <2>2. ASSUME NEW p, ReleaseSpot(p)
        PROVE  Serving(o)' => Serving(o)
    BY <2>2 DEF ReleaseSpot, requestVars, Serving
  <2>3. Calm => (Serving(o)' => Serving(o))
    BY DEF Calm, Serving
  <2> QED
    BY <2>1, <2>2, <2>3, SpotCases DEF ManualRelease, TickSurrenders
<1>3. ASSUME NEW k \in Keys, Admit(k)
      PROVE  /\ Serving(o)' => info'[o].idle = NoTime
             /\ info'[o].idle <= info'[o].last + MaxLag
  <2>1. arrived + 1 <= MaxRequests
    BY <1>3 DEF Admit
  <2>2. \/ info'[o].idle = NoTime /\ info'[o].last = 0
        \/ info'[o].idle = info[o].idle /\ info'[o].last = info[o].last
    BY <1>t, <1>3, <2>1, AdmittedInfo DEF Admit
  <2> QED
    BY <1>n, <1>i, <1>v, <2>2
<1>4. ASSUME NEW r \in Req, stage[r] = "inflight", Release(r)
      PROVE  /\ Serving(o)' => info'[o].idle = NoTime
             /\ info'[o].idle <= info'[o].last + MaxLag
  <2>1. sessOf[r] \in Obj
    BY <1>4, RequestFacts
  <2>2. info' = [info EXCEPT ![sessOf[r]].last = 0]
    BY <1>4 DEF Release
  <2>3. /\ info'[o].idle = info[o].idle
        /\ info'[o].last = IF o = sessOf[r] THEN 0 ELSE info[o].last
    BY <1>t, <2>1, <2>2, InfoFields
  <2>4. o = sessOf[r] => info[o].idle = NoTime
    BY <1>i, <1>4 DEF Serving
  <2> QED
    BY <1>n, <1>i, <1>v, <2>3, <2>4
<1>5. CASE TickStep
  <2>1. PICK p \in tickTodo : TickSession(p)
    BY <1>5 DEF TickStep
  <2>2. p \in Obj
    BY <1>t DEF TypeOK
  <2>3. CASE ReleaseSpot(p)
    BY <1>1, <1>v, <2>2, <2>3 DEF ReleaseSpot
  <2>4. CASE info' = [info EXCEPT ![p].idle = IdleSince(p)]
    <3>1. info'[o].last = info[o].last /\ info'[o].idle = IF o = p THEN IdleSince(o) ELSE info[o].idle
      <4> DEFINE t == IdleSince(p)
      <4>1. info' = [info EXCEPT ![p].idle = t]
        BY <2>4
      <4> HIDE DEF t
      <4>2. info'[o].last = info[o].last /\ info'[o].idle = IF o = p THEN t ELSE info[o].idle
        <5>1. info \in [Obj -> Info] /\ info[o] \in Info
          BY <1>t DEF TypeOK
        <5> QED
          BY <2>2, <4>1, <5>1 DEF Info
      <4> QED
        BY <4>2 DEF t
    <3>2. Serving(o) => IdleSince(o) = NoTime
      <4>1. Serving(o) => inflight[o] > 0
        BY RunnerCounted DEF Serving
      <4> QED
        BY <4>1 DEF IdleSince, CurrentStatus
    <3>3. IdleSince(o) \in {NoTime, mgrAge, info[o].idle}
      BY DEF IdleSince
    <3>4. IdleSince(o) <= info[o].last + MaxLag
      BY <1>n, <1>i, <3>3
    <3> QED
      BY <1>i, <1>v, <3>1, <3>2, <3>4
  <2> QED
    BY <2>1, <2>3, <2>4 DEF TickSession
<1>6. CASE Second
  <2>2. \/ info'[o] = [info[o] EXCEPT !.idle = Older(@), !.last = Older(@), !.cat = Older(@)]
        \/ info'[o] = NewInfo
    BY <1>6 DEF Second
  <2>3. info[o] \in Info
    BY <1>t DEF TypeOK
  <2>4. \/ info'[o].idle = Older(info[o].idle) /\ info'[o].last = Older(info[o].last)
        \/ info'[o].idle = NoTime /\ info'[o].last = 0
    <3> DEFINE a == Older(info[o].idle)
               b == Older(info[o].last)
               c == Older(info[o].cat)
    <3>1. \/ info'[o] = [info[o] EXCEPT !.idle = a, !.last = b, !.cat = c]
          \/ info'[o] = NewInfo
      BY <2>2
    <3> HIDE DEF a, b, c
    <3>a. ASSUME info'[o] = [info[o] EXCEPT !.idle = a, !.last = b, !.cat = c]
          PROVE  info'[o].idle = a /\ info'[o].last = b
      BY <2>3, <3>a DEF Info
    <3>b. ASSUME info'[o] = NewInfo
          PROVE  info'[o].idle = NoTime /\ info'[o].last = 0
      BY <3>b DEF NewInfo
    <3>2. \/ info'[o].idle = a /\ info'[o].last = b
          \/ info'[o].idle = NoTime /\ info'[o].last = 0
      BY <3>1, <3>a, <3>b
    <3> QED
      BY <3>2 DEF a, b
  <2>5. Older(NoTime) = NoTime
    BY DEF Older
  <2>6. Older(info[o].idle) <= Older(info[o].last) + MaxLag
    <3>1. info[o].idle <= info[o].last + MaxLag
      BY <1>i
    <3> DEFINE a == info[o].idle
               b == info[o].last
    <3> HIDE DEF a, b
    <3>2. a <= b + MaxLag /\ a \in {NoTime} \cup 0..Horizon /\ b \in 0..Horizon
      BY <1>n, <3>1 DEF a, b, Age
    <3>3. Older(a) <= Older(b) + MaxLag
      BY <1>n, <3>2 DEF Older, NoTime
    <3> QED
      BY <3>3 DEF a, b
  <2> QED
    BY <1>n, <1>i, <1>v, <2>4, <2>5, <2>6
<1>7. ASSUME NEW p \in Obj, \/ ResolveShared(p) \/ \E s \in Reports : Report(p, s)
      PROVE  info'[o].idle = info[o].idle /\ info'[o].last = info[o].last
  <2>1. \/ \E k : info' = [info EXCEPT ![p].shared = k]
        \/ \E s : info' = [info EXCEPT ![p].cstat = s, ![p].cat = 0]
    BY <1>7 DEF ResolveShared, Report
  <2>3. info \in [Obj -> Info] /\ info[o] \in Info
    BY <1>t DEF TypeOK
  <2>4. ASSUME NEW k, info' = [info EXCEPT ![p].shared = k]
        PROVE  info'[o].idle = info[o].idle /\ info'[o].last = info[o].last
    BY <1>t, <2>4, InfoFields
  <2>5. ASSUME NEW s, info' = [info EXCEPT ![p].cstat = s, ![p].cat = 0]
        PROVE  info'[o].idle = info[o].idle /\ info'[o].last = info[o].last
    BY <2>3, <2>5 DEF Info
  <2> QED
    BY <2>1, <2>4, <2>5
<1> QED
  BY <1>i, <1>v, <1>1, <1>3, <1>4, <1>5, <1>6, <1>7, InfoCases

LEMMA CountdownStep ==
  ASSUME IInv, Countdown, [Next]_vars
  PROVE  Countdown'
BY TickTrackedStep, UnsharedStep, IdleAgesStep DEF Countdown

\* The HTTP path opens no WebSocket.
LEMMA HttpStep ==
  ASSUME IInv, HttpOnly, [Next]_vars
  PROVE  HttpOnly'
<1>1. stage \in [Req -> Stages]
  BY DEF IInv, TypeOK
<1>2. ASSUME NEW r, NEW s \in {"admitting", "waiting", "inflight", "done"},
             stage' = [stage EXCEPT ![r] = s]
      PROVE  HttpOnly'
  BY <1>1, <1>2 DEF HttpOnly
<1>3. Promote => HttpOnly'
  BY <1>2, PromoteFacts
<1>4. (\E k \in Keys : Admit(k)) => HttpOnly'
  BY <1>2 DEF Admit
<1>5. (\E r \in Req : Enqueue(r) \/ Release(r) \/ Abandon(r)) => HttpOnly'
  BY <1>2 DEF Enqueue, Release, Abandon
<1>6. stage' = stage => HttpOnly'
  BY DEF HttpOnly
<1> QED
  BY <1>3, <1>4, <1>5, <1>6, StepCases DEF ReleaseSpot, Quiet, requestVars

\* A self-contained session runs on no spot but its own.
LEMMA OwnSpot ==
  ASSUME IInv, Unshared, NEW o \in Obj, reqKey[o] \in Keys, SelfContained(reqKey[o])
  PROVE  SpotKey(o) # NoKey <=> reqKey[o] \in spots
<1>1. info[o].shared = NoKey
  BY DEF Unshared, SelfContained
<1>2. NoKey \notin spots
  BY KeysAssumption DEF IInv, TypeOK
<1> QED
  BY <1>1, <1>2 DEF SpotKey

\* A running, self-contained, tracked session keeps its spot: tick sees its
\* inflight, an operator cannot reach it, and a promotion gives it a spot.
LEMMA RunnerStep ==
  ASSUME IInv, SessionInv, [Next]_vars
  PROVE  RunnerKeepsSpot'
<1>t. /\ TypeOK /\ stage \in [Req -> Stages] /\ sessions \in [Keys -> Obj \cup {NoObj}]
      /\ reqKey \in [Req -> Keys \cup {NoKey}] /\ sessOf \in [Req -> Obj \cup {NoObj}]
  BY DEF IInv, TypeOK
<1> SUFFICES ASSUME NEW r \in Req, stage'[r] = "inflight", SelfContained(reqKey'[r]),
                    sessions'[reqKey'[r]] = sessOf'[r]
             PROVE  reqKey'[r] \in spots'
  BY DEF RunnerKeepsSpot, InStage, SelfContained
<1>1. ASSUME stage[r] = "inflight"
      PROVE  /\ reqKey[r] \in Keys /\ sessOf[r] \in Obj /\ r \in 1..arrived
             /\ sessOf[r] # NoObj
             /\ SelfContained(reqKey[r]) /\ sessions[reqKey[r]] = sessOf[r] => reqKey[r] \in spots
  BY <1>1, RequestFacts DEF SessionInv, RunnerKeepsSpot, InStage, Obj, Req, NoObj
<1>2. CASE Promote
  <2>1. PICK q \in Req, o \in Obj :
          /\ o = sessOf[q] /\ reqKey[o] \in Keys /\ stage[q] = "waiting"
          /\ stage' = [stage EXCEPT ![q] = "inflight"]
          /\ \/ SpotKey(o) = NoKey /\ spots' = spots \cup {reqKey[o]}
             \/ SpotKey(o) # NoKey /\ spots' = spots
    BY <1>2, PromoteFacts
  <2>2. UNCHANGED <<sessions, reqKey, sessOf>> /\ spots \subseteq spots'
    BY <1>2, <2>1 DEF Promote
  <2>3. CASE r = q
    <3>1. reqKey[o] = reqKey[r]
      BY <2>1, <2>3, RequestFacts
    <3>2. SpotKey(o) # NoKey <=> reqKey[o] \in spots
      BY <2>1, <2>2, <3>1, OwnSpot DEF SessionInv, Countdown
    <3> QED
      BY <2>1, <2>2, <3>1, <3>2
  <2>4. CASE r # q
    <3>1. stage[r] = "inflight"
      BY <1>t, <2>1, <2>4
    <3> QED
      BY <1>1, <2>2, <3>1
  <2> QED
    BY <2>3, <2>4
<1>3. ASSUME NEW k \in Keys, Admit(k)
      PROVE  reqKey'[r] \in spots'
  <2> DEFINE n == arrived + 1
             o == IF sessions[k] = NoObj THEN n ELSE sessions[k]
  <2>1. /\ n \in Req /\ arrived \in Nat
        /\ reqKey' = [reqKey EXCEPT ![n] = k] /\ sessOf' = [sessOf EXCEPT ![n] = o]
        /\ stage' = [stage EXCEPT ![n] = "admitting"] /\ sessions' = [sessions EXCEPT ![k] = o]
        /\ spots' = spots
    BY <1>t, <1>3, ArrivedFacts DEF Admit, Req
  <2>2. r # n /\ stage[r] = "inflight" /\ reqKey'[r] = reqKey[r] /\ sessOf'[r] = sessOf[r]
    BY <1>t, <2>1
  <2>3. sessOf[r] # n
    BY <2>1, <2>2, RequestFacts
  <2>4. sessions[reqKey[r]] = sessOf[r]
    BY <1>t, <1>1, <2>1, <2>2, <2>3
  <2> QED
    BY <1>1, <2>1, <2>2, <2>4
<1>4. ASSUME NEW k \in ManualKeys, ManualRelease(k)
      PROVE  reqKey'[r] \in spots'
  <2>1. sessions[k] \in Obj /\ reqKey[sessions[k]] = k /\ k \in Keys
    BY <1>t, <1>4, KeysAssumption DEF ManualRelease, IInv, Wiring
  <2>2. /\ spots' = spots \ {k} /\ UNCHANGED <<stage, reqKey, sessOf>>
        /\ \/ sessions' = sessions
           \/ sessions' = [sessions EXCEPT ![k] = NoObj]
    BY <1>4, <2>1 DEF ManualRelease, ReleaseSpot, requestVars
  <2>3. reqKey[r] # k
    BY <2>2 DEF SelfContained
  <2> QED
    BY <1>t, <1>1, <2>1, <2>2, <2>3
<1>5. ASSUME NEW o \in Obj, TickSurrenders(o)
      PROVE  reqKey'[r] \in spots'
  <2>1. sessions[reqKey[o]] = o /\ inflight[o] = 0
    BY <1>5 DEF TickSurrenders, SessionInv, Countdown, TickTracked, DeadlinePassed
  <2>2. /\ spots' = spots \ {reqKey[o]} /\ UNCHANGED <<stage, reqKey, sessOf>>
        /\ \/ sessions' = sessions
           \/ sessions' = [sessions EXCEPT ![reqKey[o]] = NoObj]
    BY <1>5 DEF TickSurrenders, ReleaseSpot, requestVars
  <2>3. sessOf[r] # o
    BY <2>1, <2>2, RunnerCounted
  <2>4. reqKey[r] # reqKey[o]
    BY <1>t, <1>1, <2>1, <2>2, <2>3
  <2> QED
    BY <1>t, <1>1, <2>2, <2>4
<1>6. CASE Calm
  BY <1>t, <1>1, <1>6 DEF Calm
<1> QED
  BY <1>2, <1>3, <1>4, <1>5, <1>6, SpotCases

\* max_inflight_per_session: a session that has a spot is promoted below its
\* cap only, and one that has none has nothing in flight.
LEMMA CapStep ==
  ASSUME IInv, SessionInv, [Next]_vars
  PROVE  SessionCap'
<1>t. /\ TypeOK /\ stage \in [Req -> Stages] /\ sessions \in [Keys -> Obj \cup {NoObj}]
      /\ inflight \in [Obj -> Nat] /\ Cap \in Int
  BY LimitsAssumption DEF IInv, TypeOK
<1> SUFFICES ASSUME NEW k \in Keys, SelfContained(k), sessions'[k] # NoObj, Cap >= 0
             PROVE  inflight'[sessions'[k]] <= Longest(1, Cap)
  BY DEF SessionCap, SelfContained
<1>l. Longest(1, Cap) \in Nat /\ Longest(1, Cap) >= 1 /\ Longest(1, Cap) >= Cap
  BY <1>t DEF Longest
<1>1. sessions[k] # NoObj => /\ inflight[sessions[k]] <= Longest(1, Cap)
                             /\ sessions[k] \in Obj /\ reqKey[sessions[k]] = k
  BY <1>t DEF SessionInv, SessionCap, IInv, Wiring
<1>2. CASE Promote
  <2>1. PICK q \in Req, o \in Obj :
          /\ o = sessOf[q] /\ reqKey[o] \in Keys /\ Eligible(q)
          /\ inflight' = [inflight EXCEPT ![o] = inflight[o] + 1]
    BY <1>2, PromoteFacts
  <2>2. sessions' = sessions
    BY <1>2 DEF Promote
  <2>3. CASE sessions[k] = o
    <3>1. SpotKey(o) # NoKey <=> k \in spots
      BY <1>1, <2>2, <2>3, OwnSpot DEF SessionInv, Countdown
    <3>2. CASE k \in spots
      <4>1. inflight[o] < Cap
        BY <1>t, <2>1, <3>1, <3>2 DEF Eligible
      <4> QED
        BY <1>t, <1>l, <2>1, <2>2, <2>3, <4>1
    <3>3. CASE k \notin spots
      <4>1. inflight[o] = 0
        <5> SUFFICES ASSUME inflight[o] # 0
                     PROVE  FALSE
          OBVIOUS
        <5>1. PICK r \in Req : stage[r] = "inflight" /\ sessOf[r] = o
          BY CountedRunner DEF SessionInv, HttpOnly
        <5>2. reqKey[r] = k
          BY <1>1, <2>2, <2>3, <5>1, RequestFacts
        <5> QED
          BY <2>3, <3>3, <5>1, <5>2 DEF SessionInv, RunnerKeepsSpot, InStage
      <4> QED
        BY <1>t, <1>l, <2>1, <2>2, <2>3, <4>1
    <3> QED
      BY <3>2, <3>3
  <2>4. CASE sessions[k] # o
    BY <1>t, <1>1, <2>1, <2>2, <2>4
  <2> QED
    BY <2>3, <2>4
<1>3. ASSUME NEW a \in Keys, Admit(a)
      PROVE  inflight'[sessions'[k]] <= Longest(1, Cap)
  <2> DEFINE n == arrived + 1
  <2>1. /\ n \in Obj /\ arrived \in Nat /\ inflight' = inflight
        /\ sessions' = [sessions EXCEPT ![a] = IF sessions[a] = NoObj THEN n ELSE sessions[a]]
    BY <1>t, <1>3, ArrivedFacts DEF Admit, Req, Obj, counterVars
  <2>2. inflight[n] = 0
    <3> SUFFICES ASSUME inflight[n] # 0
                 PROVE  FALSE
      OBVIOUS
    <3>1. PICK r \in Req : stage[r] = "inflight" /\ sessOf[r] = n
      BY <2>1, CountedRunner DEF SessionInv, HttpOnly
    <3> QED
      BY <2>1, <3>1, RequestFacts
  <2> QED
    BY <1>t, <1>l, <1>1, <2>1, <2>2
<1>4. ASSUME NEW o \in Obj, ReleaseSpot(o)
      PROVE  inflight'[sessions'[k]] <= Longest(1, Cap)
  <2>1. /\ inflight' = inflight
        /\ \/ sessions' = sessions
           \/ sessions' = [sessions EXCEPT ![reqKey[o]] = NoObj]
    BY <1>4 DEF ReleaseSpot
  <2> QED
    BY <1>t, <1>1, <2>1
<1>5. ASSUME NEW a \in ManualKeys, ManualRelease(a)
      PROVE  \E o \in Obj : ReleaseSpot(o)
  BY <1>t, <1>5, KeysAssumption DEF ManualRelease
<1>6. CASE Calm
  <2>1. sessions'[k] = sessions[k]
    BY <1>6 DEF Calm
  <2>2. inflight'[sessions[k]] <= inflight[sessions[k]]
    BY <1>1, <1>6, <2>1 DEF Calm
  <2>3. inflight[sessions[k]] \in Nat /\ inflight'[sessions[k]] \in Nat
    BY <1>t, <1>1, <2>1, TypeStep DEF TypeOK
  <2> QED
    BY <1>l, <1>1, <2>1, <2>2, <2>3
<1> QED
  BY <1>2, <1>3, <1>4, <1>5, <1>6, SpotCases DEF TickSurrenders

\* The step behind CooldownHonoured.
LEMMA CooldownStep ==
  ASSUME IInv, Countdown, [Next]_vars, NEW k \in Known,
         mgr = "tick", k \in spots, k \notin spots'
  PROVE  LET f == info[sessions[k]] IN
         \/ f.last >= Expiry - MaxLag
         \/ f.cstat = "waiting"
         \/ Immediate /\ f.cstat = "idle" /\ f.cat < f.last
<1>1. PICK o \in Obj : TickSurrenders(o)
  <2>1. Promote => spots \subseteq spots'
    BY DEF Promote
  <2>2. ~(\E a \in Keys : Admit(a)) /\ ~(\E a \in ManualKeys : ManualRelease(a))
    BY DEF Admit, ManualRelease, LoopFree
  <2> QED
    BY <2>1, <2>2, SpotCases DEF Calm
<1>2. k = reqKey[o] /\ sessions[k] = o
  BY <1>1 DEF TickSurrenders, ReleaseSpot, Countdown, TickTracked
<1>3. /\ inflight[o] = 0 /\ IdleSince(o) # NoTime
      /\ IdleSince(o) - mgrAge >= (IF ReleasesAtOnce(o) THEN 0 ELSE Expiry)
  BY <1>1, <1>2 DEF TickSurrenders, DeadlinePassed
<1>4. CASE ReleasesAtOnce(o)
  <2>1. CurrentStatus(o) = "waiting" => info[o].cstat = "waiting"
    BY <1>2, <1>3 DEF CurrentStatus, IInv, TypeOK
  <2> QED
    BY <1>2, <1>4, <2>1 DEF ReleasesAtOnce
<1>5. CASE ~ReleasesAtOnce(o)
  <2>1. /\ info[o].last \in Nat /\ info[o].idle \in Int
        /\ mgrAge \in Nat /\ MaxLag \in Nat /\ Expiry \in Nat
    BY InfoNumbers, TimesAssumption DEF IInv
  <2>2. info[o].idle <= info[o].last + MaxLag
    BY DEF Countdown, IdleAges
  <2>3. IdleSince(o) = mgrAge \/ IdleSince(o) = info[o].idle
    BY <1>3 DEF IdleSince
  <2>4. IdleSince(o) - mgrAge >= Expiry
    BY <1>3, <1>5
  <2>5. info[o].last >= Expiry - MaxLag
    BY <2>1, <2>2, <2>3, <2>4
  <2> QED
    BY <1>2, <2>5
<1> QED
  BY <1>4, <1>5

-----------------------------------------------------------------------------
(* The theorems *)

\* A freshly constructed endpoint has no session.
LEMMA InitSession == Init => SessionInv
<1> SUFFICES ASSUME Init PROVE SessionInv
  OBVIOUS
<1>1. TickTracked
  BY DEF Init, TickTracked
<1>2. Unshared
  BY DEF Init, Unshared, NewInfo
<1>3. IdleAges
  BY TimesAssumption DEF Init, IdleAges, Serving, NewInfo, NoTime
<1>4. RunnerKeepsSpot
  BY DEF Init, RunnerKeepsSpot, InStage
<1>5. SessionCap
  BY DEF Init, SessionCap
<1>6. HttpOnly
  BY DEF Init, HttpOnly
<1> QED
  BY <1>1, <1>2, <1>3, <1>4, <1>5, <1>6 DEF SessionInv, Countdown

\* The invariant holds in every reachable state.
THEOREM SessionInvariance == Spec => []SessionInv
<1>1. IInv /\ SessionInv /\ [Next]_vars => SessionInv'
  BY CountdownStep, HttpStep, RunnerStep, CapStep DEF SessionInv
<1> QED
  BY <1>1, InitSession, Invariance, PTL DEF Spec

\* _release_deadline: a session that shares no other's spot and is not
\* released by hand never loses its spot while one of its requests runs.
THEOREM RunnersKeepSpots == Spec => []RunnerKeepsSpot
<1>1. SessionInv => RunnerKeepsSpot
  BY DEF SessionInv
<1> QED
  BY <1>1, SessionInvariance, PTL

\* max_inflight_per_session holds for every such session, although a spot can
\* be surrendered and taken again while its requests wait.
THEOREM SessionsWithinCap == Spec => []SessionCap
<1>1. SessionInv => SessionCap
  BY DEF SessionInv
<1> QED
  BY <1>1, SessionInvariance, PTL

\* _try_promote takes the first eligible entry, and two entries of one
\* session are eligible together: a session's requests start in the order in
\* which they were enqueued.
THEOREM SessionsInOrder == Spec => SessionOrder
<1> DEFINE Ordered ==
      \A j \in 1..Len(queue) : stage'[queue[j]] = "inflight" =>
        \A i \in 1..(j-1) : sessOf[queue[i]] = sessOf[queue[j]] => stage'[queue[i]] = "inflight"
<1>1. IInv /\ [Next]_vars => Ordered
  <2> SUFFICES ASSUME IInv, [Next]_vars, NEW j \in 1..Len(queue), stage'[queue[j]] = "inflight",
                      NEW i \in 1..(j-1), sessOf[queue[i]] = sessOf[queue[j]]
               PROVE  FALSE
    OBVIOUS
  <2>1. /\ Len(queue) \in Nat /\ i \in 1..Len(queue)
        /\ queue[j] \in Req /\ stage[queue[j]] = "waiting" /\ stage \in [Req -> Stages]
    BY EntryFacts DEF IInv, TypeOK
  <2>2. CASE Promote
    <3>1. PICK n \in 1..Len(queue) :
            PromotedAt(n) /\ stage' = [stage EXCEPT ![queue[n]] = "inflight"]
      BY <2>2 DEF Promote
    <3>2. n = j
      BY <2>1, <3>1, EntryFacts DEF IInv, SlotAccounting
    <3>3. Eligible(queue[j]) /\ ~Eligible(queue[i])
      BY <3>1, <3>2 DEF PromotedAt
    <3> QED
      BY <3>3 DEF Eligible
  <2>3. ASSUME NEW k \in Keys, Admit(k)
        PROVE  FALSE
    BY <2>1, <2>3 DEF Admit
  <2>4. CASE Calm
    BY <2>1, <2>4 DEF Calm
  <2>5. CASE stage' = stage
    BY <2>1, <2>5
  <2> QED
    BY <2>2, <2>3, <2>4, <2>5, SpotCases DEF ManualRelease, TickSurrenders, ReleaseSpot, requestVars
<1> QED
  BY <1>1, Invariance, PTL DEF Spec, SessionOrder

\* _release_deadline: tick takes a known client's spot only after
\* session_expiry since its last request (less one pass's lag), or on a report
\* that releases at once; no order of polls, revivals and completions makes
\* the countdown of an earlier idle spell count.
THEOREM CooldownsHonoured == Spec => CooldownHonoured
<1> DEFINE Honoured ==
      \A k \in Known : (mgr = "tick" /\ k \in spots /\ k \notin spots') =>
        LET f == info[sessions[k]] IN
        \/ f.last >= Expiry - MaxLag
        \/ f.cstat = "waiting"
        \/ Immediate /\ f.cstat = "idle" /\ f.cat < f.last
<1>1. IInv /\ SessionInv /\ [Next]_vars => Honoured
  BY CooldownStep DEF SessionInv
<1> QED
  BY <1>1, Invariance, SessionInvariance, PTL DEF Spec, CooldownHonoured

-----------------------------------------------------------------------------
(* No wake-up is lost *)

\* Request r still belongs to the same Session, with the same key and the same
\* shared spot: all that _eligible reads of the two but the session's count.
SameFor(r) ==
  /\ sessOf'[r] = sessOf[r] /\ reqKey'[sessOf[r]] = reqKey[sessOf[r]]
  /\ info'[sessOf[r]].shared = info[sessOf[r]].shared

\* _eligible depends on the spots, the counts, and the entry's own session only.
LEMMA EligibleKept ==
  ASSUME NEW r \in Req, UNCHANGED <<spots, inflightTotal, inflight>>, SameFor(r), Eligible(r)'
  PROVE  Eligible(r)
BY DEF SameFor, Eligible, SpotKey

\* So a step that changes neither, and adds no entry, lets nobody run.
LEMMA NobodyNew ==
  ASSUME UNCHANGED <<ready, spots, inflightTotal, inflight>>, queue \in Seq(Req),
         \A i \in 1..Len(queue') : \E j \in 1..Len(queue) : queue'[i] = queue[j] /\ SameFor(queue[j]),
         CanPromote'
  PROVE  CanPromote
<1>1. ready /\ \E i \in 1..Len(queue') : Eligible(queue[i])'
  BY DEF CanPromote
<1>2. PICK i \in 1..Len(queue') : Eligible(queue[i])'
  BY <1>1
<1>3. PICK j \in 1..Len(queue) : queue'[i] = queue[j] /\ SameFor(queue[j])
  OBVIOUS
<1>4. PICK r \in Req : r = queue[j]
  OBVIOUS
<1>5. Eligible(r)'
  BY <1>2, <1>3, <1>4 DEF Eligible
<1>6. Eligible(queue[j])
  BY <1>3, <1>4, <1>5, EligibleKept
<1> QED
  BY <1>1, <1>6 DEF CanPromote

\* The same for a step that leaves requests and entries as they are.
LEMMA NobodyNewShared ==
  ASSUME IInv, UNCHANGED <<ready, queue, spots, inflightTotal, inflight, sessOf, reqKey>>,
         \A i \in 1..Len(queue) : info'[sessOf[queue[i]]].shared = info[sessOf[queue[i]]].shared,
         CanPromote'
  PROVE  CanPromote
<1>1. queue \in Seq(Req)
  BY DEF IInv, TypeOK
<1>2. \A i \in 1..Len(queue) : SameFor(queue[i])
  BY DEF SameFor
<1> QED
  BY <1>1, <1>2, NobodyNew

\* Admitting a request or a connection changes nothing of those that wait.
LEMMA AdmissionSame ==
  ASSUME IInv, NEW k \in Keys, NEW r \in Req, r = arrived + 1, NEW o \in Obj,
         reqKey' = [reqKey EXCEPT ![r] = k], sessOf' = [sessOf EXCEPT ![r] = o],
         info' = IF o = r THEN [info EXCEPT ![o] = NewInfo] ELSE Revived(o)
  PROVE  \A i \in 1..Len(queue) : SameFor(queue[i])
<1>1. TypeOK /\ info \in [Obj -> Info] /\ arrived \in Nat
  BY ArrivedFacts DEF IInv, TypeOK
<1> SUFFICES ASSUME NEW i \in 1..Len(queue) PROVE SameFor(queue[i])
  OBVIOUS
<1>2. /\ queue[i] \in Req /\ stage[queue[i]] = "waiting" /\ sessOf[queue[i]] \in Obj
  BY EntryFacts
<1>3. queue[i] \in 1..arrived /\ sessOf[queue[i]] \in 1..arrived
  BY <1>2, RequestFacts
<1>4. queue[i] # r /\ sessOf[queue[i]] # r
  BY <1>1, <1>3
<1>5. info'[sessOf[queue[i]]].shared = info[sessOf[queue[i]]].shared
  <2>1. CASE o = r
    BY <1>1, <1>2, <1>4, <2>1
  <2>2. CASE o # r
    BY <1>1, <1>2, <2>2, InfoFields
  <2> QED
    BY <2>1, <2>2
<1>6. sessOf'[queue[i]] = sessOf[queue[i]] /\ reqKey'[sessOf[queue[i]]] = reqKey[sessOf[queue[i]]]
  BY <1>1, <1>2, <1>4 DEF TypeOK, Obj
<1> QED
  BY <1>5, <1>6 DEF SameFor

\* A step leaves an entry that may run waiting only if it already did, if the
\* endpoint has just become ready, or if the entry's session has just been
\* given a spot to share.
LEMMA StalledStep ==
  ASSUME IInv, [Next]_vars, Stalled'
  PROVE  Stalled \/ (~ready /\ ready') \/ SharesAnew
<1> USE DEF queueVars, counterVars, requestVars, managerVars
<1>t. TypeOK /\ queue \in Seq(Req) /\ info \in [Obj -> Info]
  BY DEF IInv, TypeOK
<1>e. \A i \in 1..Len(queue) : /\ queue[i] \in Req /\ stage[queue[i]] = "waiting"
                               /\ queue[i] <= arrived /\ sessOf[queue[i]] \in Obj
  BY EntryFacts
<1>p. ~promoting' /\ CanPromote'
  BY DEF Stalled
\* Handlers that end in _try_promote.
<1>1. ASSUME promoting' = CanPromote' PROVE FALSE
  BY <1>1, <1>p, Zenon
<1>2. ~Promote
  BY <1>1 DEF Promote
<1>3. ASSUME NEW r \in Req, Enqueue(r) PROVE FALSE
  BY <1>1, <1>3 DEF Enqueue
<1>4. ASSUME NEW r \in Req, Release(r) PROVE FALSE
  BY <1>1, <1>4 DEF Release
<1>5. ASSUME NEW o, ReleaseSpot(o) PROVE FALSE
  BY <1>1, <1>5 DEF ReleaseSpot
<1>6. CASE ManagerPromote
  <2>1. UNCHANGED <<ready, queue, spots, inflightTotal, inflight, sessOf, reqKey, info>>
        /\ promoting' = CanPromote
    BY <1>6 DEF ManagerPromote
  <2>2. CanPromote
    BY <1>p, <2>1, NobodyNewShared
  <2> QED
    BY <1>p, <2>1, <2>2, Zenon
\* All the others.
<1>7. ASSUME ~promoting, CanPromote PROVE Stalled
  BY <1>7 DEF Stalled
<1>8. ASSUME NEW k \in Keys, Admit(k) PROVE Stalled
  <2> DEFINE r == arrived + 1
             o == IF sessions[k] = NoObj THEN r ELSE sessions[k]
  <2>1. /\ ~promoting
        /\ UNCHANGED <<ready, queue, spots, inflightTotal, inflight>>
        /\ r \in Req /\ arrived \in Nat
        /\ reqKey' = [reqKey EXCEPT ![r] = k] /\ sessOf' = [sessOf EXCEPT ![r] = o]
        /\ info' = IF o = r THEN [info EXCEPT ![o] = NewInfo] ELSE Revived(o)
    BY <1>t, <1>8, ArrivedFacts DEF Admit, LoopFree, Req
  <2>2. o \in Obj
    BY <1>t, <2>1 DEF TypeOK, Obj
  <2> HIDE DEF r, o
  <2>3. \A i \in 1..Len(queue) : SameFor(queue[i])
    BY <2>1, <2>2, AdmissionSame DEF r
  <2>4. CanPromote
    BY <1>t, <1>p, <2>1, <2>3, NobodyNew
  <2> QED
    BY <1>7, <2>1, <2>4
<1>9. ASSUME NEW r \in Req, Abandon(r), ~promoting PROVE Stalled
  <2>1. PICK n \in 1..Len(queue) : queue' = RemoveAt(queue, n)
    BY <1>9 DEF Abandon
  <2>2. UNCHANGED <<ready, spots, inflightTotal, inflight, sessOf, reqKey, info>>
    BY <1>9 DEF Abandon
  <2>3. /\ Len(queue') = Len(queue) - 1 /\ Len(queue) \in Nat
        /\ \A j \in 1..(Len(queue) - 1) : queue'[j] = IF j < n THEN queue[j] ELSE queue[j + 1]
    BY <1>t, <2>1, RemoveAtFacts
  <2>4. ASSUME NEW i \in 1..Len(queue')
        PROVE  \E j \in 1..Len(queue) : queue'[i] = queue[j] /\ SameFor(queue[j])
    <3>1. \A j : SameFor(queue[j])
      BY <2>2 DEF SameFor
    <3>2. i \in 1..Len(queue) /\ i + 1 \in 1..Len(queue)
      BY <2>3
    <3> QED
      BY <2>3, <3>1, <3>2
  <2>5. CanPromote
    BY <1>t, <1>p, <2>2, <2>4, NobodyNew
  <2> QED
    BY <1>7, <1>9, <2>5
<1>10. ASSUME NEW r \in Req, GiveUp(r) \/ Finish(r) PROVE Stalled
  BY <1>4, <1>9, <1>10 DEF GiveUp, Finish, LoopFree
<1>11. ASSUME NEW k \in ManualKeys, ManualRelease(k) PROVE FALSE
  BY <1>5, <1>11 DEF ManualRelease
<1>12. CASE TickStep
  <2>1. PICK o \in tickTodo : TickSession(o)
    BY <1>12 DEF TickStep
  <2>2. o \in Obj /\ ~promoting
    BY <1>t, <1>12 DEF TickStep, TypeOK
  <2>3. /\ info' = [info EXCEPT ![o].idle = IdleSince(o)]
        /\ UNCHANGED <<ready, queue, spots, inflightTotal, counterVars, requestVars>>
    BY <1>5, <2>1 DEF TickSession
  <2>4. \A i \in 1..Len(queue) : info'[sessOf[queue[i]]].shared = info[sessOf[queue[i]]].shared
    BY <1>t, <1>e, <2>2, <2>3, InfoFields
  <2>5. CanPromote
    BY <1>p, <2>3, <2>4, NobodyNewShared
  <2> QED
    BY <1>7, <2>2, <2>5
<1>13. ASSUME NEW o \in Obj, ResolveShared(o) PROVE Stalled \/ SharesAnew
  <2>1. CASE \E i \in 1..Len(queue) : info'[sessOf[queue[i]]].shared # info[sessOf[queue[i]]].shared
    BY <1>13, <2>1 DEF SharesAnew, ResolveShared
  <2>2. CASE \A i \in 1..Len(queue) : info'[sessOf[queue[i]]].shared = info[sessOf[queue[i]]].shared
    <3>1. CanPromote
      BY <1>13, <1>p, <2>2, NobodyNewShared DEF ResolveShared
    <3> QED
      BY <1>7, <1>13, <3>1 DEF ResolveShared, LoopFree
  <2> QED
    BY <2>1, <2>2
<1>14. ASSUME NEW o \in Obj, NEW s \in Reports, Report(o, s) PROVE Stalled
  <2>1. info' = [info EXCEPT ![o].cstat = s, ![o].cat = 0]
    BY <1>14 DEF Report
  <2>2. \A i \in 1..Len(queue) : info'[sessOf[queue[i]]].shared = info[sessOf[queue[i]]].shared
    BY <1>t, <1>e, <2>1, InfoFields
  <2>3. CanPromote
    BY <1>14, <1>p, <2>2, NobodyNewShared DEF Report
  <2> QED
    BY <1>7, <1>14, <2>3 DEF Report, LoopFree
<1>15. CASE Wake \/ TickStart \/ TickEnd
  <2>1. /\ UNCHANGED <<ready, queue, spots, inflightTotal, inflight, sessOf, reqKey, info>>
        /\ ~promoting
    BY <1>15 DEF Wake, TickStart, TickEnd, LoopFree
  <2>2. CanPromote
    BY <1>p, <2>1, NobodyNewShared
  <2> QED
    BY <1>7, <2>1, <2>2
<1>16. CASE ReadinessFlip
  BY <1>16, <1>p DEF ReadinessFlip, CanPromote
<1>17. CASE Second
  <2>1. ASSUME NEW i \in 1..Len(queue)
        PROVE  info'[sessOf[queue[i]]].shared = info[sessOf[queue[i]]].shared
    <3> DEFINE o == sessOf[queue[i]]
    <3>1. o \in Obj /\ Live(o) /\ info[o] \in Info
      BY <1>t, <1>e DEF Live
    <3> DEFINE a == Older(info[o].idle)
               b == Older(info[o].last)
               c == Older(info[o].cat)
    <3>2. info'[o] = [info[o] EXCEPT !.idle = a, !.last = b, !.cat = c]
      BY <1>17, <3>1 DEF Second
    <3> HIDE DEF a, b, c, o
    <3>3. info'[o].shared = info[o].shared
      BY <3>1, <3>2 DEF Info
    <3> QED
      BY <3>3 DEF o
  <2>2. CanPromote
    BY <1>17, <1>p, <2>1, NobodyNewShared DEF Second
  <2> QED
    BY <1>7, <1>17, <2>2 DEF Second, LoopFree
<1>18. CASE UNCHANGED vars
  <2>1. UNCHANGED <<ready, queue, spots, inflightTotal, inflight, sessOf, reqKey, info, promoting>>
    BY <1>18 DEF vars
  <2>2. CanPromote
    BY <1>p, <2>1, NobodyNewShared
  <2> QED
    BY <1>7, <1>p, <2>1, <2>2, Zenon
<1> QED
  BY <1>2, <1>3, <1>6, <1>8, <1>10, <1>11, <1>12, <1>13, <1>14, <1>15, <1>16, <1>17, <1>18
     DEF Next, Manager

\* Whichever way a pass of the manager ends, nothing that may run is left.
LEMMA PassEnds ==
  ASSUME IInv, [Next]_vars, mgr # "sleep", mgr' = "sleep"
  PROVE  ~Stalled'
<1> USE DEF queueVars, counterVars, requestVars, managerVars
<1>1. CASE ManagerPromote
  <2>1. UNCHANGED <<ready, queue, spots, inflightTotal, inflight, sessOf, reqKey, info>>
        /\ promoting' = CanPromote
    BY <1>1 DEF ManagerPromote
  <2>2. CanPromote' => CanPromote
    BY <2>1, NobodyNewShared
  <2>3. CanPromote' => promoting'
    BY <2>1, <2>2, Zenon
  <2> QED
    BY <2>3 DEF Stalled
<1>2. CASE TickEnd
  <2>1. queue = <<>> /\ UNCHANGED queue
    BY <1>2 DEF TickEnd
  <2>2. Len(queue') = 0
    BY <2>1
  <2> QED
    BY <2>2 DEF Stalled, CanPromote
<1>3. CASE Promote \/ TickStep \/ Wake \/ TickStart \/ ReadinessFlip \/ Second \/ UNCHANGED vars
  BY <1>3 DEF Promote, TickStep, Wake, TickStart, ReadinessFlip, Second, vars
<1>4. ASSUME NEW r \in Req, Enqueue(r) \/ GiveUp(r) \/ Finish(r) PROVE FALSE
  BY <1>4 DEF Enqueue, GiveUp, Finish, Release, Abandon
<1>5. ASSUME NEW k \in Keys, Admit(k) \/ ManualRelease(k) PROVE FALSE
  BY <1>5 DEF Admit, ManualRelease
<1>6. ASSUME NEW o \in Obj, ResolveShared(o) \/ \E s \in Reports : Report(o, s) PROVE FALSE
  BY <1>6 DEF ResolveShared, Report
<1> QED
  BY <1>1, <1>2, <1>3, <1>4, <1>5, <1>6, KeysAssumption DEF Next, Manager

\* What NoLostWakeup says of one step.
Woken ==
  /\ Stalled' => Stalled \/ (~ready /\ ready') \/ SharesAnew \/ ClosesWithoutSpot
  /\ mgr # "sleep" /\ mgr' = "sleep" => ~Stalled'

\* release, _release_spot, enqueue and the promotion loop itself leave nobody
\* waiting who may run, so that only a probe or a shared spot can; and each
\* pass of the manager clears up after those.
THEOREM NoWakeupLost == Spec => NoLostWakeup
<1>1. IInv /\ [Next]_vars => Woken
  BY StalledStep, PassEnds DEF Woken
<1> QED
  BY <1>1, Invariance, PTL DEF Spec, NoLostWakeup, Woken

=============================================================================
