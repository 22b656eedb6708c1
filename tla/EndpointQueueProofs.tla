------------------------ MODULE EndpointQueueProofs ------------------------
(***************************************************************************)
(* Safety of EndpointQueue for every number of requests, every set of      *)
(* keys, every parent chain and every setting of the limits and windows.   *)
(***************************************************************************)
EXTENDS EndpointQueue, FiniteSetTheorems, SequenceTheorems, TLAPS

-----------------------------------------------------------------------------
(* Lemmas about the helpers *)

\* deque.remove of the entry at i: what is left, and in which order.
LEMMA RemoveAtFacts ==
  ASSUME NEW S, NEW q \in Seq(S), NEW i \in 1..Len(q)
  PROVE  /\ RemoveAt(q, i) \in Seq(S)
         /\ Len(RemoveAt(q, i)) = Len(q) - 1
         /\ \A j \in 1..(Len(q) - 1) :
              RemoveAt(q, i)[j] = IF j < i THEN q[j] ELSE q[j + 1]
<1> DEFINE front == SubSeq(q, 1, i - 1)
           back  == SubSeq(q, i + 1, Len(q))
<1>1. Len(q) \in Nat /\ \A j \in 1..Len(q) : q[j] \in S
  OBVIOUS
<1>2. /\ front \in Seq(S) /\ Len(front) = i - 1
      /\ \A j \in 1..(i - 1) : front[j] = q[j]
  BY <1>1, SubSeqProperties
<1>3. /\ back \in Seq(S) /\ Len(back) = Len(q) - i
      /\ \A j \in 1..(Len(q) - i) : back[j] = q[i + j]
  BY <1>1, SubSeqProperties
<1>4. /\ front \o back \in Seq(S)
      /\ Len(front \o back) = Len(front) + Len(back)
      /\ \A j \in 1..(Len(front) + Len(back)) :
           (front \o back)[j] = IF j <= Len(front) THEN front[j] ELSE back[j - Len(front)]
  BY <1>2, <1>3, ConcatProperties
<1>5. RemoveAt(q, i) = front \o back
  BY DEF RemoveAt
<1> HIDE DEF front, back
<1>6. Len(front) + Len(back) = Len(q) - 1
  BY <1>1, <1>2, <1>3
<1>7. ASSUME NEW j \in 1..(Len(q) - 1)
      PROVE  RemoveAt(q, i)[j] = IF j < i THEN q[j] ELSE q[j + 1]
  <2>1. CASE j < i
    BY <1>1, <1>2, <1>4, <1>5, <1>6, <2>1
  <2>2. CASE j >= i
    <3>1. j - (i - 1) \in 1..(Len(q) - i) /\ i + (j - (i - 1)) = j + 1
      BY <1>1, <2>2
    <3>2. back[j - (i - 1)] = q[j + 1]
      BY <1>3, <3>1
    <3>3. (front \o back)[j] = back[j - (i - 1)]
      BY <1>1, <1>2, <1>4, <1>6, <2>2
    <3> QED
      BY <1>1, <1>5, <2>2, <3>2, <3>3
  <2> QED
    BY <2>1, <2>2, <1>1
<1> QED
  BY <1>4, <1>5, <1>6, <1>7

\* The stage sets are finite, so they can be counted.
LEMMA StagesFinite ==
  ASSUME TypeOK, NEW s, NEW o
  PROVE  /\ IsFiniteSet(InStage(s)) /\ Cardinality(InStage(s)) \in Nat
         /\ IsFiniteSet(InStageOf(s, o)) /\ Cardinality(InStageOf(s, o)) \in Nat
<1>1. IsFiniteSet(Req)
  BY FS_Interval, LimitsAssumption DEF Req
<1>2. InStage(s) \in SUBSET Req /\ InStageOf(s, o) \in SUBSET Req
  BY DEF InStage, InStageOf
<1> QED
  BY <1>1, <1>2, FS_Subset, FS_CardinalityType

\* The number of requests in stage s, and of those of Session object o,
\* given where every request is.
Count(st, s) == Cardinality({r \in Req : st[r] = s})
CountOf(st, so, s, o) == Cardinality({r \in Req : st[r] = s /\ so[r] = o})

\* A request that changes stage is counted once more in the new one, once
\* less in the old one, and for its own Session object only.
LEMMA StageMove ==
  ASSUME TypeOK, NEW r \in Req, NEW t \in Stages, stage[r] # t,
         \A q \in Req : stage'[q] = IF q = r THEN t ELSE stage[q],
         sessOf' = sessOf, NEW o \in Obj
  PROVE  /\ Count(stage', t) = Count(stage, t) + 1
         /\ Count(stage', stage[r]) = Count(stage, stage[r]) - 1
         /\ \A s \in Stages \ {t, stage[r]} : Count(stage', s) = Count(stage, s)
         /\ CountOf(stage', sessOf', t, o) =
              IF sessOf[r] = o THEN CountOf(stage, sessOf, t, o) + 1
              ELSE CountOf(stage, sessOf, t, o)
         /\ CountOf(stage', sessOf', stage[r], o) =
              IF sessOf[r] = o THEN CountOf(stage, sessOf, stage[r], o) - 1
              ELSE CountOf(stage, sessOf, stage[r], o)
         /\ \A s \in Stages \ {t, stage[r]} :
              CountOf(stage', sessOf', s, o) = CountOf(stage, sessOf, s, o)
<1> DEFINE In(s) == {q \in Req : stage[q] = s}
           InOf(s) == {q \in Req : stage[q] = s /\ sessOf[q] = o}
           After(s) == {q \in Req : stage'[q] = s}
           AfterOf(s) == {q \in Req : stage'[q] = s /\ sessOf'[q] = o}
<1>0. stage \in [Req -> Stages]
  BY DEF TypeOK
<1>1. IsFiniteSet(Req)
  BY FS_Interval, LimitsAssumption DEF Req
<1>2. \A s : IsFiniteSet(In(s)) /\ IsFiniteSet(InOf(s))
  BY <1>1, FS_Subset
<1>3. /\ After(t) = In(t) \cup {r} /\ r \notin In(t)
      /\ After(stage[r]) = In(stage[r]) \ {r} /\ r \in In(stage[r])
      /\ \A s \in Stages \ {t, stage[r]} : After(s) = In(s)
  BY <1>0
<1>4. CASE sessOf[r] = o
  <2>1. /\ AfterOf(t) = InOf(t) \cup {r} /\ r \notin InOf(t)
        /\ AfterOf(stage[r]) = InOf(stage[r]) \ {r} /\ r \in InOf(stage[r])
        /\ \A s \in Stages \ {t, stage[r]} : AfterOf(s) = InOf(s)
    BY <1>0, <1>4
  <2>2. /\ \A s : CountOf(stage, sessOf, s, o) = Cardinality(InOf(s))
        /\ \A s : CountOf(stage', sessOf', s, o) = Cardinality(AfterOf(s))
        /\ \A s : Count(stage, s) = Cardinality(In(s))
        /\ \A s : Count(stage', s) = Cardinality(After(s))
    BY DEF Count, CountOf
  <2> HIDE DEF In, InOf, After, AfterOf
  <2>3. /\ Cardinality(In(t) \cup {r}) = Cardinality(In(t)) + 1
        /\ Cardinality(InOf(t) \cup {r}) = Cardinality(InOf(t)) + 1
    BY <1>2, <1>3, <2>1, FS_AddElement
  <2>4. /\ Cardinality(In(stage[r]) \ {r}) = Cardinality(In(stage[r])) - 1
        /\ Cardinality(InOf(stage[r]) \ {r}) = Cardinality(InOf(stage[r])) - 1
    BY <1>2, <1>3, <2>1, FS_RemoveElement
  <2> QED
    BY <1>3, <1>4, <2>1, <2>2, <2>3, <2>4
<1>5. CASE sessOf[r] # o
  <2>1. \A s \in Stages : AfterOf(s) = InOf(s)
    BY <1>0, <1>5
  <2>2. /\ \A s : CountOf(stage, sessOf, s, o) = Cardinality(InOf(s))
        /\ \A s : CountOf(stage', sessOf', s, o) = Cardinality(AfterOf(s))
        /\ \A s : Count(stage, s) = Cardinality(In(s))
        /\ \A s : Count(stage', s) = Cardinality(After(s))
    BY DEF Count, CountOf
  <2> HIDE DEF In, InOf, After, AfterOf
  <2>3. Cardinality(In(t) \cup {r}) = Cardinality(In(t)) + 1
    BY <1>2, <1>3, FS_AddElement
  <2>4. Cardinality(In(stage[r]) \ {r}) = Cardinality(In(stage[r])) - 1
    BY <1>2, <1>3, FS_RemoveElement
  <2>5. stage[r] \in Stages
    BY <1>0
  <2> QED
    BY <1>3, <1>5, <2>1, <2>2, <2>3, <2>4, <2>5
<1> QED
  BY <1>4, <1>5

-----------------------------------------------------------------------------
(* Type correctness *)

\* The ages are naturals up to Horizon.
LEMMA HorizonNat == Horizon \in Nat \ {0} /\ 0 \in Age /\ Horizon \in Age
  BY TimesAssumption DEF Horizon, Longest, Age

\* Updating one field of one session keeps the type of info.
LEMMA InfoUpdates ==
  ASSUME TypeOK, NEW o \in Obj
  PROVE  /\ \A t \in {NoTime} \cup Age : [info EXCEPT ![o].idle = t] \in [Obj -> Info]
         /\ [info EXCEPT ![o].last = 0] \in [Obj -> Info]
         /\ [info EXCEPT ![o].last = 0, ![o].idle = NoTime] \in [Obj -> Info]
         /\ [info EXCEPT ![o] = NewInfo] \in [Obj -> Info]
         /\ \A k \in Keys \cup {NoKey} : [info EXCEPT ![o].shared = k] \in [Obj -> Info]
         /\ \A s \in {"busy", "idle", "waiting"} :
              [info EXCEPT ![o].cstat = s, ![o].cat = 0] \in [Obj -> Info]
<1>1. info \in [Obj -> Info]
  BY DEF TypeOK
<1>2. NewInfo \in Info
  BY HorizonNat DEF Info, NewInfo
<1>3. ASSUME NEW t \in {NoTime} \cup Age
      PROVE  [info EXCEPT ![o].idle = t] \in [Obj -> Info]
  <2>1. [info[o] EXCEPT !.idle = t] \in Info
    BY <1>1 DEF Info
  <2> QED
    BY <1>1, <2>1
<1>4. [info EXCEPT ![o].last = 0] \in [Obj -> Info]
  <2>1. [info[o] EXCEPT !.last = 0] \in Info
    BY <1>1, HorizonNat DEF Info
  <2> QED
    BY <1>1, <2>1
<1>5. [info EXCEPT ![o].last = 0, ![o].idle = NoTime] \in [Obj -> Info]
  <2>1. [info[o] EXCEPT !.last = 0, !.idle = NoTime] \in Info
    BY <1>1, HorizonNat DEF Info
  <2> QED
    BY <1>1, <2>1
<1>6. [info EXCEPT ![o] = NewInfo] \in [Obj -> Info]
  BY <1>1, <1>2
<1>7. ASSUME NEW k \in Keys \cup {NoKey}
      PROVE  [info EXCEPT ![o].shared = k] \in [Obj -> Info]
  <2>1. [info[o] EXCEPT !.shared = k] \in Info
    BY <1>1 DEF Info
  <2> QED
    BY <1>1, <2>1
<1>8. ASSUME NEW s \in {"busy", "idle", "waiting"}
      PROVE  [info EXCEPT ![o].cstat = s, ![o].cat = 0] \in [Obj -> Info]
  <2>1. [info[o] EXCEPT !.cstat = s, !.cat = 0] \in Info
    BY <1>1, HorizonNat DEF Info
  <2> QED
    BY <1>1, <2>1
<1> QED
  BY <1>3, <1>4, <1>5, <1>6, <1>7, <1>8

\* Requests that have arrived are requests, and session objects.
LEMMA ArrivedFacts ==
  ASSUME TypeOK
  PROVE  arrived \in Nat /\ arrived <= MaxRequests /\ 1..arrived \subseteq Obj
<1>1. arrived \in 0..MaxRequests
  BY DEF TypeOK
<1> QED
  BY <1>1, LimitsAssumption DEF Obj, Req

\* A queue entry is a waiting request whose session is an object.
LEMMA EntryFacts ==
  ASSUME IInv, NEW i \in 1..Len(queue)
  PROVE  /\ queue[i] \in Req /\ stage[queue[i]] = "waiting"
         /\ queue[i] <= arrived
         /\ sessOf[queue[i]] \in Obj /\ reqKey[sessOf[queue[i]]] \in Keys
         /\ reqKey[sessOf[queue[i]]] = reqKey[queue[i]]
         /\ waiting[sessOf[queue[i]]] >= 1
  PROOF
<1> DEFINE r == queue[i]
<1>1. r \in Req /\ stage[r] = "waiting"
  BY DEF IInv, TypeOK, SlotAccounting
<1>2. r \in 1..arrived
  BY <1>1 DEF IInv, Wiring, Req, TypeOK
<1>3. /\ sessOf[r] \in 1..arrived /\ reqKey[r] \in Keys /\ reqKey[sessOf[r]] = reqKey[r]
  BY <1>2 DEF IInv, Wiring
<1>4. sessOf[r] \in Obj
  BY <1>3, ArrivedFacts DEF IInv
<1>5. waiting[sessOf[r]] = Cardinality(InStageOf("waiting", sessOf[r]))
  BY <1>4 DEF IInv, SlotAccounting
<1>6. r \in InStageOf("waiting", sessOf[r])
  BY <1>1 DEF InStageOf, InStage
<1>7. Cardinality(InStageOf("waiting", sessOf[r])) # 0
  BY <1>6, StagesFinite, FS_EmptySet DEF IInv
<1> QED
  BY <1>1, <1>2, <1>3, <1>4, <1>5, <1>7, StagesFinite DEF IInv

\* A request that has arrived has a session object with its key.
LEMMA RequestFacts ==
  ASSUME IInv, NEW r \in Req, stage[r] # "new"
  PROVE  /\ r \in 1..arrived /\ sessOf[r] \in Obj /\ sessOf[r] \in 1..arrived
         /\ reqKey[r] \in Keys /\ reqKey[sessOf[r]] = reqKey[r]
<1>1. r \in 1..arrived
  BY DEF IInv, Wiring, Req, TypeOK
<1> QED
  BY <1>1, ArrivedFacts DEF IInv, Wiring

\* Whether the promotion loop goes on is a truth value.
LEMMA CanPromoteBoolean == CanPromote \in BOOLEAN /\ CanPromote' \in BOOLEAN
  BY DEF CanPromote

\* idle_since as tick computes it is an age.
LEMMA IdleSinceType ==
  ASSUME TypeOK, NEW o \in Obj
  PROVE  IdleSince(o) \in {NoTime} \cup Age
<1>1. info[o].idle \in {NoTime} \cup Age
  BY DEF TypeOK, Info
<1>2. mgrAge \in Age
  BY TimesAssumption DEF TypeOK, Age, Horizon, Longest
<1> QED
  BY <1>1, <1>2 DEF IdleSince

\* _release_spot preserves the types.
LEMMA ReleaseSpotType ==
  ASSUME IInv, NEW o \in Obj, o <= arrived, ReleaseSpot(o)
  PROVE  /\ spots' \subseteq Keys /\ spotHeld' \in [Obj -> BOOLEAN]
         /\ info' \in [Obj -> Info] /\ sessions' \in [Keys -> Obj \cup {NoObj}]
         /\ promoting' \in BOOLEAN
<1>1. spots \subseteq Keys /\ spotHeld \in [Obj -> BOOLEAN] /\ sessions \in [Keys -> Obj \cup {NoObj}]
  BY DEF IInv, TypeOK
<1>2. info' \in [Obj -> Info]
  BY InfoUpdates DEF IInv, ReleaseSpot
<1>3. promoting' \in BOOLEAN
  BY CanPromoteBoolean DEF ReleaseSpot
<1> QED
  BY <1>1, <1>2, <1>3 DEF ReleaseSpot

\* Every step keeps every variable in its type.
LEMMA TypeStep ==
  ASSUME IInv, [Next]_vars
  PROVE  TypeOK'
<1> USE DEF queueVars, counterVars, requestVars, managerVars
<1>t. TypeOK
  BY DEF IInv
<1>1. CASE Promote
  <2>1. PICK i \in 1..Len(queue) :
          /\ queue' = RemoveAt(queue, i)
          /\ stage' = [stage EXCEPT ![queue[i]] = "inflight"]
          /\ waiting' = [waiting EXCEPT ![sessOf[queue[i]]] = @ - 1]
          /\ inflight' = [inflight EXCEPT ![sessOf[queue[i]]] = @ + 1]
          /\ inflightTotal' = inflightTotal + 1
          /\ info' = [info EXCEPT ![sessOf[queue[i]]].idle = NoTime]
          /\ \/ /\ spots' = spots \cup {reqKey[sessOf[queue[i]]]}
                /\ spotHeld' = [spotHeld EXCEPT ![sessOf[queue[i]]] = TRUE]
             \/ UNCHANGED <<spots, spotHeld>>
    BY <1>1 DEF Promote
  <2>2. /\ queue[i] \in Req /\ sessOf[queue[i]] \in Obj
        /\ reqKey[sessOf[queue[i]]] \in Keys /\ waiting[sessOf[queue[i]]] >= 1
    BY EntryFacts
  <2>3. queue' \in Seq(Req)
    BY <1>t, <2>1, RemoveAtFacts DEF TypeOK
  <2>4. info' \in [Obj -> Info]
    BY <1>t, <2>1, <2>2, InfoUpdates
  <2>5. promoting' \in BOOLEAN
    BY <1>1, CanPromoteBoolean DEF Promote
  <2>6. /\ stage' \in [Req -> Stages] /\ spots' \subseteq Keys /\ spotHeld' \in [Obj -> BOOLEAN]
        /\ waiting' \in [Obj -> Nat] /\ inflight' \in [Obj -> Nat] /\ inflightTotal' \in Nat
    <3>1. stage' \in [Req -> Stages]
      BY <1>t, <2>1, <2>2 DEF TypeOK, Stages
    <3>2. spots' \subseteq Keys /\ spotHeld' \in [Obj -> BOOLEAN]
      BY <1>t, <2>1, <2>2 DEF TypeOK
    <3>3. waiting[sessOf[queue[i]]] - 1 \in Nat /\ inflight[sessOf[queue[i]]] + 1 \in Nat
      BY <1>t, <2>2 DEF TypeOK
    <3>4. waiting' \in [Obj -> Nat] /\ inflight' \in [Obj -> Nat] /\ inflightTotal' \in Nat
      BY <1>t, <2>1, <2>2, <3>3 DEF TypeOK
    <3> QED
      BY <3>1, <3>2, <3>4
  <2> QED
    BY <1>t, <1>1, <2>3, <2>4, <2>5, <2>6 DEF TypeOK, Promote
<1>2. ASSUME NEW k \in Keys, Admit(k)
      PROVE  TypeOK'
  <2> DEFINE r == arrived + 1
             o == IF sessions[k] = NoObj THEN r ELSE sessions[k]
  <2>1. r \in Req /\ r \in Obj /\ r \in 0..MaxRequests
    BY <1>t, <1>2, ArrivedFacts DEF Admit, Req, Obj
  <2>2. o \in Obj
    BY <1>t, <2>1 DEF TypeOK
  <2>3. info' \in [Obj -> Info]
    BY <1>t, <1>2, <2>2, InfoUpdates DEF Admit, Revived
  <2>4. /\ arrived' = r /\ reqKey' = [reqKey EXCEPT ![r] = k] /\ sessOf' = [sessOf EXCEPT ![r] = o]
        /\ stage' = [stage EXCEPT ![r] = "admitting"] /\ sessions' = [sessions EXCEPT ![k] = o]
    BY <1>2 DEF Admit
  <2> HIDE DEF r, o
  <2>5. /\ arrived' \in 0..MaxRequests /\ reqKey' \in [Req -> Keys \cup {NoKey}]
        /\ sessOf' \in [Req -> Obj \cup {NoObj}] /\ stage' \in [Req -> Stages]
        /\ sessions' \in [Keys -> Obj \cup {NoObj}]
    BY <1>t, <2>1, <2>2, <2>4 DEF TypeOK, Stages
  <2> QED
    BY <1>t, <1>2, <2>3, <2>5 DEF TypeOK, Admit
<1>3. ASSUME NEW r \in Req, Enqueue(r)
      PROVE  TypeOK'
  <2>1. sessOf[r] \in Obj
    BY <1>3, RequestFacts DEF Enqueue
  <2>2. promoting' \in BOOLEAN
    BY <1>3, CanPromoteBoolean DEF Enqueue
  <2>3. queue' \in Seq(Req) /\ stage' \in [Req -> Stages] /\ waiting' \in [Obj -> Nat]
    BY <1>t, <1>3, <2>1 DEF TypeOK, Enqueue, Stages
  <2> QED
    BY <1>t, <1>3, <2>2, <2>3 DEF TypeOK, Enqueue
<1>4. ASSUME NEW r \in Req, stage[r] = "inflight", Release(r)
      PROVE  TypeOK'
  <2>1. sessOf[r] \in Obj
    BY <1>4, RequestFacts
  <2>2. promoting' \in BOOLEAN /\ info' \in [Obj -> Info]
    BY <1>t, <1>4, <2>1, CanPromoteBoolean, InfoUpdates DEF Release
  <2>3. stage' \in [Req -> Stages]
    BY <1>t, <1>4 DEF TypeOK, Release, Stages
  <2>4. inflight' \in [Obj -> Nat] /\ inflightTotal' \in Nat
    <3>1. inflight \in [Obj -> Nat] /\ inflight[sessOf[r]] \in Nat /\ inflightTotal \in Nat
      BY <1>t, <2>1 DEF TypeOK
    <3>2. Longest(0, inflightTotal - 1) \in Nat
      BY <3>1 DEF Longest
    <3>3. inflight[sessOf[r]] > 0 => inflight[sessOf[r]] - 1 \in Nat
      BY <3>1
    <3>4. \/ UNCHANGED <<inflight, inflightTotal>>
          \/ /\ inflight[sessOf[r]] > 0
             /\ inflight' = [inflight EXCEPT ![sessOf[r]] = inflight[sessOf[r]] - 1]
             /\ inflightTotal' = Longest(0, inflightTotal - 1)
      BY <1>4 DEF Release
    <3> QED
      BY <3>1, <3>2, <3>3, <3>4
  <2> QED
    BY <1>t, <1>4, <2>2, <2>3, <2>4 DEF TypeOK, Release
<1>5. ASSUME NEW r \in Req, stage[r] = "waiting", Abandon(r)
      PROVE  TypeOK'
  <2>1. sessOf[r] \in Obj
    BY <1>5, RequestFacts
  <2>2. queue' \in Seq(Req)
    BY <1>t, <1>5, RemoveAtFacts DEF TypeOK, Abandon
  <2>3. stage' \in [Req -> Stages] /\ waiting' \in [Obj -> Nat]
    BY <1>t, <1>5, <2>1 DEF TypeOK, Abandon, Stages, Longest
  <2> QED
    BY <1>t, <1>5, <2>2, <2>3 DEF TypeOK, Abandon
<1>6. ASSUME NEW r \in Req, GiveUp(r) \/ Finish(r)
      PROVE  TypeOK'
  BY <1>4, <1>5, <1>6 DEF GiveUp, Finish
<1>7. ASSUME NEW k \in ManualKeys, ManualRelease(k)
      PROVE  TypeOK'
  <2>1. sessions[k] \in Obj /\ sessions[k] <= arrived
    BY <1>t, <1>7, KeysAssumption DEF ManualRelease, TypeOK, IInv, Wiring
  <2> QED
    BY <1>t, <1>7, <2>1, ReleaseSpotType DEF TypeOK, ManualRelease, ReleaseSpot
<1>8. ASSUME NEW o \in Obj, ResolveShared(o)
      PROVE  TypeOK'
  <2> DEFINE chain == Ancestors[reqKey[o]]
  <2>1. o <= arrived /\ o \in pollSet
    BY <1>8 DEF ResolveShared, IInv, Wiring
  <2>2. chain \in Seq(Keys)
    BY <1>t, <2>1, KeysAssumption, ArrivedFacts DEF IInv, Wiring, Obj, Req
  <2>3. ASSUME NEW i \in 1..Len(chain), sessions[chain[i]] # NoObj
        PROVE  SharedWith(chain[i]) \in Keys \cup {NoKey}
    BY <1>t, <2>2, <2>3 DEF SharedWith, TypeOK
  <2>4. info' \in [Obj -> Info]
    <3>1. CASE info' = [info EXCEPT ![o].shared = NoKey]
      BY <1>t, <3>1, InfoUpdates
    <3>2. CASE \E i \in 1..Len(chain) : /\ sessions[chain[i]] # NoObj
                                        /\ info' = [info EXCEPT ![o].shared = SharedWith(chain[i])]
      <4>1. PICK i \in 1..Len(chain) : /\ sessions[chain[i]] # NoObj
                                       /\ info' = [info EXCEPT ![o].shared = SharedWith(chain[i])]
        BY <3>2
      <4>2. SharedWith(chain[i]) \in Keys \cup {NoKey}
        BY <2>3, <4>1
      <4> QED
        BY <1>t, <4>1, <4>2, InfoUpdates
    <3> QED
      BY <1>8, <3>1, <3>2 DEF ResolveShared
  <2>5. pollSet' \subseteq Obj /\ fetchSet' \subseteq Obj
    BY <1>t, <1>8 DEF ResolveShared, TypeOK
  <2> QED
    BY <1>t, <1>8, <2>4, <2>5 DEF TypeOK, ResolveShared
<1>9. ASSUME NEW o \in Obj, NEW s \in Reports, Report(o, s)
      PROVE  TypeOK'
  <2>1. info' \in [Obj -> Info] /\ fetchSet' \subseteq Obj
    BY <1>t, <1>9, InfoUpdates, KeysAssumption DEF Report, TypeOK
  <2> QED
    BY <1>t, <1>9, <2>1 DEF TypeOK, Report
<1>10. CASE Wake
  <2>1. mgrAge' \in 0..MaxLag
    BY <1>10, TimesAssumption DEF Wake
  <2> QED
    BY <1>t, <1>10, <2>1 DEF TypeOK, Wake
<1>11. CASE TickStart
  BY <1>t, <1>11 DEF TypeOK, TickStart
<1>12. CASE TickStep
  <2>1. PICK o \in tickTodo : tickTodo' = tickTodo \ {o} /\ TickSession(o)
    BY <1>12 DEF TickStep
  <2>2. o \in Obj /\ o <= arrived
    BY <1>t DEF TypeOK, IInv, Wiring
  <2>3. CASE ReleaseSpot(o)
    BY <1>t, <1>12, <2>1, <2>2, <2>3, ReleaseSpotType DEF TypeOK, TickStep, ReleaseSpot
  <2>4. CASE ~(spotHeld[o] /\ DeadlinePassed(o))
    <3>1. info' \in [Obj -> Info]
      <4>1. IdleSince(o) \in {NoTime} \cup Age
        BY <1>t, <2>2, IdleSinceType
      <4>2. info' = [info EXCEPT ![o].idle = IdleSince(o)]
        BY <2>1, <2>4 DEF TickSession
      <4> QED
        BY <1>t, <2>2, <4>1, <4>2, InfoUpdates
    <3> QED
      BY <1>t, <1>12, <2>1, <2>2, <2>4, <3>1 DEF TypeOK, TickStep, TickSession
  <2> QED
    BY <2>1, <2>3, <2>4 DEF TickSession
<1>13. CASE TickEnd
  <2>1. mgrAge' \in 0..MaxLag
    BY <1>13, TimesAssumption DEF TickEnd
  <2> QED
    BY <1>t, <1>13, <2>1 DEF TypeOK, TickEnd
<1>14. CASE ManagerPromote
  <2>1. mgrAge' \in 0..MaxLag /\ promoting' \in BOOLEAN
    BY <1>14, TimesAssumption, CanPromoteBoolean DEF ManagerPromote
  <2> QED
    BY <1>t, <1>14, <2>1 DEF TypeOK, ManagerPromote
<1>15. CASE ReadinessFlip
  BY <1>t, <1>15 DEF TypeOK, ReadinessFlip
<1>16. CASE Second
  <2>1. mgrAge' \in 0..MaxLag
    <3>1. mgrAge \in 0..MaxLag /\ MaxLag \in Nat \ {0}
      BY <1>t, TimesAssumption DEF TypeOK
    <3>2. /\ mgr = "poll" => mgrAge < MaxLag
          /\ mgrAge' = IF mgr = "poll" THEN mgrAge + 1 ELSE IF mgr = "sleep" THEN 1 ELSE mgrAge
      BY <1>16 DEF Second
    <3> QED
      BY <3>1, <3>2
  <2>2. \A t \in {NoTime} \cup Age : Older(t) \in {NoTime} \cup Age
    BY HorizonNat DEF Older, Age, NoTime
  <2>3. \A t \in Age : Older(t) \in Age
    BY HorizonNat DEF Older, Age, NoTime
  <2>4. info' \in [Obj -> Info]
    <3>1. NewInfo \in Info
      BY HorizonNat DEF Info, NewInfo
    <3>2. ASSUME NEW o \in Obj
          PROVE  [info[o] EXCEPT !.idle = Older(@), !.last = Older(@), !.cat = Older(@)] \in Info
      <4>1. info[o] \in Info
        BY <1>t DEF TypeOK
      <4> QED
        BY <4>1, <2>2, <2>3 DEF Info
    <3> QED
      BY <1>16, <3>1, <3>2 DEF Second
  <2> QED
    BY <1>t, <1>16, <2>1, <2>4 DEF TypeOK, Second
<1>17. CASE UNCHANGED vars
  BY <1>t, <1>17 DEF TypeOK, vars
<1> QED
  BY <1>1, <1>2, <1>3, <1>6, <1>7, <1>8, <1>9, <1>10, <1>11, <1>12, <1>13, <1>14, <1>15,
     <1>16, <1>17 DEF Next, Manager

-----------------------------------------------------------------------------
(* What a step can do to requests, counters and spots *)

\* A step that touches neither requests, counters nor spots.
Quiet == UNCHANGED <<queue, spots, inflightTotal, counterVars, requestVars>>

\* Every step is one of six operations on them, or quiet.
LEMMA StepCases ==
  ASSUME IInv, [Next]_vars
  PROVE  \/ Promote
         \/ \E k \in Keys : Admit(k)
         \/ \E r \in Req : Enqueue(r)
         \/ \E r \in Req : stage[r] = "inflight" /\ Release(r)
         \/ \E r \in Req : stage[r] = "waiting" /\ Abandon(r)
         \/ \E o \in Obj : o <= arrived /\ spotHeld[o] /\ ReleaseSpot(o)
         \/ Quiet
<1> USE DEF Quiet, queueVars
<1>1. ASSUME NEW r \in Req, GiveUp(r) \/ Finish(r)
      PROVE  \/ stage[r] = "inflight" /\ Release(r)
             \/ stage[r] = "waiting" /\ Abandon(r)
  BY <1>1 DEF GiveUp, Finish
<1>2. ASSUME NEW k \in ManualKeys, ManualRelease(k)
      PROVE  \E o \in Obj : o <= arrived /\ spotHeld[o] /\ ReleaseSpot(o)
  <2>1. sessions[k] \in Obj /\ sessions[k] <= arrived
    BY <1>2, KeysAssumption DEF ManualRelease, TypeOK, IInv, Wiring
  <2> QED
    BY <1>2, <2>1 DEF ManualRelease
<1>3. CASE TickStep
  <2>1. PICK o \in tickTodo : TickSession(o)
    BY <1>3 DEF TickStep
  <2>2. o \in Obj /\ o <= arrived
    BY DEF TypeOK, IInv, Wiring
  <2> QED
    BY <2>1, <2>2 DEF TickSession
<1>4. CASE Wake \/ TickStart \/ TickEnd \/ ManagerPromote \/ ReadinessFlip \/ Second
  BY <1>4 DEF Wake, TickStart, TickEnd, ManagerPromote, ReadinessFlip, Second
<1>5. ASSUME NEW o \in Obj, \/ ResolveShared(o) \/ \E s \in Reports : Report(o, s)
      PROVE  Quiet
  BY <1>5 DEF ResolveShared, Report
<1>6. CASE UNCHANGED vars
  BY <1>6 DEF vars
<1> QED
  BY <1>1, <1>2, <1>3, <1>4, <1>5, <1>6 DEF Next, Manager

\* What one iteration of the promotion loop does to its entry.
LEMMA PromoteFacts ==
  ASSUME IInv, Promote
  PROVE  \E i \in 1..Len(queue) : \E r \in Req : \E o \in Obj :
           /\ r = queue[i] /\ stage[r] = "waiting" /\ r <= arrived
           /\ o = sessOf[r] /\ o <= arrived /\ reqKey[o] \in Keys
           /\ Eligible(r)
           /\ queue' = RemoveAt(queue, i)
           /\ stage' = [stage EXCEPT ![r] = "inflight"]
           /\ waiting' = [waiting EXCEPT ![o] = waiting[o] - 1]
           /\ inflight' = [inflight EXCEPT ![o] = inflight[o] + 1]
           /\ inflightTotal' = inflightTotal + 1
           /\ \/ /\ SpotKey(o) = NoKey
                 /\ spots' = spots \cup {reqKey[o]}
                 /\ spotHeld' = [spotHeld EXCEPT ![o] = TRUE]
              \/ /\ SpotKey(o) # NoKey
                 /\ UNCHANGED <<spots, spotHeld>>
<1>1. PICK i \in 1..Len(queue) :
           /\ PromotedAt(i)
           /\ queue' = RemoveAt(queue, i)
           /\ stage' = [stage EXCEPT ![queue[i]] = "inflight"]
           /\ waiting' = [waiting EXCEPT ![sessOf[queue[i]]] = @ - 1]
           /\ inflight' = [inflight EXCEPT ![sessOf[queue[i]]] = @ + 1]
           /\ inflightTotal' = inflightTotal + 1
           /\ IF SpotKey(sessOf[queue[i]]) = NoKey
              THEN /\ spots' = spots \cup {reqKey[sessOf[queue[i]]]}
                   /\ spotHeld' = [spotHeld EXCEPT ![sessOf[queue[i]]] = TRUE]
              ELSE UNCHANGED <<spots, spotHeld>>
  BY DEF Promote
<1>2. /\ queue[i] \in Req /\ stage[queue[i]] = "waiting" /\ queue[i] <= arrived
      /\ sessOf[queue[i]] \in Obj /\ reqKey[sessOf[queue[i]]] \in Keys
  BY EntryFacts
<1>3. sessOf[queue[i]] <= arrived
  BY <1>2, RequestFacts, ArrivedFacts DEF IInv
<1> QED
  BY <1>1, <1>2, <1>3 DEF PromotedAt

-----------------------------------------------------------------------------
(* Preservation of the invariant, part by part *)

\* The number of spots stays within max_spots: only a promotion adds one,
\* and only when there is room.
LEMMA BoundStep ==
  ASSUME IInv, [Next]_vars
  PROVE  SpotsBounded'
<1>1. IsFiniteSet(spots) /\ Cardinality(spots) \in Nat /\ Cardinality(spots) <= MaxSpots
  BY KeysAssumption, FS_Subset, FS_CardinalityType DEF IInv, TypeOK, SpotsBounded
<1>2. CASE Promote
  <2>1. PICK r \in Req, o \in Obj :
          /\ o = sessOf[r] /\ Eligible(r)
          /\ \/ SpotKey(o) = NoKey /\ spots' = spots \cup {reqKey[o]}
             \/ spots' = spots
    BY <1>2, PromoteFacts
  <2>2. CASE SpotKey(o) = NoKey /\ spots' = spots \cup {reqKey[o]}
    <3>1. Cardinality(spots) < MaxSpots
      BY <2>1, <2>2 DEF Eligible
    <3>2. Cardinality(spots \cup {reqKey[o]}) <= Cardinality(spots) + 1
      BY <1>1, FS_AddElement
    <3>3. Cardinality(spots \cup {reqKey[o]}) \in Nat
      BY <1>1, FS_AddElement, FS_CardinalityType
    <3> QED
      BY <1>1, <2>2, <3>1, <3>2, <3>3, LimitsAssumption DEF SpotsBounded
  <2> QED
    BY <1>1, <2>1, <2>2 DEF SpotsBounded
<1>3. ASSUME NEW o \in Obj, ReleaseSpot(o)
      PROVE  SpotsBounded'
  <2>1. Cardinality(spots \ {reqKey[o]}) <= Cardinality(spots)
    BY <1>1, FS_RemoveElement
  <2>2. Cardinality(spots \ {reqKey[o]}) \in Nat
    BY <1>1, FS_RemoveElement, FS_CardinalityType
  <2> QED
    BY <1>1, <1>3, <2>1, <2>2, LimitsAssumption DEF SpotsBounded, ReleaseSpot
<1>4. CASE spots' = spots
  BY <1>1, <1>4 DEF SpotsBounded
<1> QED
  BY <1>2, <1>3, <1>4, StepCases DEF Admit, Enqueue, Release, Abandon, Quiet

\* In atomic mode a promotion finds nothing in flight.
LEMMA AtomicStep ==
  ASSUME IInv, [Next]_vars
  PROVE  AtomicExclusion'
<1> SUFFICES ASSUME Atomic
             PROVE  \A r, s \in InStage("inflight")' : r = s
  BY DEF AtomicExclusion
<1>1. \A r, s \in InStage("inflight") : r = s
  BY DEF IInv, AtomicExclusion
<1>2. CASE Promote
  <2>1. PICK r \in Req : Eligible(r) /\ stage' = [stage EXCEPT ![r] = "inflight"]
    BY <1>2, PromoteFacts
  <2>2. inflightTotal = 0
    BY <2>1 DEF Eligible, IInv, TypeOK
  <2>3. InStage("inflight") = {}
    BY <2>2, StagesFinite, FS_EmptySet DEF IInv, SlotAccounting
  <2>4. InStage("inflight")' \subseteq {r}
    BY <2>1, <2>3 DEF InStage, IInv, TypeOK
  <2> QED
    BY <2>4
<1>3. CASE InStage("inflight")' \subseteq InStage("inflight")
  BY <1>1, <1>3
<1>4. ASSUME NEW r \in Req, NEW t \in Stages \ {"inflight"}, stage' = [stage EXCEPT ![r] = t]
      PROVE  InStage("inflight")' \subseteq InStage("inflight")
  BY <1>4 DEF InStage, IInv, TypeOK
<1>5. ASSUME NEW k \in Keys, Admit(k)
      PROVE  InStage("inflight")' \subseteq InStage("inflight")
  <2>1. arrived + 1 \in Req /\ stage' = [stage EXCEPT ![arrived + 1] = "admitting"]
    BY <1>5, ArrivedFacts DEF Admit, IInv, Req
  <2> QED
    BY <1>4, <2>1 DEF Stages
<1>6. ASSUME NEW r \in Req, Enqueue(r) \/ Release(r) \/ Abandon(r)
      PROVE  InStage("inflight")' \subseteq InStage("inflight")
  <2>1. stage' = [stage EXCEPT ![r] = "waiting"] \/ stage' = [stage EXCEPT ![r] = "done"]
    BY <1>6 DEF Enqueue, Release, Abandon
  <2> QED
    BY <1>4, <2>1 DEF Stages
<1>7. ASSUME stage' = stage
      PROVE  InStage("inflight")' \subseteq InStage("inflight")
  BY <1>7 DEF InStage
<1> QED
  BY <1>2, <1>3, <1>5, <1>6, <1>7, StepCases DEF ReleaseSpot, Quiet, requestVars

\* Spots and spot_held flags change together.
LEMMA HolderStep ==
  ASSUME IInv, SpotHolder, [Next]_vars
  PROVE  SpotHolder'
<1> USE DEF SpotHolder
<1>t. /\ spotHeld \in [Obj -> BOOLEAN] /\ reqKey \in [Req -> Keys \cup {NoKey}] /\ Obj = Req
      /\ spots \subseteq Keys /\ NoKey \notin Keys
  BY KeysAssumption DEF IInv, TypeOK, Obj
<1>1. CASE Promote
  <2>1. PICK o \in Obj :
          /\ reqKey[o] \in Keys
          /\ \/ /\ SpotKey(o) = NoKey
                /\ spots' = spots \cup {reqKey[o]}
                /\ spotHeld' = [spotHeld EXCEPT ![o] = TRUE]
             \/ UNCHANGED <<spots, spotHeld>>
    BY <1>1, PromoteFacts
  <2>2. reqKey' = reqKey
    BY <1>1 DEF Promote
  <2>3. SpotKey(o) = NoKey => reqKey[o] \notin spots
    BY <1>t DEF SpotKey
  <2> QED
    BY <1>t, <2>1, <2>2, <2>3
<1>2. ASSUME NEW k \in Keys, Admit(k)
      PROVE  SpotHolder'
  <2>1. /\ arrived + 1 \in Req /\ reqKey' = [reqKey EXCEPT ![arrived + 1] = k]
        /\ UNCHANGED <<spots, spotHeld>>
    BY <1>2, ArrivedFacts DEF Admit, counterVars, IInv, Req
  <2>2. ~spotHeld[arrived + 1]
    BY <2>1, ArrivedFacts DEF IInv, Wiring, Obj
  <2> QED
    BY <1>t, <2>1, <2>2
<1>3. ASSUME NEW o \in Obj, o <= arrived, spotHeld[o], ReleaseSpot(o)
      PROVE  SpotHolder'
  <2>1. /\ spots' = spots \ {reqKey[o]} /\ spotHeld' = [spotHeld EXCEPT ![o] = FALSE]
        /\ reqKey' = reqKey
    BY <1>3 DEF ReleaseSpot, requestVars
  <2> QED
    BY <1>t, <1>3, <2>1
<1>4. CASE UNCHANGED <<spots, spotHeld, reqKey>>
  BY <1>4
<1> QED
  BY <1>1, <1>2, <1>3, <1>4, StepCases DEF Enqueue, Release, Abandon, Quiet, counterVars, requestVars

\* get_or_create_session: the new request r and its Session object, new or
\* revived, refer to each other and to nothing that has not arrived.
LEMMA WiringAdmitted ==
  ASSUME IInv, NEW k \in Keys, NEW t \in Stages \ {"new"}, arrived + 1 <= MaxRequests,
         arrived' = arrived + 1, reqKey' = [reqKey EXCEPT ![arrived + 1] = k],
         sessOf' = [sessOf EXCEPT ![arrived + 1] =
                      IF sessions[k] = NoObj THEN arrived + 1 ELSE sessions[k]],
         stage' = [stage EXCEPT ![arrived + 1] = t],
         sessions' = [sessions EXCEPT ![k] =
                        IF sessions[k] = NoObj THEN arrived + 1 ELSE sessions[k]],
         UNCHANGED <<pollSet, fetchSet, tickTodo>>,
         \A p \in Obj : spotHeld'[p] => spotHeld[p] \/ p <= arrived + 1
  PROVE  Wiring'
<1>t. /\ arrived \in Nat /\ Obj = Req /\ Req = 1..MaxRequests /\ MaxRequests \in Nat
      /\ reqKey \in [Req -> Keys \cup {NoKey}] /\ sessOf \in [Req -> Obj \cup {NoObj}]
      /\ stage \in [Req -> Stages] /\ sessions \in [Keys -> Obj \cup {NoObj}]
      /\ spotHeld \in [Obj -> BOOLEAN] /\ 1..arrived \subseteq Req
      /\ pollSet \subseteq Obj /\ fetchSet \subseteq Obj /\ tickTodo \subseteq Obj
  BY ArrivedFacts, LimitsAssumption DEF IInv, TypeOK, Obj, Req
<1>w. Wiring
  BY DEF IInv
<1> DEFINE r == arrived + 1
           o == IF sessions[k] = NoObj THEN r ELSE sessions[k]
<1>1. /\ arrived' = r /\ reqKey' = [reqKey EXCEPT ![r] = k] /\ sessOf' = [sessOf EXCEPT ![r] = o]
      /\ stage' = [stage EXCEPT ![r] = t] /\ sessions' = [sessions EXCEPT ![k] = o]
  OBVIOUS
<1>2. r \in Req
  BY <1>t DEF r
<1>3. o \in 1..r /\ (o # r => o <= arrived /\ reqKey[o] = k)
  BY <1>t, <1>w DEF Wiring, NoObj
<1>4. r \notin 1..arrived /\ 1..r = 1..arrived \cup {r}
  BY <1>t
<1> HIDE DEF r, o
<1>5. \A s \in Req : (stage[s] = "new")' <=> s > r
  BY <1>t, <1>w, <1>1, <1>2, <1>4 DEF Wiring, r
<1>6. \A s \in 1..r : reqKey'[s] \in Keys /\ sessOf'[s] \in 1..r /\ reqKey'[sessOf'[s]] = reqKey'[s]
  <2> SUFFICES ASSUME NEW s \in 1..r
               PROVE  reqKey'[s] \in Keys /\ sessOf'[s] \in 1..r /\ reqKey'[sessOf'[s]] = reqKey'[s]
    OBVIOUS
  <2>1. CASE s = r
    BY <1>t, <1>1, <1>2, <1>3, <1>4, <2>1
  <2>2. CASE s # r
    <3>1. s \in 1..arrived /\ s \in Req
      BY <1>t, <1>4, <2>2
    <3>2. reqKey[s] \in Keys /\ sessOf[s] \in 1..arrived /\ reqKey[sessOf[s]] = reqKey[s]
      BY <1>w, <3>1 DEF Wiring
    <3>3. reqKey'[s] = reqKey[s] /\ sessOf'[s] = sessOf[s] /\ reqKey'[sessOf[s]] = reqKey[sessOf[s]]
      BY <1>t, <1>1, <1>2, <1>4, <2>2, <3>1, <3>2
    <3> QED
      BY <1>4, <3>2, <3>3
  <2> QED
    BY <2>1, <2>2
<1>7. \A l \in Keys : sessions'[l] # NoObj => sessions'[l] <= r /\ reqKey'[sessions'[l]] = l
  <2> SUFFICES ASSUME NEW l \in Keys, sessions'[l] # NoObj
               PROVE  sessions'[l] <= r /\ reqKey'[sessions'[l]] = l
    OBVIOUS
  <2>1. CASE l = k
    BY <1>t, <1>1, <1>2, <1>3, <1>4, <2>1
  <2>2. CASE l # k
    <3>1. sessions'[l] = sessions[l] /\ sessions[l] \in Obj
      BY <1>t, <1>1, <1>2, <2>2
    <3>2. sessions[l] <= arrived /\ reqKey[sessions[l]] = l
      BY <1>w, <3>1 DEF Wiring
    <3> QED
      BY <1>t, <1>1, <1>2, <1>4, <3>1, <3>2 DEF r
  <2> QED
    BY <2>1, <2>2
<1>8. /\ \A p \in pollSet \cup fetchSet \cup tickTodo : p <= r
      /\ \A p \in Obj : spotHeld[p] => p <= r
  BY <1>t, <1>w DEF Wiring, r
<1> QED
  BY <1>1, <1>2, <1>5, <1>6, <1>7, <1>8 DEF Wiring

\* A step that admits nothing keeps these references if no stage goes back to
\* "new" and the manager's snapshots take tracked sessions only.
LEMMA WiringKept ==
  ASSUME IInv, UNCHANGED <<arrived, reqKey, sessOf>>,
         \/ stage' = stage
         \/ \E r \in Req, s \in Stages \ {"new"} :
              stage[r] # "new" /\ stage' = [stage EXCEPT ![r] = s],
         \A k \in Keys : sessions'[k] \in {sessions[k], NoObj},
         \A o \in pollSet' \cup fetchSet' \cup tickTodo' :
           o \in pollSet \cup fetchSet \cup tickTodo \/ \E k \in Keys : o = sessions[k] /\ o # NoObj,
         \A o \in Obj : spotHeld'[o] => spotHeld[o] \/ o <= arrived
  PROVE  Wiring'
<1>t. /\ arrived \in Nat /\ Obj = Req /\ Req = 1..MaxRequests /\ MaxRequests \in Nat
      /\ reqKey \in [Req -> Keys \cup {NoKey}] /\ sessOf \in [Req -> Obj \cup {NoObj}]
      /\ stage \in [Req -> Stages] /\ sessions \in [Keys -> Obj \cup {NoObj}]
      /\ spotHeld \in [Obj -> BOOLEAN] /\ 1..arrived \subseteq Req
      /\ pollSet \subseteq Obj /\ fetchSet \subseteq Obj /\ tickTodo \subseteq Obj
  BY ArrivedFacts, LimitsAssumption DEF IInv, TypeOK, Obj, Req
<1>w. Wiring
  BY DEF IInv
<1>1. \A r \in Req : (stage[r] = "new")' <=> r > arrived
  BY <1>t, <1>w DEF Wiring
<1>2. \A k \in Keys : sessions'[k] # NoObj => sessions'[k] <= arrived /\ reqKey[sessions'[k]] = k
  BY <1>w DEF Wiring
<1>3. \A o \in pollSet' \cup fetchSet' \cup tickTodo' : o <= arrived
  BY <1>w DEF Wiring
<1> QED
  BY <1>w, <1>1, <1>2, <1>3 DEF Wiring

\* Requests, sessions and snapshots keep referring to arrived requests and
\* to objects with their own key.
LEMMA WiringStep ==
  ASSUME IInv, [Next]_vars
  PROVE  Wiring'
<1>t. /\ arrived \in Nat /\ Obj = Req /\ Req = 1..MaxRequests /\ MaxRequests \in Nat
      /\ reqKey \in [Req -> Keys \cup {NoKey}] /\ sessOf \in [Req -> Obj \cup {NoObj}]
      /\ stage \in [Req -> Stages] /\ sessions \in [Keys -> Obj \cup {NoObj}]
      /\ spotHeld \in [Obj -> BOOLEAN] /\ 1..arrived \subseteq Req
      /\ pollSet \subseteq Obj /\ fetchSet \subseteq Obj /\ tickTodo \subseteq Obj
  BY ArrivedFacts, LimitsAssumption DEF IInv, TypeOK, Obj, Req
<1>w. Wiring
  BY DEF IInv
<1>1. ASSUME NEW k \in Keys, Admit(k)
      PROVE  Wiring'
  <2>1. arrived + 1 <= MaxRequests /\ UNCHANGED <<spotHeld, pollSet, fetchSet, tickTodo>>
    BY <1>1 DEF Admit, counterVars, managerVars
  <2> QED
    BY <1>1, <2>1, WiringAdmitted DEF Admit, Stages
<1> USE DEF queueVars, counterVars, requestVars, managerVars
<1>3. CASE Promote
  <2>1. PICK r \in Req, o \in Obj :
          /\ stage[r] = "waiting" /\ o <= arrived /\ stage' = [stage EXCEPT ![r] = "inflight"]
          /\ spotHeld' = spotHeld \/ spotHeld' = [spotHeld EXCEPT ![o] = TRUE]
    BY <1>3, PromoteFacts
  <2> QED
    BY <1>t, WiringKept, <1>3, <2>1 DEF Promote, Stages
<1>4. ASSUME NEW r \in Req, Enqueue(r)
      PROVE  Wiring'
  BY WiringKept, <1>4 DEF Enqueue, Stages
<1>5. ASSUME NEW r \in Req, GiveUp(r) \/ Finish(r)
      PROVE  Wiring'
  <2>1. /\ stage[r] # "new" /\ stage' = [stage EXCEPT ![r] = "done"]
        /\ UNCHANGED <<arrived, reqKey, sessOf, sessions, pollSet, fetchSet, tickTodo, spotHeld>>
    BY <1>5 DEF GiveUp, Finish, Release, Abandon
  <2> QED
    BY WiringKept, <2>1 DEF Stages
<1>6. ASSUME NEW o \in Obj, ReleaseSpot(o), pollSet' = pollSet, fetchSet' = fetchSet,
             tickTodo' \subseteq tickTodo
      PROVE  Wiring'
  <2>1. \A k \in Keys : sessions'[k] \in {sessions[k], NoObj}
    BY <1>t, <1>6 DEF ReleaseSpot
  <2>2. \A p \in Obj : spotHeld'[p] => spotHeld[p]
    BY <1>t, <1>6 DEF ReleaseSpot
  <2> QED
    BY WiringKept, <1>6, <2>1, <2>2 DEF ReleaseSpot
<1>7. ASSUME NEW k \in ManualKeys, ManualRelease(k)
      PROVE  Wiring'
  <2>1. sessions[k] \in Obj
    BY <1>t, <1>7, KeysAssumption DEF ManualRelease
  <2> QED
    BY <1>6, <1>7, <2>1 DEF ManualRelease
<1>8. CASE TickStep
  <2>1. PICK o \in tickTodo : tickTodo' = tickTodo \ {o} /\ TickSession(o)
    BY <1>8 DEF TickStep
  <2>2. o \in Obj
    BY <1>t
  <2>3. CASE ReleaseSpot(o)
    BY <1>6, <1>8, <2>1, <2>2, <2>3 DEF TickStep
  <2>4. CASE ~(spotHeld[o] /\ DeadlinePassed(o))
    <3>1. /\ \A k \in Keys : sessions'[k] \in {sessions[k], NoObj}
          /\ UNCHANGED <<arrived, reqKey, sessOf, stage, spotHeld, pollSet, fetchSet>>
      BY <1>t, <1>8, <2>1, <2>4 DEF TickStep, TickSession
    <3> QED
      BY WiringKept, <2>1, <3>1
  <2> QED
    BY <2>1, <2>3, <2>4 DEF TickSession
<1>9. CASE Wake \/ TickStart
  <2>1. /\ UNCHANGED <<arrived, reqKey, sessOf, stage, spotHeld, sessions>>
        /\ \A o \in pollSet' \cup fetchSet' \cup tickTodo' :
             o \in pollSet \cup fetchSet \cup tickTodo \/ \E k \in Keys : o = sessions[k] /\ o # NoObj
    BY <1>9 DEF Wake, TickStart
  <2> QED
    BY WiringKept, <2>1
<1>10. ASSUME NEW o \in Obj, \/ ResolveShared(o) \/ \E s \in Reports : Report(o, s)
       PROVE  Wiring'
  <2>1. /\ UNCHANGED <<arrived, reqKey, sessOf, stage, spotHeld, sessions, tickTodo>>
        /\ pollSet' \cup fetchSet' \subseteq pollSet \cup fetchSet
    BY <1>10 DEF ResolveShared, Report
  <2> QED
    BY WiringKept, <2>1
<1>11. CASE TickEnd \/ ManagerPromote \/ ReadinessFlip \/ Second \/ UNCHANGED vars
  <2>1. UNCHANGED <<arrived, reqKey, sessOf, stage, spotHeld, sessions, pollSet, fetchSet, tickTodo>>
    BY <1>11 DEF TickEnd, ManagerPromote, ReadinessFlip, Second, vars
  <2> QED
    BY WiringKept, <2>1
<1> QED
  BY <1>1, <1>3, <1>4, <1>5, <1>7, <1>8, <1>9, <1>10, <1>11 DEF Next, Manager

\* The deque holds the waiting requests, each once.
QueueExact ==
  /\ \A r \in InStage("waiting") : \E i \in 1..Len(queue) : queue[i] = r
  /\ \A i \in 1..Len(queue) : stage[queue[i]] = "waiting"
  /\ \A i, j \in 1..Len(queue) : queue[i] = queue[j] => i = j

\* It still does when an entry leaves it and stops waiting.
LEMMA QueueRemove ==
  ASSUME IInv, NEW i \in 1..Len(queue), NEW t \in Stages \ {"waiting"},
         queue' = RemoveAt(queue, i), stage' = [stage EXCEPT ![queue[i]] = t]
  PROVE  QueueExact'
<1>1. /\ queue \in Seq(Req) /\ Len(queue) \in Nat /\ stage \in [Req -> Stages]
      /\ \A j \in 1..Len(queue) : queue[j] \in Req
  BY DEF IInv, TypeOK
<1>2. QueueExact
  BY DEF IInv, SlotAccounting, QueueExact
<1>3. /\ Len(queue') = Len(queue) - 1
      /\ \A j \in 1..(Len(queue) - 1) : queue'[j] = IF j < i THEN queue[j] ELSE queue[j + 1]
  BY <1>1, RemoveAtFacts
<1>4. \A j \in 1..Len(queue') : \E l \in 1..Len(queue) :
         l # i /\ queue'[j] = queue[l] /\ l = IF j < i THEN j ELSE j + 1
  BY <1>1, <1>3
<1>5. ASSUME NEW r \in InStage("waiting")'
      PROVE  \E j \in 1..Len(queue') : queue'[j] = r
  <2>1. r \in InStage("waiting") /\ r # queue[i]
    BY <1>1, <1>5 DEF InStage
  <2>2. PICK l \in 1..Len(queue) : queue[l] = r
    BY <1>2, <2>1 DEF QueueExact
  <2>3. CASE l < i
    BY <1>1, <1>3, <2>2, <2>3
  <2>4. CASE l > i
    <3>1. l - 1 \in 1..(Len(queue) - 1) /\ ~(l - 1 < i) /\ (l - 1) + 1 = l
      BY <1>1, <2>4
    <3> QED
      BY <1>3, <2>2, <3>1
  <2> QED
    BY <1>1, <2>1, <2>2, <2>3, <2>4
<1>6. \A j \in 1..Len(queue') : stage'[queue'[j]] = "waiting"
  BY <1>1, <1>2, <1>4 DEF QueueExact
<1>7. ASSUME NEW j \in 1..Len(queue'), NEW l \in 1..Len(queue'), queue'[j] = queue'[l]
      PROVE  j = l
  <2>1. PICK m \in 1..Len(queue) : queue'[j] = queue[m] /\ m = IF j < i THEN j ELSE j + 1
    BY <1>4
  <2>2. PICK n \in 1..Len(queue) : queue'[l] = queue[n] /\ n = IF l < i THEN l ELSE l + 1
    BY <1>4
  <2>3. m = n
    <3>1. queue[m] = queue[n]
      BY <1>7, <2>1, <2>2
    <3> QED
      BY <1>2, <3>1 DEF QueueExact
  <2> QED
    BY <1>1, <1>3, <2>1, <2>2, <2>3
<1> QED
  BY <1>5, <1>6, <1>7 DEF QueueExact

\* Every counter moves with the requests it counts.
LEMMA AccountingStep ==
  ASSUME IInv, [Next]_vars
  PROVE  SlotAccounting'
<1>t. /\ Obj = Req /\ queue \in Seq(Req) /\ Len(queue) \in Nat
      /\ stage \in [Req -> Stages] /\ sessOf \in [Req -> Obj \cup {NoObj}]
      /\ inflight \in [Obj -> Nat] /\ waiting \in [Obj -> Nat] /\ inflightTotal \in Nat
  BY DEF IInv, TypeOK, Obj
<1>a. SlotAccounting /\ QueueExact
  BY DEF IInv, SlotAccounting, QueueExact
<1>ty. TypeOK
  BY DEF IInv
<1>s. {"admitting", "waiting", "inflight", "done", "open"} \subseteq Stages
  BY DEF Stages
<1>n. \A s, o : CountOf(stage, sessOf, s, o) \in Nat
  BY <1>ty, StagesFinite DEF CountOf, InStageOf
<1>c. /\ \A o \in Obj : /\ inflight[o] = CountOf(stage, sessOf, "inflight", o)
                                         + CountOf(stage, sessOf, "open", o)
                        /\ waiting[o] = CountOf(stage, sessOf, "waiting", o)
      /\ inflightTotal = Count(stage, "inflight")
  BY DEF IInv, SlotAccounting, Count, CountOf, InStage, InStageOf
<1>q. SlotAccounting' <=>
        /\ \A o \in Obj : /\ inflight'[o] = CountOf(stage', sessOf', "inflight", o)
                                           + CountOf(stage', sessOf', "open", o)
                          /\ waiting'[o] = CountOf(stage', sessOf', "waiting", o)
        /\ inflightTotal' = Count(stage', "inflight")
        /\ QueueExact'
  <2>1. /\ \A s : Count(stage', s) = Cardinality(InStage(s))'
        /\ \A s, o : CountOf(stage', sessOf', s, o) = Cardinality(InStageOf(s, o))'
    BY DEF Count, CountOf, InStage, InStageOf
  <2> QED
    BY <2>1 DEF SlotAccounting, QueueExact
<1>1. CASE Promote
  <2>1. PICK i \in 1..Len(queue), r \in Req, o \in Obj :
           /\ r = queue[i] /\ stage[r] = "waiting" /\ o = sessOf[r]
           /\ queue' = RemoveAt(queue, i)
           /\ stage' = [stage EXCEPT ![r] = "inflight"]
           /\ waiting' = [waiting EXCEPT ![o] = waiting[o] - 1]
           /\ inflight' = [inflight EXCEPT ![o] = inflight[o] + 1]
           /\ inflightTotal' = inflightTotal + 1
    BY <1>1, PromoteFacts
  <2>2. QueueExact'
    BY <2>1, QueueRemove DEF Stages
  <2>3. sessOf' = sessOf
    BY <1>1 DEF Promote
  <2>4. /\ Count(stage', "inflight") = Count(stage, "inflight") + 1
        /\ \A p \in Obj :
             /\ CountOf(stage', sessOf', "open", p) = CountOf(stage, sessOf, "open", p)
             /\ CountOf(stage', sessOf', "inflight", p) =
                  IF o = p THEN CountOf(stage, sessOf, "inflight", p) + 1
                  ELSE CountOf(stage, sessOf, "inflight", p)
             /\ CountOf(stage', sessOf', "waiting", p) =
                  IF o = p THEN CountOf(stage, sessOf, "waiting", p) - 1
                  ELSE CountOf(stage, sessOf, "waiting", p)
    <3>1. /\ stage[r] = "waiting" /\ sessOf' = sessOf /\ o = sessOf[r]
          /\ \A q \in Req : stage'[q] = IF q = r THEN "inflight" ELSE stage[q]
      BY <1>t, <2>1, <2>3
    <3> QED
      BY <1>ty, <1>s, <3>1, StageMove
  <2>5. \A p \in Obj : inflight'[p] = CountOf(stage', sessOf', "inflight", p) + CountOf(stage', sessOf', "open", p)
    <3> TAKE p \in Obj
    <3>1. /\ inflight'[p] = (IF o = p THEN inflight[p] + 1 ELSE inflight[p]) /\ inflight[p] \in Nat
          /\ inflight[p] = CountOf(stage, sessOf, "inflight", p) + CountOf(stage, sessOf, "open", p)
      BY <1>t, <1>c, <2>1
    <3>2. CountOf(stage, sessOf, "inflight", p) \in Nat /\ CountOf(stage, sessOf, "open", p) \in Nat
      BY <1>n
    <3>3. /\ CountOf(stage', sessOf', "inflight", p) =
               IF o = p THEN CountOf(stage, sessOf, "inflight", p) + 1
               ELSE CountOf(stage, sessOf, "inflight", p)
          /\ CountOf(stage', sessOf', "open", p) = CountOf(stage, sessOf, "open", p)
      BY <2>4
    <3> QED
      BY <3>1, <3>2, <3>3
  <2>6. /\ \A p \in Obj : waiting'[p] = CountOf(stage', sessOf', "waiting", p)
        /\ inflightTotal' = Count(stage', "inflight")
    BY <1>t, <1>c, <2>1, <2>4
  <2> QED
    BY <1>q, <2>2, <2>5, <2>6
<1>2. ASSUME NEW k \in Keys, Admit(k)
      PROVE  SlotAccounting'
  <2> DEFINE r == arrived + 1
  <2>1. /\ r \in Req /\ stage' = [stage EXCEPT ![r] = "admitting"]
        /\ \A p \in Req : p # r => sessOf'[p] = sessOf[p]
        /\ UNCHANGED <<queue, inflight, waiting, inflightTotal>>
    BY <1>t, <1>ty, <1>2, ArrivedFacts DEF Admit, counterVars, Req
  <2>2. stage[r] = "new"
    BY <2>1, ArrivedFacts DEF IInv, Wiring
  <2> HIDE DEF r
  <2>3. ASSUME NEW s \in {"inflight", "waiting", "open"}
        PROVE  /\ Count(stage', s) = Count(stage, s)
               /\ \A o \in Obj : CountOf(stage', sessOf', s, o) = CountOf(stage, sessOf, s, o)
    <3>1. /\ {q \in Req : stage'[q] = s} = {q \in Req : stage[q] = s}
          /\ \A o \in Obj : {q \in Req : stage'[q] = s /\ sessOf'[q] = o}
                             = {q \in Req : stage[q] = s /\ sessOf[q] = o}
      BY <1>t, <2>1, <2>2, <2>3
    <3> QED
      BY <3>1 DEF Count, CountOf
  <2>4. QueueExact'
    <3>1. InStage("waiting")' = InStage("waiting")
      BY <1>t, <2>1, <2>2 DEF InStage
    <3>2. \A i \in 1..Len(queue) : stage'[queue[i]] = "waiting"
      BY <1>t, <1>a, <2>1, <2>2 DEF QueueExact
    <3> QED
      BY <1>a, <2>1, <3>1, <3>2 DEF QueueExact
  <2> QED
    BY <1>c, <1>q, <2>1, <2>3, <2>4
<1>3. ASSUME NEW r \in Req, Enqueue(r)
      PROVE  SlotAccounting'
  <2>1. /\ stage[r] = "admitting" /\ stage' = [stage EXCEPT ![r] = "waiting"]
        /\ waiting' = [waiting EXCEPT ![sessOf[r]] = @ + 1]
        /\ queue' = Append(queue, r)
        /\ UNCHANGED <<sessOf, inflight, inflightTotal>>
    BY <1>3 DEF Enqueue
  <2>2. sessOf[r] \in Obj
    BY <2>1, RequestFacts
  <2>3. /\ Count(stage', "inflight") = Count(stage, "inflight")
        /\ \A p \in Obj :
             /\ CountOf(stage', sessOf', "open", p) = CountOf(stage, sessOf, "open", p)
             /\ CountOf(stage', sessOf', "inflight", p) = CountOf(stage, sessOf, "inflight", p)
             /\ CountOf(stage', sessOf', "waiting", p) =
                  IF sessOf[r] = p THEN CountOf(stage, sessOf, "waiting", p) + 1
                  ELSE CountOf(stage, sessOf, "waiting", p)
    <3>1. /\ stage[r] = "admitting" /\ sessOf' = sessOf /\ r \in Obj
          /\ \A q \in Req : stage'[q] = IF q = r THEN "waiting" ELSE stage[q]
      BY <1>t, <2>1
    <3> QED
      BY <1>ty, <1>s, <3>1, StageMove
  <2>4. QueueExact'
    <3>1. /\ Len(queue') = Len(queue) + 1 /\ queue'[Len(queue) + 1] = r
          /\ \A i \in 1..Len(queue) : queue'[i] = queue[i]
          /\ 1..(Len(queue) + 1) = 1..Len(queue) \cup {Len(queue) + 1}
      BY <1>t, <2>1
    <3>2. \A i \in 1..Len(queue) : queue[i] # r /\ queue[i] \in Req /\ i # Len(queue) + 1
      BY <1>t, <1>a, <2>1 DEF QueueExact
    <3>3. InStage("waiting")' = InStage("waiting") \cup {r}
      BY <1>t, <2>1 DEF InStage
    <3>4. \A p \in InStage("waiting")' : \E i \in 1..Len(queue') : queue'[i] = p
      BY <1>a, <3>1, <3>3 DEF QueueExact
    <3>5. \A i \in 1..Len(queue') : stage'[queue'[i]] = "waiting"
      <4>1. \A i \in 1..Len(queue) : stage'[queue'[i]] = "waiting"
        BY <1>t, <1>a, <2>1, <3>1, <3>2 DEF QueueExact
      <4>2. stage'[queue'[Len(queue) + 1]] = "waiting"
        BY <1>t, <2>1, <3>1
      <4> QED
        BY <3>1, <4>1, <4>2
    <3>6. \A i, j \in 1..Len(queue') : queue'[i] = queue'[j] => i = j
      BY <1>a, <3>1, <3>2 DEF QueueExact
    <3> QED
      BY <3>4, <3>5, <3>6 DEF QueueExact
  <2> QED
    BY <1>t, <1>c, <1>n, <1>q, <2>1, <2>2, <2>3, <2>4
<1>4. ASSUME NEW r \in Req, stage[r] = "inflight", Release(r)
      PROVE  SlotAccounting'
  <2>1. /\ stage' = [stage EXCEPT ![r] = "done"]
        /\ UNCHANGED <<queue, sessOf, waiting>>
    BY <1>4 DEF Release
  <2>2. sessOf[r] \in Obj
    BY <1>4, RequestFacts
  <2>3. inflight[sessOf[r]] > 0 /\ inflightTotal > 0
    <3>1. r \in InStageOf("inflight", sessOf[r]) /\ r \in InStage("inflight")
      BY <1>4 DEF InStageOf, InStage
    <3>2. /\ Cardinality(InStageOf("inflight", sessOf[r])) # 0
          /\ Cardinality(InStage("inflight")) # 0
      BY <1>ty, <3>1, StagesFinite, FS_EmptySet
    <3>3. /\ CountOf(stage, sessOf, "inflight", sessOf[r]) # 0
          /\ Count(stage, "inflight") # 0
      BY <3>2 DEF Count, CountOf, InStage, InStageOf
    <3>4. inflightTotal > 0
      BY <1>t, <1>c, <3>3
    <3>5. inflight[sessOf[r]] > 0
      BY <1>t, <1>c, <1>n, <2>2, <3>3
    <3> QED
      BY <3>4, <3>5
  <2>4. /\ inflight' = [inflight EXCEPT ![sessOf[r]] = @ - 1]
        /\ inflightTotal' = inflightTotal - 1
    BY <1>4, <1>t, <2>3 DEF Release, Longest
  <2>5. /\ Count(stage', "inflight") = Count(stage, "inflight") - 1
        /\ \A p \in Obj :
             /\ CountOf(stage', sessOf', "open", p) = CountOf(stage, sessOf, "open", p)
             /\ CountOf(stage', sessOf', "inflight", p) =
                  IF sessOf[r] = p THEN CountOf(stage, sessOf, "inflight", p) - 1
                  ELSE CountOf(stage, sessOf, "inflight", p)
             /\ CountOf(stage', sessOf', "waiting", p) = CountOf(stage, sessOf, "waiting", p)
    <3>1. /\ stage[r] = "inflight" /\ sessOf' = sessOf /\ r \in Obj
          /\ \A q \in Req : stage'[q] = IF q = r THEN "done" ELSE stage[q]
      BY <1>t, <1>4, <2>1
    <3> QED
      BY <1>ty, <1>s, <3>1, StageMove
  <2>6. QueueExact'
    <3>1. InStage("waiting")' = InStage("waiting")
      BY <1>t, <1>4, <2>1 DEF InStage
    <3>2. \A i \in 1..Len(queue) : stage'[queue[i]] = "waiting"
      BY <1>t, <1>a, <1>4, <2>1 DEF QueueExact
    <3> QED
      BY <1>a, <2>1, <3>1, <3>2 DEF QueueExact
  <2>7. \A p \in Obj : inflight'[p] = CountOf(stage', sessOf', "inflight", p) + CountOf(stage', sessOf', "open", p)
    <3> TAKE p \in Obj
    <3>1. /\ inflight'[p] = (IF sessOf[r] = p THEN inflight[p] - 1 ELSE inflight[p]) /\ inflight[p] \in Nat
          /\ inflight[p] = CountOf(stage, sessOf, "inflight", p) + CountOf(stage, sessOf, "open", p)
      BY <1>t, <1>c, <2>2, <2>4
    <3>2. CountOf(stage, sessOf, "inflight", p) \in Nat /\ CountOf(stage, sessOf, "open", p) \in Nat
      BY <1>n
    <3>3. /\ CountOf(stage', sessOf', "inflight", p) =
               IF sessOf[r] = p THEN CountOf(stage, sessOf, "inflight", p) - 1
               ELSE CountOf(stage, sessOf, "inflight", p)
          /\ CountOf(stage', sessOf', "open", p) = CountOf(stage, sessOf, "open", p)
      BY <2>5
    <3> QED
      BY <3>1, <3>2, <3>3
  <2>8. /\ \A p \in Obj : waiting'[p] = CountOf(stage', sessOf', "waiting", p)
        /\ inflightTotal' = Count(stage', "inflight")
    BY <1>t, <1>c, <2>1, <2>4, <2>5
  <2> QED
    BY <1>q, <2>6, <2>7, <2>8
<1>5. ASSUME NEW r \in Req, stage[r] = "waiting", Abandon(r)
      PROVE  SlotAccounting'
  <2>1. PICK i \in 1..Len(queue) : queue[i] = r /\ queue' = RemoveAt(queue, i)
    BY <1>5 DEF Abandon
  <2>2. /\ stage' = [stage EXCEPT ![r] = "done"]
        /\ UNCHANGED <<sessOf, inflight, inflightTotal>>
    BY <1>5 DEF Abandon
  <2>3. sessOf[r] \in Obj /\ waiting[sessOf[r]] >= 1
    BY <2>1, EntryFacts
  <2>4. waiting' = [waiting EXCEPT ![sessOf[r]] = @ - 1]
    <3>1. waiting' = [waiting EXCEPT ![sessOf[r]] = Longest(0, waiting[sessOf[r]] - 1)]
      BY <1>5 DEF Abandon
    <3>2. Longest(0, waiting[sessOf[r]] - 1) = waiting[sessOf[r]] - 1
      BY <1>t, <2>3 DEF Longest
    <3> QED
      BY <3>1, <3>2
  <2>5. QueueExact'
    BY <2>1, <2>2, QueueRemove DEF Stages
  <2>6. /\ Count(stage', "inflight") = Count(stage, "inflight")
        /\ \A p \in Obj :
             /\ CountOf(stage', sessOf', "open", p) = CountOf(stage, sessOf, "open", p)
             /\ CountOf(stage', sessOf', "inflight", p) = CountOf(stage, sessOf, "inflight", p)
             /\ CountOf(stage', sessOf', "waiting", p) =
                  IF sessOf[r] = p THEN CountOf(stage, sessOf, "waiting", p) - 1
                  ELSE CountOf(stage, sessOf, "waiting", p)
    <3>1. /\ stage[r] = "waiting" /\ sessOf' = sessOf /\ r \in Obj
          /\ \A q \in Req : stage'[q] = IF q = r THEN "done" ELSE stage[q]
      BY <1>t, <1>5, <2>2
    <3> QED
      BY <1>ty, <1>s, <3>1, StageMove
  <2> QED
    BY <1>t, <1>c, <1>n, <1>q, <2>2, <2>3, <2>4, <2>5, <2>6
<1>6. CASE UNCHANGED <<queue, inflight, waiting, inflightTotal, stage, sessOf>>
  <2>1. QueueExact'
    BY <1>a, <1>6 DEF QueueExact, InStage
  <2> QED
    BY <1>c, <1>q, <1>6, <2>1
<1> QED
  BY <1>1, <1>2, <1>3, <1>4, <1>5, <1>6, StepCases
     DEF ReleaseSpot, Quiet, counterVars, requestVars

-----------------------------------------------------------------------------
(* The theorems *)

\* A freshly constructed endpoint satisfies the invariant.
LEMMA InitIInv == Init => IInv /\ SpotHolder
<1> SUFFICES ASSUME Init PROVE IInv /\ SpotHolder
  OBVIOUS
<1> USE DEF Init
<1>1. TypeOK
  <2>1. NewInfo \in Info
    BY HorizonNat DEF Info, NewInfo
  <2>2. 0 \in 0..MaxLag /\ 0 \in 0..MaxRequests
    BY LimitsAssumption, TimesAssumption
  <2>3. queue \in Seq(Req) /\ sessions \in [Keys -> Obj \cup {NoObj}]
        /\ inflight \in [Obj -> Nat] /\ waiting \in [Obj -> Nat] /\ spotHeld \in [Obj -> BOOLEAN]
    OBVIOUS
  <2>4. /\ info \in [Obj -> Info] /\ reqKey \in [Req -> Keys \cup {NoKey}]
        /\ sessOf \in [Req -> Obj \cup {NoObj}]
    BY <2>1
  <2>5. stage \in [Req -> Stages]
    BY DEF Stages
  <2>6. arrived \in 0..MaxRequests /\ mgrAge \in 0..MaxLag
    BY <2>2
  <2> QED
    BY <2>3, <2>4, <2>5, <2>6 DEF TypeOK
<1>2. Wiring
  BY LimitsAssumption DEF Wiring, Req, Obj, NoObj
<1>3. \A s \in {"inflight", "waiting", "open"}, o \in Obj :
        Cardinality(InStage(s)) = 0 /\ Cardinality(InStageOf(s, o)) = 0
  <2>1. \A s \in {"inflight", "waiting", "open"}, o \in Obj : InStage(s) = {} /\ InStageOf(s, o) = {}
    BY DEF InStage, InStageOf
  <2> QED
    BY <2>1, FS_EmptySet
<1>4. SlotAccounting
  <2>1. InStage("inflight") = {} /\ InStage("waiting") = {}
    BY DEF InStage
  <2>2. Cardinality(InStage("inflight")) = 0
    BY <2>1, FS_EmptySet
  <2> QED
    BY <1>3, <2>1, <2>2 DEF SlotAccounting
<1>5. SpotHolder
  BY DEF SpotHolder
<1>6. SpotsBounded
  BY FS_EmptySet, LimitsAssumption DEF SpotsBounded
<1>7. AtomicExclusion
  BY DEF AtomicExclusion, InStage
<1> QED
  BY <1>1, <1>2, <1>4, <1>5, <1>6, <1>7 DEF IInv

\* The inductive invariant holds in every reachable state: no interleaving of
\* admissions, promotions, disconnects, completions, polls, ticks and manual
\* releases breaks it.
THEOREM Invariance == Spec => []IInv
<1>1. IInv /\ [Next]_vars => IInv'
  BY TypeStep, WiringStep, AccountingStep, BoundStep, AtomicStep DEF IInv
<1> QED
  BY <1>1, InitIInv, PTL DEF Spec

\* Every variable of the queue, the admissions and the manager stays in its
\* type; in particular no counter of queue.py ever goes negative.
THEOREM TypeCorrect == Spec => []TypeOK
<1>1. IInv => TypeOK
  BY DEF IInv
<1> QED
  BY <1>1, Invariance, PTL

\* The counters _eligible, tick and has_activity decide from are exact, and
\* the deque holds each waiting request exactly once (enqueue, _try_promote,
\* abandon and release taken together).
THEOREM AccountingCorrect == Spec => []SlotAccounting
<1>1. IInv => SlotAccounting
  BY DEF IInv
<1> QED
  BY <1>1, Invariance, PTL

\* The spots dict and the spot_held flags never disagree, and no two Session
\* objects hold one spot, although two may exist for one key.
THEOREM SpotHolderCorrect == Spec => []SpotHolder
<1>1. IInv /\ SpotHolder /\ [Next]_vars => SpotHolder'
  BY HolderStep
<1> QED
  BY <1>1, InitIInv, Invariance, PTL DEF Spec

\* _try_promote never hands out more spots than max_spots.
THEOREM SpotsBoundedCorrect == Spec => []SpotsBounded
<1>1. IInv => SpotsBounded
  BY DEF IInv
<1> QED
  BY <1>1, Invariance, PTL

\* request_mode "atomic" (queue.py, _eligible): never two requests of the
\* endpoint in flight.
THEOREM AtomicCorrect == Spec => []AtomicExclusion
<1>1. IInv => AtomicExclusion
  BY DEF IInv
<1> QED
  BY <1>1, Invariance, PTL

-----------------------------------------------------------------------------
(* The queue implements the abstract pool *)

\* The pool's view of all requests.
PhaseBar == [r \in Req |-> Phase(stage[r])]

\* A request that changes stage changes phase, alone.
LEMMA PhaseMove ==
  ASSUME TypeOK, NEW r \in Req, NEW t, stage' = [stage EXCEPT ![r] = t]
  PROVE  PhaseBar' = [PhaseBar EXCEPT ![r] = Phase(t)]
<1>1. \A q \in Req : stage'[q] = IF q = r THEN t ELSE stage[q]
  BY DEF TypeOK
<1>2. PhaseBar' = [q \in Req |-> Phase(stage'[q])]
  BY DEF PhaseBar
<1>3. \A q \in Req : Phase(stage'[q]) = IF q = r THEN Phase(t) ELSE Phase(stage[q])
  BY <1>1
<1> QED
  BY <1>2, <1>3 DEF PhaseBar

\* The spots can be counted.
LEMMA SpotsFinite ==
  ASSUME TypeOK
  PROVE  IsFiniteSet(spots) /\ Cardinality(spots) \in Nat
BY KeysAssumption, FS_Subset, FS_CardinalityType DEF TypeOK

\* The phase of each stage.
LEMMA Phases ==
  /\ Phase("new") = "new" /\ Phase("admitting") = "waiting" /\ Phase("waiting") = "waiting"
  /\ Phase("inflight") = "running" /\ Phase("done") = "done"
BY DEF Phase

\* An iteration of _try_promote starts a request of the pool.
LEMMA PromoteStarts ==
  ASSUME IInv, Promote
  PROVE  \E r \in Req : Pool!Start(r)
<1>1. PICK r \in Req, o \in Obj :
        /\ stage[r] = "waiting" /\ o = sessOf[r] /\ Eligible(r)
        /\ stage' = [stage EXCEPT ![r] = "inflight"]
        /\ \/ SpotKey(o) = NoKey /\ spots' = spots \cup {reqKey[o]}
           \/ SpotKey(o) # NoKey /\ spots' = spots
  BY PromoteFacts
<1>2. reqKey[o] = reqKey[r] /\ reqKey[r] \in Keys
  BY <1>1, RequestFacts
<1>3. Pool!Moves(r, "waiting", "running")
  <2>1. PhaseBar' = [PhaseBar EXCEPT ![r] = Phase("inflight")]
    BY <1>1, PhaseMove DEF IInv
  <2>2. PhaseBar' = [PhaseBar EXCEPT ![r] = "running"] /\ PhaseBar[r] = "waiting"
    BY <1>1, <2>1, Phases DEF PhaseBar
  <2> QED
    BY <2>2 DEF Pool!Moves, PhaseBar
<1>4. Atomic => Pool!Running = {}
  <2> SUFFICES ASSUME Atomic
               PROVE  Pool!Running = {}
    OBVIOUS
  <2>1. inflightTotal = 0
    BY <1>1 DEF Eligible, IInv, TypeOK
  <2>2. InStage("inflight") = {}
    BY <2>1, StagesFinite, FS_EmptySet DEF IInv, SlotAccounting
  <2>3. \A q \in Req : stage[q] # "inflight" /\ stage[q] \in Stages
    BY <2>2 DEF InStage, IInv, TypeOK
  <2>4. \A q \in Req : Phase(stage[q]) # "running"
    BY <2>3 DEF Phase, Stages
  <2> QED
    BY <2>4 DEF Pool!Running
<1>5. \/ Pool!TakeSpot(reqKey[r])
      \/ spots # {} /\ UNCHANGED spots
  <2>0. IsFiniteSet(spots) /\ Cardinality(spots) \in Nat /\ MaxSpots \in Nat
    BY SpotsFinite, LimitsAssumption DEF IInv
  <2>1. CASE SpotKey(o) = NoKey /\ spots' = spots \cup {reqKey[o]}
    <3>1. Cardinality(spots) < MaxSpots
      BY <1>1, <2>1 DEF Eligible
    <3>2. reqKey[r] \notin spots
      BY <1>2, <2>1, KeysAssumption DEF SpotKey
    <3>3. spots' = spots \cup {reqKey[r]}
      BY <1>2, <2>1
    <3>4. Cardinality(spots') = Cardinality(spots) + 1
      BY <2>0, <3>2, <3>3, FS_AddElement
    <3>5. /\ MaxSpots - Cardinality(spots) > 0
          /\ MaxSpots - Cardinality(spots') = (MaxSpots - Cardinality(spots)) - 1
      BY <2>0, <3>1, <3>4
    <3> QED
      BY <3>2, <3>3, <3>5 DEF Pool!TakeSpot
  <2>2. CASE SpotKey(o) # NoKey /\ spots' = spots
    BY <2>2 DEF SpotKey
  <2> QED
    BY <1>1, <2>1, <2>2
<1>6. UNCHANGED reqKey
  BY DEF Promote
<1> QED
  BY <1>3, <1>4, <1>5, <1>6 DEF Pool!Start

\* Every step of the queue is a step of the pool or leaves it alone.
LEMMA PoolStep ==
  ASSUME IInv, SpotHolder, [Next]_vars
  PROVE  [Pool!PoolNext]_(Pool!poolVars)
<1>t. TypeOK
  BY DEF IInv
<1>1. CASE Promote
  BY <1>1, PromoteStarts DEF Pool!PoolNext
<1>2. ASSUME NEW k \in Keys, Admit(k)
      PROVE  Pool!PoolNext
  <2> DEFINE r == arrived + 1
  <2>1. r \in Req /\ stage[r] = "new"
    BY <1>t, <1>2, ArrivedFacts DEF Admit, Req, IInv, Wiring
  <2>a. PhaseBar' = [PhaseBar EXCEPT ![r] = Phase("admitting")]
    BY <1>t, <1>2, <2>1, PhaseMove DEF Admit
  <2>2. PhaseBar' = [PhaseBar EXCEPT ![r] = "waiting"] /\ PhaseBar[r] = "new"
    BY <2>a, <1>2, <2>1, Phases DEF PhaseBar, Admit
  <2>3. Pool!Arrive(r, k)
    BY <1>2, <2>2 DEF Pool!Arrive, Pool!Moves, PhaseBar, Admit
  <2> QED
    BY <2>1, <2>3 DEF Pool!PoolNext
<1>3. ASSUME NEW r \in Req, Enqueue(r)
      PROVE  UNCHANGED Pool!poolVars
  <2>a. PhaseBar' = [PhaseBar EXCEPT ![r] = Phase("waiting")]
    BY <1>t, <1>3, PhaseMove DEF Enqueue
  <2>1. PhaseBar' = [PhaseBar EXCEPT ![r] = "waiting"] /\ PhaseBar[r] = "waiting"
    BY <2>a, <1>3, Phases DEF PhaseBar, Enqueue
  <2>2. PhaseBar' = PhaseBar
    BY <2>1 DEF PhaseBar
  <2> QED
    BY <1>3, <2>2 DEF Pool!poolVars, PhaseBar, Enqueue
<1>4. ASSUME NEW r \in Req, stage[r] = "inflight", Release(r)
      PROVE  Pool!PoolNext
  <2>a. PhaseBar' = [PhaseBar EXCEPT ![r] = Phase("done")]
    BY <1>t, <1>4, PhaseMove DEF Release
  <2>1. PhaseBar' = [PhaseBar EXCEPT ![r] = "done"] /\ PhaseBar[r] = "running"
    BY <2>a, <1>4, Phases DEF PhaseBar, Release
  <2>2. Pool!End(r)
    BY <1>4, <2>1 DEF Pool!End, Pool!Moves, PhaseBar, Release
  <2> QED
    BY <2>2 DEF Pool!PoolNext
<1>5. ASSUME NEW r \in Req, stage[r] = "waiting", Abandon(r)
      PROVE  Pool!PoolNext
  <2>a. PhaseBar' = [PhaseBar EXCEPT ![r] = Phase("done")]
    BY <1>t, <1>5, PhaseMove DEF Abandon
  <2>1. PhaseBar' = [PhaseBar EXCEPT ![r] = "done"] /\ PhaseBar[r] = "waiting"
    BY <2>a, <1>5, Phases DEF PhaseBar, Abandon
  <2>2. Pool!Leave(r)
    BY <1>5, <2>1 DEF Pool!Leave, Pool!Moves, PhaseBar, Abandon
  <2> QED
    BY <2>2 DEF Pool!PoolNext
<1>6. ASSUME NEW o \in Obj, spotHeld[o], ReleaseSpot(o)
      PROVE  Pool!PoolNext
  <2>1. reqKey[o] \in spots /\ reqKey[o] \in Keys
    BY <1>t, <1>6 DEF IInv, SpotHolder, TypeOK
  <2>2. spots' = spots \ {reqKey[o]} /\ UNCHANGED <<stage, reqKey>>
    BY <1>6 DEF ReleaseSpot, requestVars
  <2>3. Cardinality(spots') = Cardinality(spots) - 1 /\ Cardinality(spots) \in Nat
    BY <1>t, <2>1, <2>2, SpotsFinite, FS_RemoveElement
  <2>4. MaxSpots - Cardinality(spots') = (MaxSpots - Cardinality(spots)) + 1
    BY <2>3, LimitsAssumption
  <2>5. Pool!Surrender(reqKey[o])
    BY <2>1, <2>2, <2>4 DEF Pool!Surrender
  <2> QED
    BY <2>1, <2>5 DEF Pool!PoolNext
<1>7. CASE Quiet
  BY <1>7 DEF Quiet, Pool!poolVars, requestVars
<1> QED
  BY <1>1, <1>2, <1>3, <1>4, <1>5, <1>6, <1>7, StepCases

\* relay's endpoint queue implements SlotPool: the deque, the counters, the
\* promotion loop and the manager add nothing to, and take nothing from, what
\* the pool promises of spots and requests.
THEOREM Implementation == Spec => PoolImplemented
<1>1. Init => Pool!PoolInit
  BY Phases, FS_EmptySet, LimitsAssumption DEF Init, Pool!PoolInit
<1>2. IInv /\ SpotHolder /\ [Next]_vars => [Pool!PoolNext]_(Pool!poolVars)
  BY PoolStep
<1> QED
  BY <1>1, <1>2, Invariance, SpotHolderCorrect, PTL DEF Spec, PoolImplemented, Pool!PoolSpec

-----------------------------------------------------------------------------
(* The queue implements the server's view of it *)

\* The promotion loop runs only while the endpoint is ready: no probe resumes
\* inside it.
PromotesReady == ready \in BOOLEAN /\ (promoting => ready)

LEMMA PromotesReadyStep ==
  ASSUME PromotesReady, [Next]_vars
  PROVE  PromotesReady'
<1> USE DEF queueVars, managerVars
<1>1. ASSUME UNCHANGED ready, promoting' = promoting \/ promoting' = CanPromote' \/ promoting' = CanPromote
      PROVE  PromotesReady'
  <2>1. (CanPromote => ready) /\ (CanPromote' => ready')
    BY DEF CanPromote
  <2>2. ready' = ready /\ ready' \in BOOLEAN /\ (promoting => ready)
    BY <1>1 DEF PromotesReady
  <2>3. promoting' => ready'
    <3>1. CASE promoting' = promoting
      BY <2>2, <3>1
    <3>2. CASE promoting' = CanPromote'
      BY <2>1, <3>2
    <3>3. CASE promoting' = CanPromote
      BY <2>1, <2>2, <3>3
    <3> QED
      BY <1>1, <3>1, <3>2, <3>3
  <2> QED
    BY <2>2, <2>3 DEF PromotesReady
<1>2. CASE Promote \/ TickEnd \/ ManagerPromote \/ Wake \/ TickStart \/ Second \/ UNCHANGED vars
  BY <1>1, <1>2 DEF Promote, TickEnd, ManagerPromote, Wake, TickStart, Second, vars
<1>3. ASSUME NEW r \in Req, Enqueue(r) \/ GiveUp(r) \/ Finish(r) PROVE PromotesReady'
  BY <1>1, <1>3 DEF Enqueue, GiveUp, Finish, Release, Abandon
<1>4. ASSUME NEW k \in Keys, Admit(k) \/ ManualRelease(k) PROVE PromotesReady'
  BY <1>1, <1>4 DEF Admit, ManualRelease, ReleaseSpot
<1>5. ASSUME NEW o \in Obj, ResolveShared(o) \/ \E s \in Reports : Report(o, s) PROVE PromotesReady'
  BY <1>1, <1>5 DEF ResolveShared, Report
<1>6. CASE TickStep
  BY <1>1, <1>6 DEF TickStep, TickSession, ReleaseSpot
<1>7. CASE ReadinessFlip
  BY <1>7 DEF ReadinessFlip, LoopFree, PromotesReady
<1> QED
  BY <1>2, <1>3, <1>4, <1>5, <1>6, <1>7, KeysAssumption DEF Next, Manager

\* A step that touches the queue or the spots leaves readiness alone.
LEMMA ReadyApart ==
  ASSUME [Next]_vars, ready' # ready
  PROVE  ReadinessFlip
<1> USE DEF queueVars, managerVars
<1>1. ~(Promote \/ TickEnd \/ ManagerPromote \/ Wake \/ TickStart \/ Second \/ UNCHANGED vars)
  BY DEF Promote, TickEnd, ManagerPromote, Wake, TickStart, Second, vars
<1>2. ASSUME NEW r \in Req, Enqueue(r) \/ GiveUp(r) \/ Finish(r) PROVE FALSE
  BY <1>2 DEF Enqueue, GiveUp, Finish, Release, Abandon
<1>3. ASSUME NEW k \in Keys, Admit(k) \/ ManualRelease(k) PROVE FALSE
  BY <1>3 DEF Admit, ManualRelease, ReleaseSpot
<1>4. ASSUME NEW o \in Obj, ResolveShared(o) \/ \E s \in Reports : Report(o, s) PROVE FALSE
  BY <1>4 DEF ResolveShared, Report
<1>5. ~TickStep
  BY DEF TickStep, TickSession, ReleaseSpot
<1> QED
  BY <1>1, <1>2, <1>3, <1>4, <1>5, KeysAssumption DEF Next, Manager

\* Every step of the queue is a step of the workload or leaves it alone.
LEMMA WorkloadStep ==
  ASSUME IInv, PromotesReady, [Next]_vars
  PROVE  [Load!WorkloadNext]_(Load!workload)
<1> USE DEF Load!workload
<1>t. TypeOK /\ queue \in Seq(Req)
  BY DEF IInv, TypeOK
<1>1. CASE ready' # ready
  <2>1. ReadinessFlip
    BY <1>1, ReadyApart
  <2>2. UNCHANGED <<queue, spots>> /\ ready' \in BOOLEAN \ {ready}
    BY <2>1 DEF ReadinessFlip, PromotesReady
  <2>3. (queue' # <<>>) = (queue # <<>>) /\ (spots' # {}) = (spots # {})
    BY <2>2
  <2> QED
    BY <2>2, <2>3 DEF Load!WorkloadNext, Load!Probe
<1>2. CASE ready' = ready
  \* The last entry leaves.
  <2>1. ASSUME spots' = spots, queue # <<>>
        PROVE  Load!End \/ UNCHANGED Load!workload
    <3>1. CASE queue' = <<>>
      BY <1>2, <2>1, <3>1 DEF Load!End
    <3>2. CASE queue' # <<>>
      BY <1>2, <2>1, <3>2
    <3> QED
      BY <3>1, <3>2
  \* A spot is given back.
  <2>2. ASSUME spots' \subseteq spots, queue' = queue
        PROVE  Load!End \/ UNCHANGED Load!workload
    <3>1. (queue' # <<>>) = (queue # <<>>)
      BY <2>2
    <3>2. CASE spots # {} /\ spots' = {}
      BY <1>2, <3>1, <3>2 DEF Load!End
    <3>3. CASE (spots' # {}) = (spots # {})
      BY <1>2, <3>1, <3>3
    <3>4. spots = {} => spots' = {}
      BY <2>2
    <3> QED
      BY <3>2, <3>3, <3>4
  <2>3. CASE Promote
    <3>1. PICK i \in 1..Len(queue), o \in Obj :
            \/ SpotKey(o) = NoKey /\ spots' = spots \cup {reqKey[o]}
            \/ SpotKey(o) # NoKey /\ spots' = spots
      BY <2>3, PromoteFacts
    <3>2. spots' # {}
      BY <3>1 DEF SpotKey
    <3>3. queue # <<>> /\ ready
      BY <1>t, <2>3, <3>1 DEF Promote, PromotesReady
    <3>4. (queue' # <<>>) \in BOOLEAN /\ (spots' # {}) = TRUE
      BY <3>2
    <3>5. Load!Start
      BY <1>2, <3>3, <3>4 DEF Load!Start
    <3> QED
      BY <3>5 DEF Load!WorkloadNext
  <2>4. ASSUME NEW r \in Req, Enqueue(r) PROVE Load!Arrive
    <3>1. queue' = Append(queue, r) /\ spots' = spots
      BY <2>4 DEF Enqueue
    <3>2. (queue' # <<>>) = TRUE /\ (spots' # {}) = (spots # {})
      BY <1>t, <3>1
    <3> QED
      BY <1>2, <3>2 DEF Load!Arrive
  <2>5. ASSUME NEW k \in Keys, Admit(k) PROVE UNCHANGED <<spots, queue>>
    BY <2>5 DEF Admit
  <2>6. ASSUME NEW r \in Req, Release(r) PROVE UNCHANGED <<spots, queue>>
    BY <2>6 DEF Release
  <2>7. ASSUME NEW r \in Req, Abandon(r) PROVE spots' = spots /\ queue # <<>>
    BY <1>t, <2>7 DEF Abandon
  <2>8. ASSUME NEW o \in Obj, ReleaseSpot(o) PROVE spots' \subseteq spots /\ queue' = queue
    BY <2>8 DEF ReleaseSpot
  <2>9. Quiet => UNCHANGED <<spots, queue>>
    BY DEF Quiet
  <2> QED
    BY <2>1, <2>2, <2>3, <2>4, <2>5, <2>6, <2>7, <2>8, <2>9, StepCases DEF Load!WorkloadNext
<1> QED
  BY <1>1, <1>2

\* relay's endpoint queue implements Workload: what waits and what holds spots,
\* as the server sees them, come and go as they do there; in particular the
\* first spot is taken only while the endpoint is ready.  These are the steps
\* ServerRuntime takes for the requests of its queued endpoints.
THEOREM WorkloadImplementation == Spec => WorkloadImplemented
<1>1. Init => Load!WorkloadInit /\ PromotesReady
  BY DEF Init, Load!WorkloadInit, PromotesReady
<1>2. IInv /\ PromotesReady /\ [Next]_vars => PromotesReady' /\ [Load!WorkloadNext]_(Load!workload)
  BY WorkloadStep, PromotesReadyStep
<1> QED
  BY <1>1, <1>2, Invariance, PTL DEF Spec, WorkloadImplemented, Load!WorkloadSpec

=============================================================================
