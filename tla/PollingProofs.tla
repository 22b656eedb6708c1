--------------------------- MODULE PollingProofs ---------------------------
(***************************************************************************)
(* StatusPolling for every set of endpoints and sessions, every parent     *)
(* relation (cyclic ones included), every depth and every interval.        *)
(***************************************************************************)
EXTENDS StatusPolling, NaturalsInduction, WellFoundedInduction, TLAPS

-----------------------------------------------------------------------------
(* Induction, for a set of numbers *)

\* The least-number principle.
LEMMA Smallest ==
  ASSUME NEW T \in SUBSET Nat, T # {}
  PROVE  \E n \in T : \A m \in T : n <= m
<1>1. PICK n \in T : \A m \in T : <<m, n>> \notin OpToRel(<, Nat)
  BY WFMin, NatLessThanWellFounded, Zenon
<1>2. \A m \in T : ~(m < n)
  BY <1>1, Zenon DEF OpToRel
<1> QED
  BY <1>2

\* A set that has 0 and, with each number, the next one, has all of them.
LEMMA SetInduction ==
  ASSUME NEW S, 0 \in S, \A n \in Nat : n \in S => n + 1 \in S
  PROVE  \A n \in Nat : n \in S
<1> DEFINE T == Nat \ S
<1> SUFFICES ASSUME T # {}
             PROVE  FALSE
  OBVIOUS
<1>1. PICK n \in T : \A m \in T : n <= m
  BY Smallest
<1>2. n \in Nat /\ n # 0 /\ n - 1 \in Nat /\ n - 1 \notin T
  BY <1>1
<1> QED
  BY <1>1, <1>2

-----------------------------------------------------------------------------
(* The parent chain *)

\* One node of the walk, from the ones before it.
Node(i, known, f, n) ==
  IF n = 0 THEN i
  ELSE IF f[n - 1] \in known /\ Parent[f[n - 1]] \notin {f[m] : m \in 0..(n - 1)}
       THEN Parent[f[n - 1]]
       ELSE NoId

\* The walk of resolve_shared_spot is defined for every depth.
LEMMA WalkExists ==
  ASSUME NEW i, NEW known
  PROVE  \A d \in Nat : \E f : f = [n \in 0..d |-> Node(i, known, f, n)]
<1> DEFINE S == {d \in Nat : \E f : f = [n \in 0..d |-> Node(i, known, f, n)]}
<1>1. 0 \in S
  <2> DEFINE f == [n \in 0..0 |-> i]
  <2>1. \A n \in 0..0 : n = 0
    OBVIOUS
  <2>2. f = [n \in 0..0 |-> Node(i, known, f, n)]
    BY <2>1 DEF Node
  <2> QED
    BY <2>2
<1>2. ASSUME NEW d \in Nat, d \in S
      PROVE  d + 1 \in S
  <2>1. PICK f : f = [n \in 0..d |-> Node(i, known, f, n)]
    BY <1>2
  <2> DEFINE last == Node(i, known, f, d + 1)
             g == [n \in 0..(d + 1) |-> IF n = d + 1 THEN last ELSE f[n]]
  <2>2. \A n \in 0..d : g[n] = f[n]
    OBVIOUS
  <2>3. \A n \in 0..(d + 1) : Node(i, known, g, n) = Node(i, known, f, n)
    <3> SUFFICES ASSUME NEW n \in 0..(d + 1), n # 0
                 PROVE  Node(i, known, g, n) = Node(i, known, f, n)
      BY DEF Node
    <3>1. n - 1 \in 0..d /\ 0..(n - 1) \subseteq 0..d
      OBVIOUS
    <3> HIDE DEF g, last
    <3>2. g[n - 1] = f[n - 1] /\ {g[m] : m \in 0..(n - 1)} = {f[m] : m \in 0..(n - 1)}
      BY <2>2, <3>1
    <3> QED
      BY <3>2 DEF Node
  <2>4. \A n \in 0..d : f[n] = Node(i, known, f, n)
    BY <2>1
  <2>5. g = [n \in 0..(d + 1) |-> Node(i, known, f, n)]
    <3>1. \A n \in 0..(d + 1) : n = d + 1 \/ n \in 0..d
      OBVIOUS
    <3> HIDE DEF last
    <3>2. \A n \in 0..(d + 1) : (IF n = d + 1 THEN last ELSE f[n]) = Node(i, known, f, n)
      BY <2>4, <3>1 DEF last
    <3> QED
      BY <3>2
  <2> HIDE DEF g
  <2>6. g = [n \in 0..(d + 1) |-> Node(i, known, g, n)]
    BY <2>3, <2>5
  <2> QED
    BY <2>6
<1> HIDE DEF S
<1>3. \A d \in Nat : d \in S
  BY <1>1, <1>2, SetInduction
<1> QED
  BY <1>3 DEF S

\* The walk, node by node.
LEMMA ChainNodes ==
  ASSUME NEW i, NEW known, NEW n \in 0..Depth
  PROVE  Chain(i, known)[n] = Node(i, known, Chain(i, known), n)
<1> DEFINE P(f) == f = [m \in 0..Depth |-> Node(i, known, f, m)]
<1>1. \E f : P(f)
  <2>1. Depth \in Nat
    BY PollingTimes
  <2> QED
    BY <2>1, WalkExists, Zenon
<1>2. Chain(i, known) = CHOOSE f : P(f)
  BY DEF Chain, Node
<1>3. P(Chain(i, known))
  BY <1>1, <1>2
<1> QED
  BY <1>3

\* The ancestor at which the walk of resolve_shared_spot ends, if it finds one,
\* is tracked, is not the session it started from, and lies above it.
LEMMA WalkEnds ==
  ASSUME NEW i \in Ids, NEW known, NEW present \in SUBSET Ids, NEW spots \in SUBSET Ids,
         NEW sharing \in [Ids -> Ids \cup {NoId}]
  PROVE  \/ SharedSpot(i, known, present, spots, sharing) = NoId
         \/ \E n \in 1..Depth :
              LET ancestor == Chain(i, known)[n] IN
              /\ ancestor \in present /\ ancestor # i
              /\ \/ SharedSpot(i, known, present, spots, sharing) = ancestor
                 \/ /\ SharedSpot(i, known, present, spots, sharing) = sharing[ancestor]
                    /\ sharing[ancestor] \in spots
<1> DEFINE up == Chain(i, known)
           hits == {n \in 1..Depth : up[n] \in present}
           first == CHOOSE n \in hits : \A m \in hits : n <= m
<1>1. CASE hits = {}
  BY <1>1 DEF SharedSpot
<1>2. CASE hits # {}
  <2>1. hits \in SUBSET Nat
    OBVIOUS
  <2>2. first \in hits
    <3> HIDE DEF hits
    <3>1. \E n \in hits : \A m \in hits : n <= m
      BY <1>2, <2>1, Smallest
    <3> QED
      BY <3>1
  <2>3. SharedSpot(i, known, present, spots, sharing) =
          IF up[first] \notin spots /\ sharing[up[first]] \in spots THEN sharing[up[first]]
          ELSE up[first]
    BY <1>2 DEF SharedSpot
  <2> HIDE DEF first
  <2>4. first \in 1..Depth /\ first \in 0..Depth /\ 0 \in 0..Depth /\ up[first] \in present
    BY <2>2, PollingTimes
  <2>5. up[0] = i
    BY <2>4, ChainNodes DEF Node
  <2>6. up[first] \notin {up[m] : m \in 0..(first - 1)}
    <3>1. up[first] = Node(i, known, up, first)
      BY <2>4, ChainNodes
    <3> HIDE DEF up
    <3>2. up[first] # NoId
      BY <2>4, PollingClient
    <3> QED
      BY <2>4, <3>1, <3>2 DEF Node
  <2>7. 0 \in 0..(first - 1)
    BY <2>4, PollingTimes
  <2>8. up[first] # i
    BY <2>5, <2>6, <2>7
  <2> QED
    BY <2>3, <2>4, <2>8
<1> QED
  BY <1>1, <1>2

\* The sessions of `family` have no parents outside it.
Closed(family) == \A j \in family : Parent[j] \in family \cup {NoId}

\* The walk never leaves such a family.
LEMMA WalkInFamily ==
  ASSUME NEW family \in SUBSET Ids, Closed(family), NEW i \in family, NEW known \in SUBSET Ids
  PROVE  \A n \in 0..Depth : Chain(i, known)[n] \in family \cup {NoId}
<1> DEFINE up == Chain(i, known)
           S == {n \in Nat : n \in 0..Depth => up[n] \in family \cup {NoId}}
<1>n. \A n \in 0..Depth : up[n] = Node(i, known, up, n)
  BY ChainNodes
<1> HIDE DEF up
<1>1. 0 \in S
  BY <1>n DEF Node
<1>2. ASSUME NEW n \in Nat, n \in S
      PROVE  n + 1 \in S
  <2> SUFFICES ASSUME n + 1 \in 0..Depth
               PROVE  up[n + 1] \in family \cup {NoId}
    OBVIOUS
  <2>1. n \in 0..Depth /\ n + 1 # 0 /\ (n + 1) - 1 = n
    BY PollingTimes
  <2>2. up[n] \in family \cup {NoId}
    BY <1>2, <2>1
  <2>3. up[n + 1] = NoId \/ (up[n] \in known /\ up[n + 1] = Parent[up[n]])
    BY <1>n, <2>1 DEF Node
  <2>4. up[n] \in known => up[n] \in family
    BY <2>2, PollingClient
  <2> QED
    BY <2>3, <2>4 DEF Closed
<1> HIDE DEF S
<1>3. \A n \in Nat : n \in S
  BY <1>1, <1>2, SetInduction
<1> QED
  BY <1>3, PollingTimes DEF S, up

\* Whatever a session shares lies above it: it belongs to every family of
\* sessions that has the session and, with each member, its parent.
SharesAbove ==
  \A e \in Endpoints, i \in Ids, family \in SUBSET Ids :
    i \in family /\ Closed(family) => shared[e][i] \in family \cup {NoId}

\* What resolve_shared_spot returns lies above the session, because what its
\* ancestor shares does.
LEMMA SharedSpotAbove ==
  ASSUME NEW e \in Endpoints, SharesAbove, shared[e] \in [Ids -> Ids \cup {NoId}],
         NEW i \in Ids, NEW known \in SUBSET Ids, NEW present \in SUBSET Ids,
         NEW spots \in SUBSET Ids
  PROVE  LET c == SharedSpot(i, known, present, spots, shared[e]) IN
         /\ c \in Ids \cup {NoId}
         /\ \A family \in SUBSET Ids : i \in family /\ Closed(family) => c \in family \cup {NoId}
<1> DEFINE c == SharedSpot(i, known, present, spots, shared[e])
<1>1. CASE c = NoId
  BY <1>1
<1>2. CASE c # NoId
  <2>1. PICK n \in 1..Depth : /\ Chain(i, known)[n] \in present
                              /\ \/ c = Chain(i, known)[n]
                                 \/ c = shared[e][Chain(i, known)[n]]
    BY <1>2, WalkEnds
  <2> DEFINE ancestor == Chain(i, known)[n]
  <2> HIDE DEF c
  <2>2. ancestor \in Ids /\ n \in 0..Depth
    BY <2>1, PollingTimes
  <2>3. ASSUME NEW family \in SUBSET Ids, i \in family, Closed(family)
        PROVE  c \in family \cup {NoId}
    <3>1. ancestor \in family \cup {NoId}
      BY <2>2, <2>3, WalkInFamily
    <3>2. ancestor \in family
      BY <2>2, <3>1, PollingClient
    <3>3. shared[e][ancestor] \in family \cup {NoId}
      BY <2>2, <2>3, <3>2 DEF SharesAbove
    <3> QED
      BY <2>1, <3>2, <3>3
  <2>4. c \in Ids \cup {NoId}
    BY <2>1, <2>2
  <2> QED
    BY <2>3, <2>4 DEF c
<1> QED
  BY <1>1, <1>2

-----------------------------------------------------------------------------
(* Types *)

Directories == {Directory[i] : i \in Ids}

\* The client, the poller, the sessions and the passes.
PollTyped ==
  /\ doing \in [Ids -> Activity] /\ reach \in BOOLEAN
  /\ cached \subseteq Ids /\ pollAge \in 0..Interval
  /\ tracked \in [Endpoints -> SUBSET Ids]
  /\ status \in [Endpoints -> [Ids -> Activity \cup {"none"}]]
  /\ shared \in [Endpoints -> [Ids -> Ids \cup {NoId}]]
  /\ silence \in [Endpoints -> [Ids -> Nat]]
  /\ pc \in [Endpoints -> {"sleep", "resolve", "pending", "rest"}]
  /\ passAge \in [Endpoints -> Nat]
  /\ sessions \in [Endpoints -> SUBSET Ids] /\ mine \in [Endpoints -> SUBSET Ids]
  /\ todo \in [Endpoints -> SUBSET Ids] /\ found \in [Endpoints -> SUBSET Ids]
  /\ steady \in [Endpoints -> SUBSET Ids]
  /\ map \in [Endpoints -> {NoAnswer} \cup
                [of : Directories, busy : {NoAnswer} \cup SUBSET Ids]]
  /\ \A e \in Endpoints : pc[e] = "pending" =>
       map[e] \in [of : Directories, busy : {NoAnswer} \cup SUBSET Ids]

\* The types and what is shared, step by step.
LEMMA PollTypeStep ==
  ASSUME PollTyped, SharesAbove, [PollingNext]_pollingVars
  PROVE  PollTyped' /\ SharesAbove'
<1> USE DEF clientVars, pollerVars, sessionVars, passVars
<1> DEFINE Answers == [of : Directories, busy : {NoAnswer} \cup SUBSET Ids]
<1>f. ASSUME NEW e \in Endpoints, NEW gone \in SUBSET Ids, Forget(e, gone)
      PROVE  /\ tracked' \in [Endpoints -> SUBSET Ids] /\ mine' \in [Endpoints -> SUBSET Ids]
             /\ status' \in [Endpoints -> [Ids -> Activity \cup {"none"}]]
             /\ shared' \in [Endpoints -> [Ids -> Ids \cup {NoId}]]
             /\ silence' \in [Endpoints -> [Ids -> Nat]]
             /\ SharesAbove'
  <2>1. tracked' \in [Endpoints -> SUBSET Ids] /\ mine' \in [Endpoints -> SUBSET Ids]
    BY <1>f DEF Forget, PollTyped
  <2>2. status' \in [Endpoints -> [Ids -> Activity \cup {"none"}]]
    BY <1>f DEF Forget, PollTyped
  <2>3. shared' \in [Endpoints -> [Ids -> Ids \cup {NoId}]]
    BY <1>f DEF Forget, PollTyped
  <2>4. silence' \in [Endpoints -> [Ids -> Nat]]
    BY <1>f DEF Forget, PollTyped
  <2>5. SharesAbove'
    <3>1. \A f \in Endpoints, j \in Ids : shared'[f][j] \in {shared[f][j], NoId}
      BY <1>f DEF Forget, PollTyped
    <3> QED
      BY <3>1 DEF SharesAbove, Closed
  <2> QED
    BY <2>1, <2>2, <2>3, <2>4, <2>5
<1>1. ASSUME NEW e \in Endpoints, NEW i \in Ids, Track(e, i)
      PROVE  PollTyped' /\ SharesAbove'
  <2>1. tracked' \in [Endpoints -> SUBSET Ids]
    BY <1>1 DEF Track, PollTyped
  <2>2. /\ status' \in [Endpoints -> [Ids -> Activity \cup {"none"}]]
        /\ shared' \in [Endpoints -> [Ids -> Ids \cup {NoId}]]
        /\ silence' \in [Endpoints -> [Ids -> Nat]]
    BY <1>1 DEF Track, PollTyped
  <2>3. SharesAbove'
    <3>1. \A f \in Endpoints, j \in Ids : shared'[f][j] \in {shared[f][j], NoId}
      BY <1>1 DEF Track, PollTyped
    <3> QED
      BY <3>1 DEF SharesAbove, Closed
  <2> QED
    BY <1>1, <2>1, <2>2, <2>3 DEF Track, PollTyped
<1>2. ASSUME NEW e \in Endpoints, NEW i \in Ids, Release(e, i)
      PROVE  PollTyped' /\ SharesAbove'
  BY <1>2, <1>f DEF Release, PollTyped
<1>3. ASSUME NEW e \in Endpoints, PassPoll(e)
      PROVE  PollTyped' /\ SharesAbove'
  BY <1>3, PollingTimes DEF PassPoll, Stamp, PollTyped, SharesAbove
<1>4. ASSUME NEW e \in Endpoints, PassNoPoll(e)
      PROVE  PollTyped' /\ SharesAbove'
  <2>1. PICK gone \in SUBSET tracked[e] : Forget(e, gone)
    BY <1>4 DEF PassNoPoll, Tick
  <2>2. gone \in SUBSET Ids
    BY DEF PollTyped
  <2> QED
    BY <1>4, <1>f, <2>1, <2>2 DEF PassNoPoll, Tick, PollTyped
<1>5. ASSUME NEW e \in Endpoints, NEW i \in Ids, Resolve(e, i)
      PROVE  PollTyped' /\ SharesAbove'
  <2>1. todo' \in [Endpoints -> SUBSET Ids] /\ found' \in [Endpoints -> SUBSET Ids] /\ cached' \subseteq Ids
    <3>1. /\ todo' = [todo EXCEPT ![e] = todo[e] \ {i}]
          /\ \/ cached' = cached \cup {i} /\ found' = [found EXCEPT ![e] = found[e] \cup {i}]
             \/ cached' = cached /\ found' = found
      BY <1>5 DEF Resolve
    <3>2. /\ todo \in [Endpoints -> SUBSET Ids] /\ found \in [Endpoints -> SUBSET Ids]
          /\ cached \subseteq Ids
      BY DEF PollTyped
    <3>3. todo' \in [Endpoints -> SUBSET Ids]
      BY <3>1, <3>2
    <3>4. found' \in [Endpoints -> SUBSET Ids] /\ cached' \subseteq Ids
      BY <3>1, <3>2
    <3> QED
      BY <3>3, <3>4
  <2>2. shared \in [Endpoints -> [Ids -> Ids \cup {NoId}]] /\ tracked[e] \in SUBSET Ids
    BY DEF PollTyped
  <2>3. \/ shared' = shared
        \/ \E spots \in SUBSET Ids :
             shared' = [shared EXCEPT ![e][i] = SharedSpot(i, cached', tracked[e], spots, shared[e])]
    BY <1>5 DEF Resolve
  <2>4. shared' \in [Endpoints -> [Ids -> Ids \cup {NoId}]] /\ SharesAbove'
    <3>1. CASE shared' = shared
      BY <2>2, <3>1 DEF SharesAbove, Closed
    <3>2. CASE shared' # shared
      <4>1. PICK spots \in SUBSET Ids :
              shared' = [shared EXCEPT ![e][i] = SharedSpot(i, cached', tracked[e], spots, shared[e])]
        BY <2>3, <3>2
      <4> DEFINE c == SharedSpot(i, cached', tracked[e], spots, shared[e])
      <4>2. /\ c \in Ids \cup {NoId}
            /\ \A family \in SUBSET Ids : i \in family /\ Closed(family) => c \in family \cup {NoId}
        BY <2>1, <2>2, SharedSpotAbove
      <4> HIDE DEF c
      <4>3. shared' = [shared EXCEPT ![e][i] = c]
        BY <4>1 DEF c
      <4>4. shared' \in [Endpoints -> [Ids -> Ids \cup {NoId}]]
        BY <2>2, <4>2, <4>3
      <4>5. \A f \in Endpoints, j \in Ids : shared'[f][j] = shared[f][j] \/ (shared'[f][j] = c /\ j = i)
        BY <2>2, <4>3
      <4>6. SharesAbove'
        BY <4>2, <4>5 DEF SharesAbove, Closed
      <4> QED
        BY <4>4, <4>6
    <3> QED
      BY <3>1, <3>2
  <2>5. silence' \in [Endpoints -> [Ids -> Nat]]
    <3>1. silence \in [Endpoints -> [Ids -> Nat]]
      BY DEF PollTyped
    <3>2. silence' = silence \/ silence' = [silence EXCEPT ![e][i] = 0]
      BY <1>5 DEF Resolve
    <3> QED
      BY <3>1, <3>2
  <2> QED
    BY <1>5, <2>1, <2>4, <2>5 DEF Resolve, PollTyped
<1>6. ASSUME NEW e \in Endpoints, NEW d \in Directories, FetchMap(e, d)
      PROVE  PollTyped' /\ SharesAbove'
  <2> DEFINE m == [of |-> d, busy |-> IF reach THEN {i \in InDirectory(d) : doing[i] # "idle"}
                                      ELSE NoAnswer]
  <2>1. m \in Answers
    BY DEF InDirectory
  <2>2. map' = [map EXCEPT ![e] = m] /\ pc' = [pc EXCEPT ![e] = "pending"]
    BY <1>6 DEF FetchMap
  <2> HIDE DEF m
  <2>3. /\ map' \in [Endpoints -> {NoAnswer} \cup Answers]
        /\ pc' \in [Endpoints -> {"sleep", "resolve", "pending", "rest"}]
        /\ \A f \in Endpoints : pc'[f] = "pending" => map'[f] \in Answers
    BY <2>1, <2>2 DEF PollTyped
  <2> QED
    BY <1>6, <2>3 DEF FetchMap, PollTyped, SharesAbove
<1>7. ASSUME NEW e \in Endpoints, NEW pending, FetchPending(e, pending)
      PROVE  PollTyped' /\ SharesAbove'
  <2> DEFINE here == InDirectory(map[e].of)
             told == {i \in found[e] \cap mine[e] \cap here : Heard(i, map[e].busy, pending)}
  <2>1. /\ status' = [status EXCEPT ![e] = [i \in Ids |->
             IF i \in told THEN Reported(status[e][i], i, map[e].busy, pending)
             ELSE status[e][i]]]
        /\ silence' = [silence EXCEPT ![e] = [i \in Ids |->
             IF i \in told THEN 0 ELSE silence[e][i]]]
        /\ found' = [found EXCEPT ![e] = found[e] \ here]
    BY <1>7 DEF FetchPending
  <2>2. \A i \in Ids : Reported(status[e][i], i, map[e].busy, pending) \in Activity \cup {"none"}
    BY DEF Reported, PollTyped, Activity
  <2>3. status' \in [Endpoints -> [Ids -> Activity \cup {"none"}]]
    BY <2>1, <2>2 DEF PollTyped
  <2>4. silence' \in [Endpoints -> [Ids -> Nat]] /\ found' \in [Endpoints -> SUBSET Ids]
    BY <2>1 DEF PollTyped
  <2>5. /\ pc' \in [Endpoints -> {"sleep", "resolve", "pending", "rest"}]
        /\ map' \in [Endpoints -> {NoAnswer} \cup Answers]
        /\ \A f \in Endpoints : pc'[f] = "pending" => map'[f] \in Answers
    BY <1>7 DEF FetchPending, PollTyped
  <2> QED
    BY <1>7, <2>3, <2>4, <2>5 DEF FetchPending, PollTyped, SharesAbove
<1>8. ASSUME NEW e \in Endpoints, PollDone(e)
      PROVE  PollTyped' /\ SharesAbove'
  <2>1. PICK gone \in SUBSET tracked[e] : Forget(e, gone)
    BY <1>8 DEF PollDone, Tick
  <2>2. gone \in SUBSET Ids
    BY DEF PollTyped
  <2> QED
    BY <1>8, <1>f, <2>1, <2>2 DEF PollDone, Tick, Stamp, PollTyped
<1>9. ASSUME NEW e \in Endpoints, PassEnd(e)
      PROVE  PollTyped' /\ SharesAbove'
  BY <1>9 DEF PassEnd, PollTyped, SharesAbove
<1>10. ASSUME NEW i \in Ids, Work(i)
       PROVE  PollTyped' /\ SharesAbove'
  BY <1>10 DEF Work, PollTyped, SharesAbove, Activity
<1>11. CASE Outage
  <2>1. silence' \in [Endpoints -> [Ids -> Nat]]
    BY <1>11 DEF Outage, PerSession
  <2> QED
    BY <1>11, <2>1 DEF Outage, PollTyped, SharesAbove
<1>12. CASE PollSecond
  <2>1. silence' \in [Endpoints -> [Ids -> Nat]]
    BY <1>12, PollingTimes DEF PollSecond, Aged, PollTyped
  <2>2. passAge' \in [Endpoints -> Nat] /\ pollAge' \in 0..Interval
    BY <1>12, PollingTimes DEF PollSecond, Aged, PollTyped
  <2> QED
    BY <1>12, <2>1, <2>2 DEF PollSecond, PollTyped, SharesAbove
<1>13. CASE UNCHANGED pollingVars
  BY <1>13 DEF pollingVars, PollTyped, SharesAbove
<1> QED
  BY <1>1, <1>2, <1>3, <1>4, <1>5, <1>6, <1>7, <1>8, <1>9, <1>10, <1>11, <1>12, <1>13
     DEF PollingNext, ManagerPass, Directories

\* Before the first request no session is tracked.
LEMMA PollTypeInit == PollingInit => PollTyped /\ SharesAbove
<1> SUFFICES ASSUME PollingInit PROVE PollTyped /\ SharesAbove
  OBVIOUS
<1>1. PollTyped
  BY PollingTimes DEF PollingInit, PollTyped, PerPass, PerSession, Activity
<1>2. SharesAbove
  BY DEF PollingInit, SharesAbove, PerSession
<1> QED
  BY <1>1, <1>2

\* The types hold, and with them what is shared.
LEMMA PollingTyped == PollingSpec => [](PollTyped /\ SharesAbove)
<1>1. PollTyped /\ SharesAbove /\ [PollingNext]_pollingVars => (PollTyped /\ SharesAbove)'
  BY PollTypeStep
<1> QED
  BY <1>1, PollTypeInit, PTL DEF PollingSpec

\* Q8: whatever parents the client reports, in cycles of any length and with
\* any part of them cached, whoever holds spots: the spot a session is given to
\* share is that of a session above it, through any number of sharings.
THEOREM SharingGoesUp == PollingSpec => []SharesAbove
BY PollingTyped, PTL

\* resolve_shared_spot is cycle-safe: at any depth and through any cycle, it
\* gives a session its own key only for a spot the session really holds.
THEOREM SharingIsCycleSafe == PollingSpec => []CycleSafe
<1>1. PollTyped => CycleSafe
  <2> SUFFICES ASSUME PollTyped, NEW e \in Endpoints, NEW i \in Ids, NEW spots \in SUBSET (Ids \ {i}),
                      SharedSpot(i, cached, tracked[e], spots, shared[e]) = i
               PROVE  FALSE
    BY DEF CycleSafe
  <2>1. tracked[e] \in SUBSET Ids /\ shared[e] \in [Ids -> Ids \cup {NoId}]
    BY DEF PollTyped
  <2>2. i # NoId
    BY PollingClient
  <2> QED
    BY <2>1, <2>2, WalkEnds
<1> QED
  BY <1>1, PollingTyped, PTL

-----------------------------------------------------------------------------
(* Reports *)

\* What the map says of a session that has not changed since the pass began
\* is still what the session does when the pending requests are fetched.
MapTrue ==
  \A e \in Endpoints : pc[e] = "pending" /\ map[e].busy # NoAnswer =>
    \A i \in steady[e] : Directory[i] = map[e].of => (i \in map[e].busy <=> doing[i] # "idle")

LEMMA MapTrueStep ==
  ASSUME PollTyped, MapTrue, [PollingNext]_pollingVars
  PROVE  MapTrue'
<1> USE DEF clientVars, pollerVars, sessionVars, passVars
<1> SUFFICES ASSUME NEW e \in Endpoints, pc'[e] = "pending", map'[e].busy # NoAnswer,
                    NEW i \in steady'[e], Directory[i] = map'[e].of
             PROVE  i \in map'[e].busy <=> doing'[i] # "idle"
  BY DEF MapTrue
<1>1. CASE /\ pc[e] = "pending" /\ map'[e] = map[e] /\ i \in steady[e] /\ doing'[i] = doing[i]
  BY <1>1 DEF MapTrue
<1>2. CASE \E f \in Endpoints, j \in Ids : Track(f, j) \/ Release(f, j)
  BY <1>1, <1>2 DEF Track, Release
<1>3. ASSUME NEW f \in Endpoints, \/ PassPoll(f) \/ PassNoPoll(f) \/ PollDone(f)
                                  \/ PassEnd(f) \/ \E pending : FetchPending(f, pending)
      PROVE  pc[e] = "pending" /\ map'[e] = map[e] /\ i \in steady[e] /\ doing'[i] = doing[i]
  BY <1>3 DEF PassPoll, PassNoPoll, PollDone, PassEnd, FetchPending, Tick, PollTyped
<1>4. ASSUME NEW f \in Endpoints, NEW j \in Ids, Resolve(f, j)
      PROVE  pc[e] = "pending" /\ map'[e] = map[e] /\ i \in steady[e] /\ doing'[i] = doing[i]
  BY <1>4 DEF Resolve
<1>5. ASSUME NEW f \in Endpoints, NEW d \in Directories, FetchMap(f, d)
      PROVE  i \in map'[e].busy <=> doing'[i] # "idle"
  <2>1. CASE f = e
    <3>1. map'[e] = [of |-> d, busy |-> IF reach THEN {j \in InDirectory(d) : doing[j] # "idle"}
                                        ELSE NoAnswer]
      BY <1>5, <2>1 DEF FetchMap, PollTyped
    <3>2. map'[e].of = d /\ map'[e].busy = {j \in InDirectory(d) : doing[j] # "idle"}
      BY <3>1
    <3>3. i \in Ids /\ Directory[i] = d /\ doing' = doing
      BY <1>5, <3>2 DEF FetchMap, PollTyped
    <3> QED
      BY <3>2, <3>3 DEF InDirectory
  <2>2. CASE f # e
    <3>1. /\ pc[e] = "pending" /\ map'[e] = map[e] /\ i \in steady[e] /\ doing' = doing
      BY <1>5, <2>2 DEF FetchMap, PollTyped
    <3> QED
      BY <1>1, <3>1
  <2> QED
    BY <2>1, <2>2
<1>6. ASSUME NEW j \in Ids, Work(j)
      PROVE  pc[e] = "pending" /\ map'[e] = map[e] /\ i \in steady[e] /\ doing'[i] = doing[i]
  BY <1>6 DEF Work, PollTyped
<1>7. CASE Outage \/ PollSecond
  BY <1>1, <1>7 DEF Outage, PollSecond
<1>8. CASE UNCHANGED pollingVars
  BY <1>1, <1>8 DEF pollingVars
<1> QED
  BY <1>1, <1>2, <1>3, <1>4, <1>5, <1>6, <1>7, <1>8 DEF PollingNext, ManagerPass, Directories

\* C2, C3: although the map and the pending requests are fetched one after the
\* other, a session that does not change during the pass is reported as what
\* it does if both answer, for every interleaving of passes, outages and other
\* sessions' changes.
THEOREM ReportsAreTruthful == PollingSpec => ReportTruthful
<1> DEFINE Truthful ==
      \A e \in Endpoints, i \in Ids, pending \in SUBSET Ids :
        /\ FetchPending(e, pending) /\ map[e].busy # NoAnswer
        /\ i \in found[e] \cap mine[e] \cap steady[e] /\ Directory[i] = map[e].of
        => status'[e][i] = doing[i]
<1>1. PollTyped /\ MapTrue => Truthful
  <2> SUFFICES ASSUME PollTyped, MapTrue,
                      NEW e \in Endpoints, NEW i \in Ids, NEW pending \in SUBSET Ids,
                      FetchPending(e, pending), map[e].busy # NoAnswer,
                      i \in found[e] \cap mine[e] \cap steady[e], Directory[i] = map[e].of
               PROVE  status'[e][i] = doing[i]
    OBVIOUS
  <2> DEFINE busy == map[e].busy
             here == InDirectory(map[e].of)
             told == {j \in found[e] \cap mine[e] \cap here : Heard(j, busy, pending)}
  <2>1. /\ pc[e] = "pending" /\ pending = {j \in here : doing[j] = "waiting"}
        /\ status' = [status EXCEPT ![e] = [j \in Ids |->
             IF j \in told THEN Reported(status[e][j], j, busy, pending) ELSE status[e][j]]]
    BY PollingClient DEF FetchPending
  <2>2. i \in here /\ i \in told
    BY DEF InDirectory, Heard
  <2>3. status'[e][i] = Reported(status[e][i], i, busy, pending)
    BY <2>1, <2>2 DEF PollTyped
  <2>4. i \in busy <=> doing[i] # "idle"
    BY <2>1 DEF MapTrue
  <2>5. i \in pending <=> doing[i] = "waiting"
    BY <2>1, <2>2
  <2>6. doing[i] \in {"idle", "busy", "waiting"} /\ pending # NoAnswer
    BY PollingClient DEF PollTyped, Activity
  <2> QED
    BY <2>3, <2>4, <2>5, <2>6 DEF Reported
<1>2. PollingInit => MapTrue
  BY DEF PollingInit, MapTrue, PerPass
<1>3. PollTyped /\ MapTrue /\ [PollingNext]_pollingVars => MapTrue'
  BY MapTrueStep
<1> QED
  BY <1>1, <1>2, <1>3, PollingTyped, PTL DEF PollingSpec, ReportTruthful

-----------------------------------------------------------------------------
(* Freshness, for a client whose sessions use one endpoint *)

\* Seconds from a poll until the machine is due again; a manager looks once a
\* second at most.
FirstDue == IF Interval = 0 THEN 1 ELSE Interval

\* How long a session can have been without a report, by where the manager
\* is: at the start of the pass that polls it, while the manager sleeps, and
\* in the rest of a pass.
Overdue(e) ==
  IF pc[e] = "rest" THEN FirstDue - 1
  ELSE IF pc[e] = "sleep" THEN FirstDue - 1 + MaxPass
  ELSE FirstDue + MaxPass

Polling(e) == pc[e] \in {"resolve", "pending"}

\* The clocks of the manager and of the poller.
Clocks(e) ==
  /\ passAge[e] <= (IF pc[e] = "sleep" THEN 1 ELSE MaxPass)
  /\ Polling(e) => pollAge = Interval \/ pollAge >= passAge[e]

\* The silence of one session: none if it is not tracked or its machine does
\* not answer; never above Overdue and the time the manager has been where it
\* is; not above the age of the last poll while the machine is not due; and
\* in a pass that polls, not above the age of the pass once the session has
\* been told, has no answer to come, or was not there when the pass began.
Silence(e, i) ==
  /\ i \notin tracked[e] \/ ~reach => silence[e][i] = 0
  /\ silence[e][i] <= Overdue(e) + passAge[e]
  /\ ~Polling(e) /\ pollAge < Interval => silence[e][i] <= pollAge
  /\ Polling(e) /\ i \notin mine[e] \cap (todo[e] \cup found[e]) => silence[e][i] <= passAge[e]
  /\ pc[e] = "pending" /\ map[e].busy = NoAnswer => silence[e][i] <= passAge[e]

FreshInv(e) == Clocks(e) /\ \A i \in Ids : Silence(e, i)

\* The numbers of FreshInv.
LEMMA FreshNumbers ==
  ASSUME PollTyped, NEW e \in Endpoints, NEW i \in Ids
  PROVE  /\ Interval \in Nat /\ MaxPass \in Nat /\ FirstDue \in Nat /\ FirstDue >= 1
         /\ FirstDue >= Interval /\ (Interval >= 1 => FirstDue = Interval)
         /\ pollAge \in Nat /\ pollAge <= Interval /\ passAge[e] \in Nat
         /\ silence[e][i] \in Nat
<1>1. /\ pollAge \in 0..Interval /\ passAge \in [Endpoints -> Nat]
      /\ silence \in [Endpoints -> [Ids -> Nat]]
  BY DEF PollTyped
<1> QED
  BY <1>1, PollingTimes DEF FirstDue

\* Every step of the only endpoint's manager, of the client and of the clock
\* keeps the bounds.
LEMMA FreshStep ==
  ASSUME NEW e, Endpoints = {e}, PollTyped, FreshInv(e), [PollingNext]_pollingVars
  PROVE  FreshInv(e)'
<1> USE DEF clientVars, pollerVars, sessionVars, passVars
<1>e. e \in Endpoints
  OBVIOUS
<1>c. Clocks(e)
  BY DEF FreshInv
<1>f. ASSUME NEW gone \in SUBSET tracked[e], Forget(e, gone)
      PROVE  /\ tracked'[e] = tracked[e] \ gone /\ mine'[e] = mine[e] \ gone
             /\ \A i \in Ids : silence'[e][i] = IF i \in gone THEN 0 ELSE silence[e][i]
  BY <1>f DEF Forget, PollTyped
<1>1. ASSUME NEW i \in Ids, Track(e, i)
      PROVE  FreshInv(e)'
  <2>1. /\ tracked'[e] = tracked[e] \cup {i}
        /\ \A j \in Ids : silence'[e][j] = IF j = i THEN 0 ELSE silence[e][j]
        /\ UNCHANGED <<reach, pollAge, pc, passAge, mine, todo, found, map>>
    BY <1>1, <1>e DEF Track, PollTyped
  <2>2. ASSUME NEW j \in Ids
        PROVE  Silence(e, j)'
    <3>1. Silence(e, j)
      BY DEF FreshInv
    <3> QED
      BY <1>c, <1>e, <2>1, <3>1, FreshNumbers DEF Silence, Overdue, Polling
  <2> QED
    BY <1>c, <2>1, <2>2 DEF FreshInv, Clocks, Polling
<1>2. ASSUME NEW i \in Ids, Release(e, i)
      PROVE  FreshInv(e)'
  <2>1. /\ tracked'[e] = tracked[e] \ {i} /\ mine'[e] = mine[e] \ {i}
        /\ \A j \in Ids : silence'[e][j] = IF j \in {i} THEN 0 ELSE silence[e][j]
        /\ UNCHANGED <<reach, pollAge, pc, passAge, todo, found, map>>
    BY <1>2, <1>e, <1>f DEF Release
  <2>2. ASSUME NEW j \in Ids
        PROVE  Silence(e, j)'
    <3>1. Silence(e, j)
      BY DEF FreshInv
    <3> QED
      BY <1>c, <1>e, <2>1, <3>1, FreshNumbers DEF Silence, Overdue, Polling
  <2> QED
    BY <1>c, <2>1, <2>2 DEF FreshInv, Clocks, Polling
<1>3. CASE PassPoll(e)
  <2>1. /\ pc[e] = "sleep" /\ passAge[e] = 1 /\ pc'[e] = "resolve" /\ passAge'[e] = 0
        /\ pollAge' = 0 /\ mine'[e] = tracked[e] /\ todo'[e] = tracked[e]
        /\ UNCHANGED <<reach, tracked, silence>>
    BY <1>3, <1>e DEF PassPoll, Stamp, PollTyped
  <2>2. ASSUME NEW j \in Ids
        PROVE  Silence(e, j)'
    <3>1. Silence(e, j)
      BY DEF FreshInv
    <3>2. silence[e][j] <= FirstDue - 1 + MaxPass + 1
      BY <2>1, <3>1 DEF Silence, Overdue
    <3>3. j \notin mine'[e] \cap (todo'[e] \cup found'[e]) => silence[e][j] = 0
      BY <2>1, <3>1 DEF Silence
    <3>4. silence[e][j] <= FirstDue + MaxPass + 0
      BY <1>e, <3>2, FreshNumbers
    <3> QED
      BY <1>e, <2>1, <3>1, <3>3, <3>4, FreshNumbers DEF Silence, Overdue, Polling
  <2> QED
    BY <2>1, <2>2, PollingTimes DEF FreshInv, Clocks, Polling
<1>4. CASE PassNoPoll(e)
  <2>1. PICK gone \in SUBSET tracked[e] : Forget(e, gone)
    BY <1>4 DEF PassNoPoll, Tick
  <2>2. /\ pc[e] = "sleep" /\ pc'[e] = "rest" /\ passAge'[e] = 0
        /\ tracked[e] = {} \/ ~(pollAge >= Interval)
        /\ UNCHANGED <<reach, pollAge, todo, found, map>>
    BY <1>4, <1>e DEF PassNoPoll, Tick, Due, PollTyped
  <2>3. ASSUME NEW j \in Ids
        PROVE  Silence(e, j)'
    <3>1. Silence(e, j)
      BY DEF FreshInv
    <3>2. silence[e][j] <= FirstDue - 1
      BY <1>e, <2>2, <3>1, FreshNumbers DEF Silence, Polling
    <3>3. silence'[e][j] = IF j \in gone THEN 0 ELSE silence[e][j]
      BY <1>f, <2>1
    <3>4. tracked'[e] = tracked[e] \ gone
      BY <1>f, <2>1
    <3> QED
      BY <1>e, <2>2, <3>1, <3>2, <3>3, <3>4, FreshNumbers DEF Silence, Overdue, Polling
  <2> QED
    BY <2>2, <2>3, PollingTimes DEF FreshInv, Clocks, Polling
<1>5. ASSUME NEW i \in Ids, Resolve(e, i)
      PROVE  FreshInv(e)'
  <2>1. /\ pc[e] = "resolve" /\ todo'[e] = todo[e] \ {i}
        /\ UNCHANGED <<reach, pollAge, tracked, pc, passAge, mine, map>>
        /\ \/ found'[e] = found[e] \cup {i} /\ UNCHANGED silence
           \/ /\ found'[e] = found[e]
              /\ \A j \in Ids : silence'[e][j] = IF j = i THEN 0 ELSE silence[e][j]
    BY <1>5, <1>e DEF Resolve, PollTyped
  <2>2. ASSUME NEW j \in Ids
        PROVE  Silence(e, j)'
    <3>1. Silence(e, j)
      BY DEF FreshInv
    <3>2. \/ /\ silence'[e][j] = silence[e][j]
             /\ j \in todo[e] \cup found[e] => j \in todo'[e] \cup found'[e]
          \/ silence'[e][j] = 0
      BY <2>1
    <3> QED
      BY <1>e, <2>1, <3>1, <3>2, FreshNumbers DEF Silence, Overdue, Polling
  <2> QED
    BY <1>c, <2>1, <2>2 DEF FreshInv, Clocks, Polling
<1>6. ASSUME NEW d \in Directories, FetchMap(e, d)
      PROVE  FreshInv(e)'
  <2> DEFINE m == {i \in InDirectory(d) : doing[i] # "idle"}
  <2>1. /\ pc[e] = "resolve" /\ pc'[e] = "pending"
        /\ map'[e] = [of |-> d, busy |-> IF reach THEN m ELSE NoAnswer]
        /\ UNCHANGED <<reach, pollAge, tracked, silence, passAge, mine, todo, found>>
    BY <1>6, <1>e DEF FetchMap, PollTyped
  <2>2. m \in SUBSET Ids
    BY DEF InDirectory
  <2> HIDE DEF m
  <2>3. map'[e].busy = NoAnswer => ~reach
    BY <2>1, <2>2, PollingClient
  <2>4. ASSUME NEW j \in Ids
        PROVE  Silence(e, j)'
    <3>1. Silence(e, j)
      BY DEF FreshInv
    <3> QED
      BY <1>e, <2>1, <2>3, <3>1, FreshNumbers DEF Silence, Overdue, Polling
  <2> QED
    BY <1>c, <2>1, <2>4 DEF FreshInv, Clocks, Polling
<1>7. ASSUME NEW pending, FetchPending(e, pending)
      PROVE  FreshInv(e)'
  <2> DEFINE here == InDirectory(map[e].of)
             busy == map[e].busy
             told == {i \in found[e] \cap mine[e] \cap here : Heard(i, busy, pending)}
  <2>1. /\ silence' = [silence EXCEPT ![e] = [i \in Ids |->
             IF i \in told THEN 0 ELSE silence[e][i]]]
        /\ found' = [found EXCEPT ![e] = found[e] \ here]
    BY <1>7 DEF FetchPending
  <2>2. /\ pc[e] = "pending" /\ pc'[e] = "resolve"
        /\ UNCHANGED <<reach, pollAge, tracked, passAge, mine, todo>>
    BY <1>7, <1>e DEF FetchPending, PollTyped
  <2>3. ASSUME NEW j \in Ids
        PROVE  Silence(e, j)'
    <3>1. Silence(e, j)
      BY DEF FreshInv
    <3>2. silence'[e][j] = IF j \in told THEN 0 ELSE silence[e][j]
      BY <1>e, <2>1 DEF PollTyped
    <3>3. found'[e] = found[e] \ here
      BY <1>e, <2>1 DEF PollTyped
    <3>4. j \notin mine[e] \cap (todo[e] \cup found'[e]) => silence'[e][j] <= passAge[e]
      <4>1. CASE busy = NoAnswer
        BY <1>e, <2>2, <3>1, <3>2, <4>1, FreshNumbers DEF Silence
      <4>2. CASE busy # NoAnswer /\ j \in mine[e] \cap found[e] \cap here
        BY <1>e, <3>2, <4>2, FreshNumbers DEF Heard
      <4>3. CASE j \notin mine[e] \cap found[e] \cap here
        <5>1. silence'[e][j] = silence[e][j]
          BY <3>2, <4>3
        <5>2. j \notin mine[e] \cap (todo[e] \cup found'[e]) => j \notin mine[e] \cap (todo[e] \cup found[e])
          BY <3>3, <4>3
        <5> QED
          BY <2>2, <3>1, <5>1, <5>2 DEF Silence, Polling
      <4> QED
        BY <4>1, <4>2, <4>3
    <3>5. silence'[e][j] = 0 \/ silence'[e][j] = silence[e][j]
      BY <3>2
    <3> QED
      BY <1>e, <2>2, <3>1, <3>4, <3>5, FreshNumbers DEF Silence, Overdue, Polling
  <2> QED
    BY <1>c, <2>2, <2>3 DEF FreshInv, Clocks, Polling
<1>8. CASE PollDone(e)
  <2>1. PICK gone \in SUBSET tracked[e] : Forget(e, gone)
    BY <1>8 DEF PollDone, Tick
  <2>2. /\ pc[e] = "resolve" /\ pc'[e] = "rest" /\ todo[e] = {} /\ found[e] = {}
        /\ UNCHANGED <<reach, pollAge, passAge>>
    BY <1>8, <1>e DEF PollDone, Tick, Stamp, PollTyped
  <2>3. ASSUME NEW j \in Ids
        PROVE  Silence(e, j)'
    <3>1. Silence(e, j)
      BY DEF FreshInv
    <3>2. silence[e][j] <= passAge[e]
      BY <2>2, <3>1 DEF Silence, Polling
    <3>3. silence'[e][j] = IF j \in gone THEN 0 ELSE silence[e][j]
      BY <1>f, <2>1
    <3>4. tracked'[e] = tracked[e] \ gone
      BY <1>f, <2>1
    <3>5. pollAge < Interval => pollAge >= passAge[e]
      BY <1>c, <1>e, <2>2, FreshNumbers DEF Clocks, Polling
    <3> QED
      BY <1>e, <2>2, <3>1, <3>2, <3>3, <3>4, <3>5, FreshNumbers DEF Silence, Overdue, Polling
  <2> QED
    BY <1>c, <2>2, <2>3 DEF FreshInv, Clocks, Polling
<1>9. CASE PassEnd(e)
  <2>1. /\ pc[e] = "rest" /\ pc'[e] = "sleep" /\ passAge'[e] = 0
        /\ UNCHANGED <<reach, pollAge, tracked, silence, mine, todo, found, map>>
    BY <1>9, <1>e DEF PassEnd, PollTyped
  <2>2. ASSUME NEW j \in Ids
        PROVE  Silence(e, j)'
    <3>1. Silence(e, j)
      BY DEF FreshInv
    <3>2. silence[e][j] <= FirstDue - 1 + passAge[e] /\ passAge[e] <= MaxPass
      BY <1>c, <2>1, <3>1 DEF Silence, Overdue, Clocks
    <3>3. silence[e][j] <= FirstDue - 1 + MaxPass + 0
      BY <1>e, <3>2, FreshNumbers
    <3> QED
      BY <1>e, <2>1, <3>1, <3>3, FreshNumbers DEF Silence, Overdue, Polling
  <2> QED
    BY <2>1, <2>2, PollingTimes DEF FreshInv, Clocks, Polling
<1>10. ASSUME NEW i \in Ids, Work(i)
       PROVE  FreshInv(e)'
  BY <1>10 DEF Work, FreshInv, Clocks, Silence, Overdue, Polling
<1>11. CASE Outage
  <2>1. /\ \A j \in Ids : silence'[e][j] = 0
        /\ UNCHANGED <<pollAge, pc, passAge>>
    BY <1>e, <1>11 DEF Outage, PerSession
  <2>2. ASSUME NEW j \in Ids
        PROVE  Silence(e, j)'
    BY <1>e, <2>1, FreshNumbers DEF Silence, Overdue, Polling
  <2> QED
    BY <1>c, <2>1, <2>2 DEF FreshInv, Clocks, Polling
<1>12. CASE PollSecond
  <2>1. /\ passAge[e] < (IF pc[e] = "sleep" THEN 1 ELSE MaxPass) /\ passAge'[e] = passAge[e] + 1
        /\ pollAge' = Aged(pollAge, Interval)
        /\ UNCHANGED <<reach, tracked, pc, mine, todo, found, map>>
    BY <1>e, <1>12 DEF PollSecond
  <2>2. /\ pollAge' = Interval \/ pollAge' = pollAge + 1
        /\ pollAge' < Interval => pollAge < Interval /\ pollAge' = pollAge + 1
    BY <2>1, PollingTimes DEF Aged, PollTyped
  <2>3. ASSUME NEW j \in Ids
        PROVE  Silence(e, j)'
    <3>1. Silence(e, j)
      BY DEF FreshInv
    <3>2. silence'[e][j] = IF reach /\ j \in tracked[e] THEN Aged(silence[e][j], Grace + 1) ELSE 0
      BY <1>e, <1>12 DEF PollSecond
    <3>3. silence'[e][j] \in Nat /\ silence'[e][j] <= silence[e][j] + 1
      BY <1>e, <3>2, FreshNumbers, PollingTimes DEF Aged
    <3>4. ~reach \/ j \notin tracked[e] => silence'[e][j] = 0
      BY <3>2
    <3> QED
      BY <1>e, <2>1, <2>2, <3>1, <3>3, <3>4, FreshNumbers DEF Silence, Overdue, Polling
  <2>4. Clocks(e)'
    <3>1. passAge[e] \in Nat /\ pollAge \in Nat /\ MaxPass \in Nat /\ Interval \in Nat
      BY <1>e, PollingTimes DEF PollTyped
    <3>2. passAge'[e] <= (IF pc[e] = "sleep" THEN 1 ELSE MaxPass)
      BY <2>1, <3>1
    <3>3. Polling(e)' => pollAge' = Interval \/ pollAge' >= passAge'[e]
      BY <1>c, <2>1, <2>2, <3>1 DEF Clocks, Polling, Aged
    <3> QED
      BY <2>1, <3>2, <3>3 DEF Clocks
  <2> QED
    BY <2>3, <2>4 DEF FreshInv
<1>13. CASE UNCHANGED pollingVars
  BY <1>13 DEF pollingVars, FreshInv, Clocks, Silence, Overdue, Polling
<1> QED
  BY <1>1, <1>2, <1>3, <1>4, <1>5, <1>6, <1>7, <1>8, <1>9, <1>10, <1>11, <1>12, <1>13
     DEF PollingNext, ManagerPass, Directories

\* C4, for a client whose sessions use one endpoint: with a grace of at least
\* the poll interval and two passes, a session tracked on a machine that
\* answers is never taken for unreachable, however sessions come and go,
\* fetches fail in between and the machine disappears and returns.
THEOREM OneEndpointKeptFresh ==
  ASSUME NEW e, Endpoints = {e}, Grace >= FirstDue + 2 * MaxPass
  PROVE  PollingSpec => []KeptFresh
<1>1. PollingInit => FreshInv(e)
  <2> SUFFICES ASSUME PollingInit PROVE FreshInv(e)
    OBVIOUS
  <2>1. /\ pc[e] = "sleep" /\ passAge[e] = 0 /\ pollAge = Interval /\ reach
        /\ \A i \in Ids : silence[e][i] = 0
    BY DEF PollingInit, PerPass, PerSession
  <2>2. FirstDue - 1 + MaxPass \in Nat
    BY PollingTimes DEF FirstDue
  <2>3. \A i \in Ids : Silence(e, i)
    BY <2>1, <2>2, PollingTimes DEF Silence, Overdue, Polling
  <2> QED
    BY <2>1, <2>3 DEF FreshInv, Clocks, Polling
<1>2. PollTyped /\ FreshInv(e) /\ [PollingNext]_pollingVars => FreshInv(e)'
  BY FreshStep
<1>3. PollTyped /\ FreshInv(e) => KeptFresh
  <2> SUFFICES ASSUME PollTyped, FreshInv(e), NEW i \in Ids
               PROVE  silence[e][i] <= Grace
    BY DEF KeptFresh
  <2>1. silence[e][i] <= Overdue(e) + passAge[e] /\ passAge[e] <= (IF pc[e] = "sleep" THEN 1 ELSE MaxPass)
    BY DEF FreshInv, Clocks, Silence
  <2>2. Overdue(e) + passAge[e] <= FirstDue + 2 * MaxPass
    BY <2>1, FreshNumbers DEF Overdue
  <2>3. Overdue(e) \in Nat /\ Grace \in Nat
    BY FreshNumbers, PollingTimes DEF Overdue
  <2> QED
    BY <2>1, <2>2, <2>3, FreshNumbers
<1> QED
  BY <1>1, <1>2, <1>3, PollingTyped, PTL DEF PollingSpec

=============================================================================
