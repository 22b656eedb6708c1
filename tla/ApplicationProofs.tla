------------------------- MODULE ApplicationProofs -------------------------
(***************************************************************************)
(* Routing and session identity for every configuration file, every path,  *)
(* every list of providers and every request.                              *)
(***************************************************************************)
EXTENDS Application, PollingProofs, FiniteSetTheorems, SequenceTheorems

-----------------------------------------------------------------------------
(* The loop of route *)

\* One iteration: entry i replaces the best so far, b, if it matches and its
\* prefix is longer.
Better(es, path, b, i) ==
  LET bestLen == IF b = 0 THEN -1 ELSE Len(es[b].prefix)
  IN IF IsPrefix(es[i].prefix, path) /\ Len(es[i].prefix) > bestLen THEN i ELSE b

Step(es, path, f, i) == IF i = 0 THEN 0 ELSE Better(es, path, f[i - 1], i)

\* The loop is defined for every number of entries.
LEMMA LoopExists ==
  ASSUME NEW es, NEW path
  PROVE  \A d \in Nat : \E f : f = [i \in 0..d |-> Step(es, path, f, i)]
<1> DEFINE S == {d \in Nat : \E f : f = [i \in 0..d |-> Step(es, path, f, i)]}
<1>1. 0 \in S
  <2> DEFINE f == [i \in 0..0 |-> 0]
  <2>1. \A i \in 0..0 : i = 0
    OBVIOUS
  <2>2. f = [i \in 0..0 |-> Step(es, path, f, i)]
    BY <2>1 DEF Step
  <2> QED
    BY <2>2
<1>2. ASSUME NEW d \in Nat, d \in S
      PROVE  d + 1 \in S
  <2>1. PICK f : f = [i \in 0..d |-> Step(es, path, f, i)]
    BY <1>2
  <2> DEFINE last == Step(es, path, f, d + 1)
             g == [i \in 0..(d + 1) |-> IF i = d + 1 THEN last ELSE f[i]]
  <2>2. \A i \in 0..d : g[i] = f[i]
    OBVIOUS
  <2>3. \A i \in 0..(d + 1) : Step(es, path, g, i) = Step(es, path, f, i)
    <3> SUFFICES ASSUME NEW i \in 0..(d + 1), i # 0
                 PROVE  Step(es, path, g, i) = Step(es, path, f, i)
      BY DEF Step
    <3>1. i - 1 \in 0..d
      OBVIOUS
    <3> HIDE DEF g, last
    <3>2. g[i - 1] = f[i - 1]
      BY <2>2, <3>1
    <3> QED
      BY <3>2 DEF Step
  <2>4. \A i \in 0..d : f[i] = Step(es, path, f, i)
    BY <2>1
  <2>5. g = [i \in 0..(d + 1) |-> Step(es, path, f, i)]
    <3>1. \A i \in 0..(d + 1) : i = d + 1 \/ i \in 0..d
      OBVIOUS
    <3> HIDE DEF last
    <3>2. \A i \in 0..(d + 1) : (IF i = d + 1 THEN last ELSE f[i]) = Step(es, path, f, i)
      BY <2>4, <3>1 DEF last
    <3> QED
      BY <3>2
  <2> HIDE DEF g
  <2>6. g = [i \in 0..(d + 1) |-> Step(es, path, g, i)]
    BY <2>3, <2>5
  <2> QED
    BY <2>6
<1> HIDE DEF S
<1>3. \A d \in Nat : d \in S
  BY <1>1, <1>2, SetInduction
<1> QED
  BY <1>3 DEF S

\* What the loop has found when it is at entry i: the longest match so far.
Found(es, path, b, i) ==
  /\ b \in 0..i
  /\ b = 0 => \A j \in 1..i : ~IsPrefix(es[j].prefix, path)
  /\ b # 0 => /\ IsPrefix(es[b].prefix, path)
              /\ \A j \in 1..i : IsPrefix(es[j].prefix, path) =>
                                   Len(es[j].prefix) <= Len(es[b].prefix)

\* The loop finds a longest match of any number of entries.
LEMMA LoopFinds ==
  ASSUME NEW es, NEW path, NEW n \in Nat, NEW f, f = [i \in 0..n |-> Step(es, path, f, i)],
         \A j \in 1..n : Len(es[j].prefix) \in Nat
  PROVE  Found(es, path, f[n], n)
<1> DEFINE S == {d \in Nat : d <= n => Found(es, path, f[d], d)}
<1>0. \A i \in 0..n : f[i] = Step(es, path, f, i)
  OBVIOUS
<1>1. 0 \in S
  BY <1>0 DEF Step, Found
<1>2. ASSUME NEW d \in Nat, d \in S
      PROVE  d + 1 \in S
  <2> SUFFICES ASSUME d + 1 <= n
               PROVE  Found(es, path, f[d + 1], d + 1)
    OBVIOUS
  <2> DEFINE b == f[d]
             i == d + 1
  <2>1. Found(es, path, b, d) /\ b \in 0..d
    <3>1. d <= n
      OBVIOUS
    <3>2. Found(es, path, f[d], d)
      BY <1>2, <3>1
    <3> QED
      BY <3>2 DEF Found
  <2>2. f[i] = Better(es, path, b, i)
    <3>1. i \in 0..n /\ i # 0 /\ i - 1 = d
      OBVIOUS
    <3> QED
      BY <1>0, <3>1 DEF Step
  <2>3. \A j \in 1..i : j \in 1..d \/ j = i
    OBVIOUS
  <2>4. i \in 1..n /\ Len(es[i].prefix) \in Nat /\ \A j \in 1..d : j \in 1..n
    OBVIOUS
  <2>5. b # 0 => Len(es[b].prefix) \in Nat
    BY <2>1
  <2> HIDE DEF b, i
  <2>6. CASE IsPrefix(es[i].prefix, path) /\ Len(es[i].prefix) > (IF b = 0 THEN -1 ELSE Len(es[b].prefix))
    <3>1. f[i] = i
      BY <2>2, <2>6 DEF Better
    <3>2. i \in 0..i /\ i # 0
      BY DEF i
    <3>3. ASSUME NEW j \in 1..i, IsPrefix(es[j].prefix, path)
          PROVE  Len(es[j].prefix) <= Len(es[i].prefix)
      <4>1. CASE j = i
        BY <2>4, <4>1
      <4>2. CASE j \in 1..d
        <5>1. b # 0 /\ Len(es[j].prefix) <= Len(es[b].prefix)
          BY <2>1, <3>3, <4>2 DEF Found
        <5>2. Len(es[j].prefix) \in Nat
          BY <2>4, <4>2
        <5>3. Len(es[i].prefix) > Len(es[b].prefix)
          BY <2>6, <5>1
        <5>4. Len(es[b].prefix) \in Nat /\ Len(es[i].prefix) \in Nat
          BY <2>4, <2>5, <5>1
        <5>5. \A x, y, z \in Nat : x <= y /\ z > y => x <= z
          OBVIOUS
        <5> QED
          BY <5>1, <5>2, <5>3, <5>4, <5>5
      <4> QED
        BY <2>3, <4>1, <4>2
    <3>4. Found(es, path, i, i)
      BY <2>6, <3>2, <3>3 DEF Found
    <3> QED
      BY <3>1, <3>4 DEF i
  <2>7. CASE ~(IsPrefix(es[i].prefix, path) /\ Len(es[i].prefix) > (IF b = 0 THEN -1 ELSE Len(es[b].prefix)))
    <3>1. f[i] = b
      BY <2>2, <2>7 DEF Better
    <3>2. b \in 0..i
      BY <2>1 DEF i
    <3>3. b = 0 => \A j \in 1..i : ~IsPrefix(es[j].prefix, path)
      BY <2>1, <2>3, <2>4, <2>7 DEF Found
    <3>4. ASSUME b # 0, NEW j \in 1..i, IsPrefix(es[j].prefix, path)
          PROVE  Len(es[j].prefix) <= Len(es[b].prefix)
      BY <2>1, <2>3, <2>4, <2>5, <2>7, <3>4 DEF Found
    <3>5. Found(es, path, b, i)
      BY <2>1, <3>2, <3>3, <3>4 DEF Found
    <3> QED
      BY <3>1, <3>5 DEF i
  <2> QED
    BY <2>6, <2>7
<1> HIDE DEF S
<1>3. \A d \in Nat : d \in S
  BY <1>1, <1>2, SetInduction
<1>4. n <= n
  OBVIOUS
<1> QED
  BY <1>3, <1>4 DEF S

\* route, for any list of entries whose prefixes have a length.
LEMMA RouteFinds ==
  ASSUME NEW es, NEW path, Len(es) \in Nat, \A j \in 1..Len(es) : Len(es[j].prefix) \in Nat
  PROVE  \E b : /\ Found(es, path, b, Len(es))
                /\ Route(es, path) = IF b = 0 THEN NoEndpoint ELSE es[b].name
<1> DEFINE n == Len(es)
           P(f) == f = [i \in 0..n |-> Step(es, path, f, i)]
           best == CHOOSE f : P(f)
<1>1. \E f : P(f)
  BY LoopExists, Zenon
<1>2. P(best)
  BY <1>1
<1>3. Route(es, path) = IF best[n] = 0 THEN NoEndpoint ELSE es[best[n]].name
  BY DEF Route, Step, Better
<1> HIDE DEF best
<1>4. Found(es, path, best[n], n)
  BY <1>2, LoopFinds
<1> QED
  BY <1>3, <1>4

-----------------------------------------------------------------------------
(* Configurations that load *)

\* A configuration that routes requests has been read from one of the files
\* and accepted.
Loaded == stage \in {"start", "configured"} => file \in Files /\ (stage = "configured" => Accepted(file))

\* The stages of main and of the lifespan keep it.
LEMMA LoadedAlways == AppSpec => []Loaded
<1>1. AppInit => Loaded
  BY DEF AppInit, Loaded
<1>2. Loaded /\ [AppNext]_appVars => Loaded'
  BY DEF Loaded, AppNext, LoadConfig, Startup, Poll, Persist, appVars
<1> QED
  BY <1>1, <1>2, PTL DEF AppSpec

\* An accepted entry has a prefix that is a string.
LEMMA AcceptedEntries ==
  ASSUME NEW f \in Files, Accepted(f)
  PROVE  /\ Len(f.endpoints) \in Nat
         /\ \A i \in 1..Len(f.endpoints) : /\ IsSequence(f.endpoints[i].prefix)
                                           /\ Len(f.endpoints[i].prefix) \in Nat
                                           /\ f.endpoints[i].name # NoEndpoint
         /\ \A i, j \in 1..Len(f.endpoints) :
              f.endpoints[i].prefix = f.endpoints[j].prefix => i = j
         /\ \A i, j \in 1..Len(f.endpoints) : f.endpoints[i].name = f.endpoints[j].name => i = j
<1> DEFINE es == f.endpoints
<1>1. Len(es) \in Nat
  BY FilesAssumption DEF IsSequence
<1>2. ASSUME NEW i \in 1..Len(es)
      PROVE  IsSequence(es[i].prefix) /\ Len(es[i].prefix) \in Nat /\ es[i].name # NoEndpoint
  <2>1. es[i].prefix \notin {Absent, Wrong}
    BY DEF Accepted, EndpointsValid, EntryValid
  <2>2. IsSequence(es[i].prefix) /\ es[i].name # NoEndpoint
    BY <2>1, FilesAssumption
  <2>3. Len(es[i].prefix) \in Nat
    BY <2>2 DEF IsSequence
  <2> QED
    BY <2>2, <2>3
<1>3. /\ \A i, j \in 1..Len(es) : es[i].prefix = es[j].prefix => i = j
      /\ \A i, j \in 1..Len(es) : es[i].name = es[j].name => i = j
  BY DEF Accepted, EndpointsValid, Distinct, Name, Prefix
<1> QED
  BY <1>1, <1>2, <1>3

\* Two prefixes of one path that are equally long are the same.
LEMMA PrefixesOfOnePath ==
  ASSUME NEW p, NEW q, NEW path, IsSequence(p), IsSequence(q),
         IsPrefix(p, path), IsPrefix(q, path), Len(p) = Len(q)
  PROVE  p = q
<1>1. p \in Seq(Range(p)) /\ q \in Seq(Range(q))
  BY DEF IsSequence
<1>2. SubSeq(p, 1, Len(p)) = p /\ SubSeq(q, 1, Len(q)) = q
  BY <1>1
<1> QED
  BY <1>2 DEF IsPrefix

\* D15: of the endpoints of a configuration that loads, however their prefixes
\* overlap and in whatever order they are listed, a request goes to the one
\* with the longest prefix that matches its path, of which there is just one.
THEOREM RoutingIsLongestMatch == AppSpec => []RoutedToLongest
<1>1. Loaded => RoutedToLongest
  <2> SUFFICES ASSUME Loaded, stage = "configured", NEW path \in Paths, NEW policy \in Policies
               PROVE  LET es == file.endpoints
                          hits == {i \in 1..Len(es) : IsPrefix(es[i].prefix, path)}
                          longest == {i \in hits : \A j \in hits : Len(es[j].prefix) <= Len(es[i].prefix)}
                          outcome == HttpOutcome(file, policy, path) IN
                      IF hits = {} THEN outcome[1] # "admit"
                      ELSE Cardinality(longest) = 1 /\ \A i \in longest : outcome = <<"admit", es[i].name>>
    BY DEF RoutedToLongest
  <2> DEFINE es == file.endpoints
             hits == {i \in 1..Len(es) : IsPrefix(es[i].prefix, path)}
             longest == {i \in hits : \A j \in hits : Len(es[j].prefix) <= Len(es[i].prefix)}
             outcome == HttpOutcome(file, policy, path)
  <2>1. file \in Files /\ Accepted(file)
    BY DEF Loaded
  <2>2. /\ Len(es) \in Nat
        /\ \A i \in 1..Len(es) : /\ IsSequence(es[i].prefix)
                                 /\ Len(es[i].prefix) \in Nat
                                 /\ es[i].name # NoEndpoint
        /\ \A i, j \in 1..Len(es) : es[i].prefix = es[j].prefix => i = j
    BY <2>1, AcceptedEntries
  <2>3. PICK b : /\ Found(es, path, b, Len(es))
                 /\ Route(es, path) = IF b = 0 THEN NoEndpoint ELSE es[b].name
    BY <2>2, RouteFinds
  <2>4. CASE b = 0
    <3>1. hits = {}
      BY <2>3, <2>4 DEF Found
    <3>2. Route(es, path) = NoEndpoint
      BY <2>3, <2>4
    <3>3. outcome[1] # "admit"
      BY <3>2 DEF HttpOutcome
    <3> QED
      BY <3>1, <3>3
  <2>5. CASE b # 0
    <3>1. b \in 1..Len(es) /\ b \in hits
      BY <2>2, <2>3, <2>5 DEF Found
    <3>2. b \in longest
      BY <2>3, <2>5, <3>1 DEF Found
    <3>3. ASSUME NEW i \in longest
          PROVE  i = b
      <4>1. i \in 1..Len(es) /\ IsPrefix(es[i].prefix, path) /\ IsPrefix(es[b].prefix, path)
        BY <3>1
      <4>2. Len(es[i].prefix) <= Len(es[b].prefix) /\ Len(es[b].prefix) <= Len(es[i].prefix)
        BY <3>1, <3>2
      <4>3. Len(es[i].prefix) \in Nat /\ Len(es[b].prefix) \in Nat
        BY <2>2, <3>1, <4>1
      <4>4. Len(es[i].prefix) = Len(es[b].prefix)
        BY <4>2, <4>3
      <4>5. IsSequence(es[i].prefix) /\ IsSequence(es[b].prefix)
        BY <2>2, <3>1, <4>1
      <4>6. es[i].prefix = es[b].prefix
        BY <4>1, <4>4, <4>5, PrefixesOfOnePath
      <4> QED
        BY <2>2, <3>1, <4>1, <4>6
    <3>4. longest = {b}
      BY <3>2, <3>3
    <3>5. Cardinality(longest) = 1
      BY <3>4, FS_Singleton
    <3>6. Route(es, path) = es[b].name /\ es[b].name # NoEndpoint
      BY <2>2, <2>3, <2>5, <3>1
    <3>7. outcome = <<"admit", es[b].name>>
      BY <3>6 DEF HttpOutcome
    <3> QED
      BY <3>1, <3>4, <3>5, <3>7
  <2> QED
    BY <2>4, <2>5
<1> QED
  BY <1>1, LoadedAlways, PTL

\* D18: ws_proxy routes as the HTTP proxy does, and closes the connection
\* where the proxy answers with an error.
THEOREM WebSocketsMirrorHttp == AppSpec => []WsMirrorsHttp
<1>1. WsMirrorsHttp
  BY DEF WsMirrorsHttp, HttpOutcome, WsOutcome
<1> QED
  BY <1>1, PTL

\* RelayApp.setup: for each entry of a configuration that loads, the table of
\* names and the list of its server hold the same runtime, once.
THEOREM EachEntryOneRuntime == AppSpec => []OneRuntimeEach
<1>1. Loaded => OneRuntimeEach
  <2> SUFFICES ASSUME Loaded, stage = "configured", NEW i \in 1..Len(file.endpoints)
               PROVE  LET e == file.endpoints[i] IN
                      /\ EndpointTable(file)[e.name] = e
                      /\ Cardinality({j \in EndpointsOf(file, e.server) :
                                        file.endpoints[j].name = e.name}) = 1
    BY DEF OneRuntimeEach
  <2> DEFINE es == file.endpoints
             e == es[i]
             IsLast(j) == es[j].name = e.name /\ \A k \in (j+1)..Len(es) : es[k].name # e.name
             chosen == CHOOSE j \in 1..Len(es) : IsLast(j)
  <2>1. Len(es) \in Nat /\ \A j, k \in 1..Len(es) : es[j].name = es[k].name => j = k
    BY AcceptedEntries DEF Loaded
  <2>2. IsLast(i)
    BY <2>1
  <2>3. chosen \in 1..Len(es) /\ IsLast(chosen)
    BY <2>2
  <2>4. chosen = i
    BY <2>1, <2>3
  <2>5. EndpointTable(file)[e.name] = es[chosen]
    BY DEF EndpointTable
  <2>6. {j \in EndpointsOf(file, e.server) : es[j].name = e.name} = {i}
    BY <2>1 DEF EndpointsOf
  <2>7. Cardinality({j \in EndpointsOf(file, e.server) : es[j].name = e.name}) = 1
    BY <2>6, FS_Singleton
  <2> QED
    BY <2>4, <2>5, <2>7
<1> QED
  BY <1>1, LoadedAlways, PTL

-----------------------------------------------------------------------------
(* Session identity *)

\* The first of some names has a value exactly if one of them has.
LEMMA FirstOfMissing ==
  ASSUME NEW names, NEW values, Len(names) \in Nat
  PROVE  FirstOf(names, values) # Missing <=> \E i \in 1..Len(names) : values[names[i]] # Missing
<1> DEFINE there == {i \in 1..Len(names) : values[names[i]] # Missing}
           first == CHOOSE i \in there : \A j \in there : i <= j
<1>1. CASE there = {}
  BY <1>1 DEF FirstOf
<1>2. CASE there # {}
  <2>1. there \in SUBSET Nat
    OBVIOUS
  <2>2. \E i \in there : \A j \in there : i <= j
    <3> HIDE DEF there
    <3> QED
      BY <1>2, <2>1, Smallest
  <2>3. first \in there
    BY <2>2
  <2>4. FirstOf(names, values) = values[names[first]]
    BY <1>2 DEF FirstOf
  <2> QED
    BY <2>3, <2>4
<1> QED
  BY <1>1, <1>2

\* detect_client finds the first provider that matches, or none.
LEMMA Detected ==
  ASSUME NEW request, DetectClient(Providers, request) # <<>>
  PROVE  \E i \in 1..Len(Providers) : /\ DetectClient(Providers, request) = <<Providers[i]>>
                                      /\ Matches(Providers[i], request)
                                      /\ \A m \in 1..(i-1) : ~Matches(Providers[m], request)
<1> DEFINE matching == {i \in 1..Len(Providers) : Matches(Providers[i], request)}
           first == CHOOSE i \in matching : \A j \in matching : i <= j
<1>1. matching # {} /\ DetectClient(Providers, request) = <<Providers[first]>>
  BY DEF DetectClient
<1>2. Len(Providers) \in Nat
  BY ProvidersAssumption DEF IsSequence
<1>3. matching \in SUBSET Nat
  BY <1>2
<1>4. \E i \in matching : \A j \in matching : i <= j
  <2> HIDE DEF matching
  <2> QED
    BY <1>1, <1>3, Smallest
<1>5. first \in matching /\ \A j \in matching : first <= j
  BY <1>4
<1> HIDE DEF first
<1>6. \A m \in 1..(first - 1) : ~Matches(Providers[m], request)
  BY <1>2, <1>5
<1> QED
  BY <1>1, <1>5, <1>6

\* A provider that matches has a header value.
LEMMA MatchingHasValue ==
  ASSUME NEW request, NEW i \in 1..Len(Providers), Matches(Providers[i], request)
  PROVE  SessionHeaderValue(Providers[i], request) # Missing
<1> DEFINE own == Providers[i].own
           gated == Providers[i].gated
<1>1. own \in Seq(Range(own)) /\ gated \in Seq(Range(gated))
  BY ProvidersAssumption DEF IsSequence
<1>2. /\ own \in Seq(Range(own) \cup Range(gated)) /\ gated \in Seq(Range(own) \cup Range(gated))
      /\ Len(own) \in Nat /\ Len(gated) \in Nat
  BY <1>1
<1>h. \/ \E n \in 1..Len(own) : request.headers[own[n]] # Missing
      \/ \E n \in 1..Len(gated) : request.headers[gated[n]] # Missing
  BY <1>2, FirstOfMissing DEF Matches
<1> HIDE DEF own, gated
<1>3. /\ Len(own \o gated) = Len(own) + Len(gated)
      /\ \A n \in 1..Len(own) : (own \o gated)[n] = own[n]
      /\ \A n \in 1..Len(gated) : (own \o gated)[Len(own) + n] = gated[n]
  BY <1>2
<1>4. /\ \A n \in 1..Len(own) : n \in 1..(Len(own) + Len(gated))
      /\ \A n \in 1..Len(gated) : Len(own) + n \in 1..(Len(own) + Len(gated))
  BY <1>2
<1>5. \E n \in 1..Len(own \o gated) : request.headers[(own \o gated)[n]] # Missing
  BY <1>h, <1>3, <1>4
<1>6. Len(own \o gated) \in Nat
  BY <1>2, <1>3
<1>7. FirstOf(own \o gated, request.headers) # Missing
  BY <1>5, <1>6, FirstOfMissing
<1> QED
  BY <1>7 DEF SessionHeaderValue, own, gated

\* A value that is looked up is one of the values of these names.
LEMMA FirstOfIn ==
  ASSUME NEW names, NEW values, Len(names) \in Nat, FirstOf(names, values) # Missing
  PROVE  \E i \in 1..Len(names) :
           /\ values[names[i]] # Missing /\ FirstOf(names, values) = values[names[i]]
           /\ \A j \in 1..Len(names) : values[names[j]] # Missing => i <= j
<1> DEFINE there == {i \in 1..Len(names) : values[names[i]] # Missing}
           first == CHOOSE i \in there : \A j \in there : i <= j
<1>1. there # {} /\ FirstOf(names, values) = values[names[first]]
  BY DEF FirstOf
<1>2. there \in SUBSET Nat
  OBVIOUS
<1>3. \E i \in there : \A j \in there : i <= j
  <2> HIDE DEF there
  <2> QED
    BY <1>1, <1>2, Smallest
<1>4. first \in there /\ \A j \in there : first <= j
  BY <1>3
<1> HIDE DEF first
<1> QED
  BY <1>1, <1>4

\* The value of a provider comes from a header of its own, or, if the request
\* has none of them, from a gated one.
LEMMA ValueFrom ==
  ASSUME NEW request, NEW n \in 1..Len(Providers), SessionHeaderValue(Providers[n], request) # Missing
  PROVE  LET own == Providers[n].own
             gated == Providers[n].gated
             result == SessionHeaderValue(Providers[n], request) IN
         \/ \E i \in 1..Len(own) : request.headers[own[i]] # Missing /\ result = request.headers[own[i]]
         \/ /\ \A i \in 1..Len(own) : request.headers[own[i]] = Missing
            /\ \E i \in 1..Len(gated) :
                 request.headers[gated[i]] # Missing /\ result = request.headers[gated[i]]
<1> DEFINE own == Providers[n].own
           gated == Providers[n].gated
           result == SessionHeaderValue(Providers[n], request)
<1>1. own \in Seq(Range(own)) /\ gated \in Seq(Range(gated))
  BY ProvidersAssumption DEF IsSequence
<1>2. /\ own \in Seq(Range(own) \cup Range(gated)) /\ gated \in Seq(Range(own) \cup Range(gated))
      /\ Len(own) \in Nat /\ Len(gated) \in Nat
  BY <1>1
<1>3. result = FirstOf(own \o gated, request.headers) /\ result # Missing
  BY DEF SessionHeaderValue
<1> HIDE DEF own, gated, result
<1>4. /\ Len(own \o gated) = Len(own) + Len(gated)
      /\ \A i \in 1..Len(own) : (own \o gated)[i] = own[i]
      /\ \A i \in 1..Len(gated) : (own \o gated)[Len(own) + i] = gated[i]
  BY <1>2
<1>f. Len(own \o gated) \in Nat /\ FirstOf(own \o gated, request.headers) # Missing
  BY <1>2, <1>3, <1>4
<1>5. PICK m \in 1..Len(own \o gated) :
        /\ request.headers[(own \o gated)[m]] # Missing
        /\ result = request.headers[(own \o gated)[m]]
        /\ \A j \in 1..Len(own \o gated) : request.headers[(own \o gated)[j]] # Missing => m <= j
  BY ONLY <1>f, <1>3, FirstOfIn
<1>6. CASE m \in 1..Len(own)
  BY <1>4, <1>5, <1>6 DEF own, gated, result
<1>7. CASE m \notin 1..Len(own)
  <2>1. m - Len(own) \in 1..Len(gated) /\ m = Len(own) + (m - Len(own))
    BY <1>2, <1>4, <1>7
  <2>2. (own \o gated)[m] = gated[m - Len(own)]
    BY <1>4, <2>1
  <2>3. ASSUME NEW i \in 1..Len(own), request.headers[own[i]] # Missing
        PROVE  FALSE
    <3>1. i \in 1..Len(own \o gated) /\ i < m
      BY <1>2, <1>4, <1>7
    <3>2. request.headers[(own \o gated)[i]] # Missing
      BY <1>4, <2>3
    <3> QED
      BY <1>2, <1>5, <3>1, <3>2
  <2> QED
    BY <1>5, <2>1, <2>2, <2>3 DEF own, gated, result
<1> QED
  BY <1>6, <1>7

\* What Matches asks of a request.
LEMMA MatchesWhen ==
  ASSUME NEW request, NEW n \in 1..Len(Providers)
  PROVE  LET p == Providers[n] IN
         Matches(p, request) <=>
           \/ \E i \in 1..Len(p.own) : request.headers[p.own[i]] # Missing
           \/ p.name \in request.agents /\ \E i \in 1..Len(p.gated) : request.headers[p.gated[i]] # Missing
<1>1. Len(Providers[n].own) \in Nat /\ Len(Providers[n].gated) \in Nat
  BY ProvidersAssumption DEF IsSequence
<1> QED
  BY <1>1, FirstOfMissing DEF Matches

\* S2: for every list of providers, however they share headers, and every
\* request: a session is attributed to the first client that the headers
\* identify, with a value this client may have sent, by resolve_session_id and
\* resolve_session_id_ws alike; without such a client it is unknown.
THEOREM SessionsAttributed == AppSpec => []NotMisattributed
<1>1. NotMisattributed
  <2> SUFFICES ASSUME NEW request \in Requests, NEW identity,
                      \/ identity = HttpIdentity(Providers, Generic, Fields, request)
                      \/ identity = WsIdentity(Providers, Generic, request)
               PROVE  Attributed(identity, request)
    BY DEF NotMisattributed
  <2> DEFINE detected == DetectClient(Providers, request)
             result == SessionHeaderValue(detected[1], request)
  <2>1. CASE detected = <<>>
    <3>1. identity[1] = "unknown"
      BY <2>1 DEF HttpIdentity, WsIdentity, LastResort, Unknown
    <3>2. \A n \in 1..Len(Providers) : ~Matches(Providers[n], request)
      BY <2>1 DEF DetectClient
    <3>3. \A n \in 1..Len(Providers) : ~Identified(Providers[n], request)
      BY <3>2, MatchesWhen DEF Identified, OwnOf, GatedOf
    <3> QED
      BY <3>1, <3>3 DEF Attributed
  <2>2. CASE detected # <<>>
    <3>1. PICK n \in 1..Len(Providers) :
            /\ detected = <<Providers[n]>> /\ Matches(Providers[n], request)
            /\ \A m \in 1..(n-1) : ~Matches(Providers[m], request)
      BY <2>2, Detected
    <3> DEFINE p == Providers[n]
    <3>2. detected[1] = p
      BY <3>1
    <3>3. result = SessionHeaderValue(p, request) /\ result # Missing
      BY <3>1, <3>2, MatchingHasValue
    <3>4. identity = <<p.name, result>>
      BY <2>2, <3>2, <3>3 DEF HttpIdentity, WsIdentity
    <3>5. \/ \E i \in 1..Len(p.own) : request.headers[p.own[i]] # Missing /\ result = request.headers[p.own[i]]
          \/ /\ \A i \in 1..Len(p.own) : request.headers[p.own[i]] = Missing
             /\ \E i \in 1..Len(p.gated) :
                  request.headers[p.gated[i]] # Missing /\ result = request.headers[p.gated[i]]
      BY <3>3, ValueFrom
    <3>6. \/ \E i \in 1..Len(p.own) : request.headers[p.own[i]] # Missing
          \/ p.name \in request.agents /\ \E i \in 1..Len(p.gated) : request.headers[p.gated[i]] # Missing
      BY <3>1, MatchesWhen
    <3>7. \A m \in 1..(n-1) : ~Identified(Providers[m], request)
      <4> TAKE m \in 1..(n-1)
      <4>1. m \in 1..Len(Providers)
        BY ProvidersAssumption DEF IsSequence
      <4> QED
        BY <3>1, <4>1, MatchesWhen DEF Identified, OwnOf, GatedOf
    <3> HIDE DEF detected, result, p
    <3>8. AttributedTo(p, identity, request)
      BY <3>4, <3>5, <3>6 DEF AttributedTo, OwnOf, GatedOf
    <3> QED
      BY <3>7, <3>8 DEF Attributed, p
  <2> QED
    BY <2>1, <2>2
<1> QED
  BY <1>1, PTL

-----------------------------------------------------------------------------
(* The environment *)

LEMMA FileList ==
  /\ Len(EnvFiles) = 4 /\ DOMAIN EnvFiles = 1..4
  /\ EnvFiles[1] = <<"cwd", ".env">> /\ EnvFiles[2] = <<"config", ".env">>
  /\ EnvFiles[3] = <<"cwd", "secrets.env">> /\ EnvFiles[4] = <<"config", "secrets.env">>
BY DEF EnvFiles

LEMMA FileRange ==
  /\ \A i \in 1..4 : EnvFiles[i] \in Range(EnvFiles)
  /\ \A f \in Range(EnvFiles) : \E i \in 1..4 : f = EnvFiles[i]
BY FileList DEF Range

\* Of any of the four files there is one that overrides the others.
LEMMA LastOfFour ==
  ASSUME NEW H \in SUBSET (1..4), H # {}
  PROVE  \E m \in H : \A j \in H : j <= m
<1>1. CASE 4 \in H
  BY <1>1
<1>2. CASE 4 \notin H /\ 3 \in H
  BY <1>2
<1>3. CASE 4 \notin H /\ 3 \notin H /\ 2 \in H
  BY <1>3
<1>4. CASE 4 \notin H /\ 3 \notin H /\ 2 \notin H
  <2>1. \A j \in H : j = 1
    <3> TAKE j \in H
    <3>1. j \in 1..4 /\ j # 4 /\ j # 3 /\ j # 2
      BY <1>4
    <3> QED
      BY ONLY <3>1
  <2>2. PICK i \in H : TRUE
    OBVIOUS
  <2>3. i = 1 /\ \A j \in H : j <= 1
    BY <2>1
  <2> QED
    BY <2>2, <2>3
<1> QED
  BY <1>1, <1>2, <1>3, <1>4

\* The order of EnvFiles: secrets over the rest, then next to the
\* configuration file over the working directory.
LEMMA Overriding ==
  ASSUME NEW m \in 1..4, NEW j \in 1..4, j < m
  PROVE  Overrides(EnvFiles[m], EnvFiles[j])
<1>1. CASE m = 4
  BY <1>1, FileList DEF Overrides
<1>2. CASE m = 3
  BY <1>2, FileList DEF Overrides
<1>3. CASE m = 2
  BY <1>3, FileList DEF Overrides
<1> QED
  BY <1>1, <1>2, <1>3 DEF Overrides

\* Of a set of files that is not empty the documented order has one winner,
\* the last in the order in which _load_env_files merges them.
LEMMA WinnerIsLast ==
  ASSUME NEW having \in SUBSET (Range(EnvFiles)), NEW m \in 1..4, EnvFiles[m] \in having,
         \A j \in 1..4 : EnvFiles[j] \in having => j <= m
  PROVE  EnvFiles[m] = CHOOSE f \in having : \A g \in having \ {f} : Overrides(f, g)
<1> DEFINE IsWinner(f) == \A g \in having \ {f} : Overrides(f, g)
<1>1. IsWinner(EnvFiles[m])
  <2> SUFFICES ASSUME NEW g \in having \ {EnvFiles[m]}
               PROVE  Overrides(EnvFiles[m], g)
    OBVIOUS
  <2>1. PICK j \in 1..4 : g = EnvFiles[j]
    BY FileRange
  <2>2. j # m /\ j <= m
    BY <2>1
  <2>3. j < m
    BY <2>2
  <2> QED
    BY <2>1, <2>3, Overriding
<1>2. ASSUME NEW f \in having, IsWinner(f)
      PROVE  f = EnvFiles[m]
  <2> SUFFICES ASSUME f # EnvFiles[m]
               PROVE  FALSE
    OBVIOUS
  <2>1. Overrides(f, EnvFiles[m]) /\ Overrides(EnvFiles[m], f)
    BY <1>1, <1>2
  <2> QED
    BY <2>1 DEF Overrides
<1> HIDE DEF IsWinner
<1>3. EnvFiles[m] = CHOOSE f \in having : IsWinner(f)
  BY <1>1, <1>2
<1> QED
  BY <1>3 DEF IsWinner

\* _load_env_files: for everything that the process and the four files can say
\* of a variable, os.environ has what the process says, or what the file says
\* that comes first in the documented order.
LEMMA ValueGiven ==
  ASSUME NEW process, NEW files \in FileTexts
  PROVE  LET having == {f \in Range(EnvFiles) : files[f] # Absent}
             winner == CHOOSE f \in having : \A g \in having \ {f} : Overrides(f, g)
         IN EnvValue(process, files) = IF process # Absent THEN process
                                       ELSE IF having # {} THEN files[winner] ELSE Absent
<1> DEFINE having == {f \in Range(EnvFiles) : files[f] # Absent}
           H == {i \in 1..Len(EnvFiles) : files[EnvFiles[i]] # Absent}
           last == CHOOSE i \in H : \A j \in H : j <= i
<1>1. H = {i \in 1..4 : files[EnvFiles[i]] # Absent}
  BY FileList
<1>2. EnvValue(process, files) = IF process # Absent \/ H = {} THEN process ELSE files[EnvFiles[last]]
  BY DEF EnvValue
<1>3. H = {} <=> having = {}
  BY <1>1, FileRange
<1>4. CASE process # Absent \/ H = {}
  BY <1>2, <1>3, <1>4
<1>5. CASE process = Absent /\ H # {}
  <2>1. \E i \in H : \A j \in H : j <= i
    <3>1. H \in SUBSET (1..4) /\ H # {}
      BY <1>1, <1>5
    <3> HIDE DEF H
    <3> QED
      BY <3>1, LastOfFour
  <2>2. last \in H /\ \A j \in H : j <= last
    BY <2>1
  <2> HIDE DEF last
  <2>3. last \in 1..4 /\ EnvFiles[last] \in having
    BY <1>1, <2>2, FileRange
  <2>4. \A j \in 1..4 : EnvFiles[j] \in having => j <= last
    BY <1>1, <2>2
  <2>5. having \in SUBSET (Range(EnvFiles))
    OBVIOUS
  <2> HIDE DEF having
  <2>6. EnvFiles[last] = CHOOSE f \in having : \A g \in having \ {f} : Overrides(f, g)
    BY <2>3, <2>4, <2>5, WinnerIsLast
  <2>7. having # {}
    BY <1>3, <1>5
  <2>8. EnvValue(process, files) = files[EnvFiles[last]]
    BY <1>2, <1>5
  <2> QED
    BY <1>5, <2>6, <2>7, <2>8 DEF having
<1> QED
  BY <1>4, <1>5

\* A variable that the process does not have comes from a file, or from none.
LEMMA EnvFromFile ==
  ASSUME NEW files
  PROVE  \/ EnvValue(Absent, files) = Absent
         \/ \E f \in Range(EnvFiles) : EnvValue(Absent, files) = files[f]
<1> DEFINE H == {i \in 1..Len(EnvFiles) : files[EnvFiles[i]] # Absent}
           last == CHOOSE i \in H : \A j \in H : j <= i
<1>1. H = {i \in 1..4 : files[EnvFiles[i]] # Absent}
  BY FileList
<1>2. EnvValue(Absent, files) = IF H = {} THEN Absent ELSE files[EnvFiles[last]]
  BY DEF EnvValue
<1>3. H # {} => last \in 1..4
  <2> SUFFICES ASSUME H # {} PROVE last \in 1..4
    OBVIOUS
  <2>1. H \in SUBSET (1..4)
    BY <1>1
  <2> HIDE DEF H
  <2>2. \E i \in H : \A j \in H : j <= i
    BY <2>1, LastOfFour
  <2> QED
    BY <2>1, <2>2
<1> QED
  BY <1>2, <1>3, FileRange

\* What texts are made of.
Pieces == {"text", "${", "cwd", "config", ".env", "secrets.env"}

\* Short sequences of pieces.
LEMMA ShortTexts ==
  ASSUME NEW S
  PROVE  /\ <<>> \in Seq(S) /\ \A x \in S : <<x>> \in Seq(S)
         /\ \A x, y \in S : <<x, y>> \in Seq(S)
         /\ \A f \in Seq(S), x \in S : Append(f, x) \in Seq(S)
<1>1. <<>> \in Seq(S)
  OBVIOUS
<1>2. \A x \in S : <<x>> \in Seq(S)
  OBVIOUS
<1>3. \A x, y \in S : <<x, y>> \in Seq(S)
  OBVIOUS
<1>4. \A f \in Seq(S), x \in S : Append(f, x) \in Seq(S)
  OBVIOUS
<1> QED
  BY <1>1, <1>2, <1>3, <1>4

\* What two texts together contain is contained in one of them.
LEMMA TextParts ==
  ASSUME NEW a \in Seq(Pieces), NEW b \in Seq(Pieces)
  PROVE  Range(a \o b) = Range(a) \cup Range(b)
<1>2. Len(a) \in Nat /\ Len(b) \in Nat
  OBVIOUS
<1>3. /\ a \o b \in Seq(Pieces) /\ Len(a \o b) = Len(a) + Len(b)
      /\ \A i \in 1..Len(a) : (a \o b)[i] = a[i]
      /\ \A i \in 1..Len(b) : (a \o b)[Len(a) + i] = b[i]
  BY <1>2
<1>4. /\ DOMAIN a = 1..Len(a) /\ DOMAIN b = 1..Len(b) /\ DOMAIN (a \o b) = 1..(Len(a) + Len(b))
  BY <1>2, <1>3
<1>5. ASSUME NEW x \in Range(a \o b)
      PROVE  x \in Range(a) \cup Range(b)
  <2>1. PICK i \in 1..(Len(a) + Len(b)) : x = (a \o b)[i]
    BY <1>4 DEF Range
  <2>2. CASE i \in 1..Len(a)
    BY <1>3, <1>4, <2>1, <2>2 DEF Range
  <2>3. CASE i \notin 1..Len(a)
    <3>1. i - Len(a) \in 1..Len(b) /\ i = Len(a) + (i - Len(a))
      BY <1>2, <2>3
    <3>2. x = b[i - Len(a)]
      BY <1>3, <2>1, <3>1
    <3> QED
      BY <1>4, <3>1, <3>2 DEF Range
  <2> QED
    BY <2>2, <2>3
<1>6. ASSUME NEW x \in Range(a) \cup Range(b)
      PROVE  x \in Range(a \o b)
  <2>1. CASE x \in Range(a)
    <3>1. PICK i \in 1..Len(a) : x = a[i]
      BY <1>4, <2>1 DEF Range
    <3>2. i \in 1..(Len(a) + Len(b)) /\ x = (a \o b)[i]
      BY <1>2, <1>3, <3>1
    <3> QED
      BY <1>4, <3>2 DEF Range
  <2>2. CASE x \in Range(b)
    <3>1. PICK i \in 1..Len(b) : x = b[i]
      BY <1>4, <2>2 DEF Range
    <3>2. Len(a) + i \in 1..(Len(a) + Len(b)) /\ x = (a \o b)[Len(a) + i]
      BY <1>2, <1>3, <3>1
    <3> QED
      BY <1>4, <3>2 DEF Range
  <2> QED
    BY <1>6, <2>1, <2>2
<1> QED
  BY <1>5, <1>6

\* The texts are sequences of pieces, and none is None.
LEMMA TextTypes ==
  /\ Texts \subseteq Seq(Pieces) /\ Absent \notin Texts
  /\ \A files \in FileTexts : \A f \in Range(EnvFiles) :
       files[f] = Absent \/ files[f] \in Seq(Pieces)
<1>0. /\ <<>> \in Seq(Pieces) /\ \A x \in Pieces : <<x>> \in Seq(Pieces)
      /\ \A x, y \in Pieces : <<x, y>> \in Seq(Pieces)
  BY ShortTexts
<1>s. /\ "text" \in Pieces /\ "${" \in Pieces /\ "cwd" \in Pieces /\ "config" \in Pieces
      /\ ".env" \in Pieces /\ "secrets.env" \in Pieces
  BY DEF Pieces
<1>1. Texts \subseteq Seq(Pieces)
  BY <1>0, <1>s DEF Texts, EmptyString
<1>2. \A f \in Range(EnvFiles) : f \in Seq(Pieces)
  <2>1. \A i \in 1..4 : EnvFiles[i] \in Seq(Pieces)
    <3>1. \A i \in 1..4 : i = 1 \/ i = 2 \/ i = 3 \/ i = 4
      OBVIOUS
    <3> QED
      BY <1>0, <1>s, <3>1, FileList, Zenon
  <2> QED
    BY <2>1, FileRange
<1>3. \A f \in Range(EnvFiles) : GivenBy(f) \subseteq Seq(Pieces)
  <2>1. \A f \in Seq(Pieces), x \in Pieces : Append(f, x) \in Seq(Pieces)
    BY ShortTexts
  <2> QED
    BY <1>0, <1>2, <1>s, <2>1 DEF GivenBy, EmptyString
<1>4. \A files \in FileTexts : \A f \in Range(EnvFiles) : files[f] \in {Absent} \cup GivenBy(f)
  BY DEF FileTexts
<1> QED
  BY <1>1, <1>3, <1>4, NoStrings

\* _load_env_files and _interpolate, for everything that process, files and
\* default may say: the process hides the files, secrets and then the copy next
\* to the configuration file win, empty gives way to a default, and a result
\* that still contains a reference, like one that nobody defines, is an error.
THEOREM EnvironmentPrecedence == AppSpec => []EnvPrecedence
<1>1. EnvPrecedence
  <2> SUFFICES ASSUME NEW before \in Texts, NEW process \in Texts \cup {Absent},
                      NEW default \in Texts \cup {Absent}, NEW files \in FileTexts
               PROVE  LET having == {f \in Range(EnvFiles) : files[f] # Absent}
                          winner == CHOOSE f \in having : \A g \in having \ {f} : Overrides(f, g)
                          given == IF process # Absent THEN process
                                   ELSE IF having # {} THEN files[winner] ELSE Absent
                          used == IF given \in {Absent, EmptyString} /\ default # Absent
                                  THEN default ELSE given
                          result == Interpolate(before, EnvValue(process, files), default)
                      IN result = IF used = Absent \/ "${" \in Range(before) \cup Range(used)
                                  THEN Wrong ELSE before \o used
    BY DEF EnvPrecedence
  <2> DEFINE having == {f \in Range(EnvFiles) : files[f] # Absent}
             winner == CHOOSE f \in having : \A g \in having \ {f} : Overrides(f, g)
             given == IF process # Absent THEN process
                      ELSE IF having # {} THEN files[winner] ELSE Absent
             used == IF given \in {Absent, EmptyString} /\ default # Absent
                     THEN default ELSE given
             result == Interpolate(before, EnvValue(process, files), default)
  <2>1. EnvValue(process, files) = given
    BY ValueGiven
  <2>2. given = Absent \/ given \in Seq(Pieces)
    <3>1. CASE process # Absent
      BY <3>1, TextTypes
    <3>2. CASE process = Absent
      <4>1. EnvValue(process, files) = Absent \/ \E f \in Range(EnvFiles) : EnvValue(process, files) = files[f]
        BY <3>2, EnvFromFile
      <4> QED
        BY <2>1, <4>1, TextTypes
    <3> QED
      BY <3>1, <3>2
  <2> HIDE DEF given
  <2>3. used = Absent \/ used \in Seq(Pieces)
    BY <2>2, TextTypes
  <2>4. result = IF used = Absent THEN Wrong
                 ELSE IF "${" \in Range(before \o used) THEN Wrong ELSE before \o used
    BY <2>1 DEF Interpolate
  <2> HIDE DEF used, result
  <2>5. used # Absent => Range(before \o used) = Range(before) \cup Range(used)
    BY <2>3, TextTypes, TextParts
  <2>6. result = IF used = Absent \/ "${" \in Range(before) \cup Range(used) THEN Wrong ELSE before \o used
    BY <2>4, <2>5
  <2> QED
    BY <2>6 DEF given, used, result
<1> QED
  BY <1>1, PTL

=============================================================================
