---------------------------- MODULE Application ----------------------------
(***************************************************************************)
(* The life of a relay process (relay/main.py): it reads its configuration *)
(* and refuses to start or builds its tables; then it opens its store, and *)
(* requests and WebSockets are routed over the tables, their sessions      *)
(* identified, and the managers of the queued endpoints poll the clients'  *)
(* status.                                                                 *)
(*                                                                         *)
(* The configuration does not change after the start.  Store and polling   *)
(* share no state.  So a relay is followed into one of them: one whose     *)
(* queued endpoints are Endpoints into StatusPolling, one that has no      *)
(* queued endpoint, and so nothing to poll, into Store, and for all the    *)
(* others it is the tables that matter.                                    *)
(***************************************************************************)
EXTENDS Config, Clients, StatusPolling, Store

CONSTANTS
  Files,       \* configuration files
  Paths,       \* request paths
  Providers, Generic, Fields,  \* clients[], session_id_headers, session_id_body_fields
  Requests     \* requests, as far as their identity goes

IsSequence(s) == s \in Seq(Range(s))

\* A name is a string of the file, never Python's None; a prefix that is
\* there and of the right type is a string.
ASSUME FilesAssumption ==
  \A f \in Files :
    /\ IsSequence(f.endpoints)
    /\ \A i \in 1..Len(f.endpoints) :
         /\ f.endpoints[i].name # NoEndpoint
         /\ f.endpoints[i].prefix \in {Absent, Wrong} \/ IsSequence(f.endpoints[i].prefix)

\* What an environment variable, a default, or the text before a reference may
\* be; a file that has the variable gives it the name of the file, an empty
\* value, or one with an unresolved reference.
Texts == {EmptyString, <<"text">>, <<"${">>}

GivenBy(f) == {EmptyString, f, Append(f, "${")}

FileTexts ==
  {files \in [Range(EnvFiles) -> {Absent} \cup UNION {GivenBy(f) : f \in Range(EnvFiles)}] :
     \A f \in Range(EnvFiles) : files[f] \in {Absent} \cup GivenBy(f)}

\* Python's None is none of these strings, and neither is the ConfigError.
ASSUME NoStrings == {Absent, Wrong} \cap (Texts \cup UNION {GivenBy(f) : f \in Range(EnvFiles)}) = {}

ASSUME ProvidersAssumption ==
  /\ IsSequence(Providers)
  /\ \A i \in 1..Len(Providers) : IsSequence(Providers[i].own) /\ IsSequence(Providers[i].gated)

VARIABLES stage, file

appVars == <<stage, file, pollingVars, vars>>

NoFile == [servers |-> <<>>, endpoints |-> <<>>]

\* The store finds a fresh database and a disk with room (both change later).
AppInit ==
  /\ stage = "start" /\ file \in Files
  /\ PollingInit
  /\ Init /\ disk = "ok" /\ ~hasRow

\* main: load_config succeeds, or the process exits with the ConfigError.
LoadConfig ==
  /\ stage = "start"
  /\ stage' = IF Accepted(file) THEN "configured" ELSE "exited"
  /\ UNCHANGED <<file, pollingVars, vars>>

QueuedEndpoints(f) ==
  {f.endpoints[i].name : i \in {j \in 1..Len(f.endpoints) :
                                  Field(f.endpoints[j].routing, "queued") = "queued"}}

\* lifespan: setup and startup; the endpoints' loops and those of the store run
\* from here on.
Startup ==
  /\ stage = "configured"
  /\ \/ stage' = "polling" /\ QueuedEndpoints(file) = Endpoints
     \/ stage' = "storing" /\ QueuedEndpoints(file) = {}
  /\ file' = NoFile
  /\ UNCHANGED <<pollingVars, vars>>

Poll ==
  /\ stage = "polling"
  /\ PollingNext
  /\ UNCHANGED <<stage, file, vars>>

Persist ==
  /\ stage = "storing"
  /\ Next
  /\ UNCHANGED <<stage, file, pollingVars>>

AppNext == LoadConfig \/ Startup \/ Poll \/ Persist

AppSpec == AppInit /\ [][AppNext]_appVars

\* The loops of the store.
AppFairSpec == AppSpec /\ Fairness

-----------------------------------------------------------------------------
(* Properties *)

Policies == {"allow", "block"}

\* D15: among the configurations that load, overlapping prefixes included,
\* a path is admitted exactly if some prefix matches it, and there is exactly
\* one endpoint with the longest: where it goes does not depend on the order
\* of the entries.
RoutedToLongest ==
  stage = "configured" =>
    \A path \in Paths, policy \in Policies :
      LET es == file.endpoints
          hits == {i \in 1..Len(es) : IsPrefix(es[i].prefix, path)}
          longest == {i \in hits : \A j \in hits : Len(es[j].prefix) <= Len(es[i].prefix)}
          outcome == HttpOutcome(file, policy, path) IN
      IF hits = {} THEN outcome[1] # "admit"
      ELSE Cardinality(longest) = 1 /\ \A i \in longest : outcome = <<"admit", es[i].name>>

\* D18, "mirrors the HTTP proxy's routing": a WebSocket goes where a request
\* for the same path goes, in the same way, and is closed where the request
\* gets an error.
WsMirrorsHttp ==
  stage = "configured" =>
    \A path \in Paths, policy \in Policies :
      LET http == HttpOutcome(file, policy, path)
          ws == WsOutcome(file, policy, path) IN
      IF http[1] \in {"admit", "passthrough"} THEN ws = http ELSE ws[1] = "1008"

\* The endpoint a request is routed to (by the table of names) and the one its
\* server asks for activity before it shuts down (server.endpoints) are the
\* same runtime, for each entry of the configuration: none is replaced in the
\* one and left in the other.
OneRuntimeEach ==
  stage = "configured" =>
    \A i \in 1..Len(file.endpoints) :
      LET e == file.endpoints[i] IN
      /\ EndpointTable(file)[e.name] = e
      /\ Cardinality({j \in EndpointsOf(file, e.server) : file.endpoints[j].name = e.name}) = 1

\* f comes before g: "Secrets win on key overlap, and the copy next to the
\* config file wins over the CWD copy" (configuration.md).
Overrides(f, g) ==
  \/ f[2] = "secrets.env" /\ g[2] = ".env"
  \/ f[2] = g[2] /\ f[1] = "config" /\ g[1] = "cwd"

\* Reading a reference in a configuration, for everything that the process
\* environment and the four files can say of its variable: the process counts
\* before the files ("Values never clobber the process environment"), an empty
\* value of it too, and among the files the documented order; an empty value
\* gives way to a default, an undefined variable without one is an error, and
\* no unresolved reference reaches the runtime, wherever it comes from.
EnvPrecedence ==
  stage = "start" /\ file = NoFile =>
    \A before \in Texts, process \in Texts \cup {Absent}, default \in Texts \cup {Absent} :
    \A files \in FileTexts :
      LET having == {f \in Range(EnvFiles) : files[f] # Absent}
          winner == CHOOSE f \in having : \A g \in having \ {f} : Overrides(f, g)
          given == IF process # Absent THEN process
                   ELSE IF having # {} THEN files[winner] ELSE Absent
          used == IF given \in {Absent, EmptyString} /\ default # Absent THEN default ELSE given
          result == Interpolate(before, EnvValue(process, files), default)
      IN result = IF used = Absent \/ "${" \in Range(before) \cup Range(used) THEN Wrong ELSE before \o used

\* The headers of a request that identify client p: its own, and the gated
\* ones if the User-Agent is p's.
OwnOf(p, request) == {i \in 1..Len(p.own) : request.headers[p.own[i]] # Missing}

GatedOf(p, request) ==
  {i \in 1..Len(p.gated) : p.name \in request.agents /\ request.headers[p.gated[i]] # Missing}

Identified(p, request) == OwnOf(p, request) \cup GatedOf(p, request) # {}

AttributedTo(p, identity, request) ==
  /\ identity[1] = p.name
  /\ \/ \E i \in OwnOf(p, request) : identity[2] = request.headers[p.own[i]]
     \/ /\ OwnOf(p, request) = {}
        /\ \E i \in GatedOf(p, request) : identity[2] = request.headers[p.gated[i]]

Attributed(identity, request) ==
  \/ \E n \in 1..Len(Providers) :
       /\ AttributedTo(Providers[n], identity, request)
       /\ \A m \in 1..(n-1) : ~Identified(Providers[m], request)
  \/ /\ identity[1] = "unknown"
     /\ \A n \in 1..Len(Providers) : ~Identified(Providers[n], request)

\* S2, "so other tools sending the same headers aren't misattributed": a
\* session goes under the name of the first white-glove client that the headers
\* identify, with the value of a header of its own, or of a gated one if there
\* is none; all others are unknown.  The value is looked up without the
\* User-Agent that the detection asked for, and the query string of a WebSocket
\* may have the names of such headers too.
NotMisattributed ==
  stage = "start" /\ file = NoFile =>
    \A request \in Requests :
      /\ Attributed(HttpIdentity(Providers, Generic, Fields, request), request)
      /\ Attributed(WsIdentity(Providers, Generic, request), request)

=============================================================================
