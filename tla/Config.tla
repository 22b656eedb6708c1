------------------------------- MODULE Config -------------------------------
(***************************************************************************)
(* What load_config accepts (relay/config.py), the tables RelayApp.setup   *)
(* builds from it, and the routing of HTTP requests and WebSockets over    *)
(* them (relay/main.py, route in relay/endpoints.py).                      *)
(*                                                                         *)
(* A configuration file is the list of its server names and the list of    *)
(* its endpoint entries, reduced to the fields that rules relate to each   *)
(* other; a field of a wrong type, or out of its range or enumeration, is  *)
(* the value Wrong, a field that is not there is Absent.  A path is its    *)
(* sequence of characters.                                                 *)
(***************************************************************************)
EXTENDS Integers, Sequences, FiniteSets, SequencesExt

CONSTANTS Absent, Wrong

Routings == {"queued", "concurrent", "passthrough"}

\* _get_enum, _get_int: the value a field has, its default if it is absent.
Field(value, default) == IF value = Absent THEN default ELSE value

-----------------------------------------------------------------------------
(* Environment *)

\* The files _load_env_files merges, in the order in which they override.
EnvFiles == << <<"cwd", ".env">>, <<"config", ".env">>,
               <<"cwd", "secrets.env">>, <<"config", "secrets.env">> >>

\* Mutant of EnvValue: the first file that has the variable wins.
EnvValueFirst(process, files) ==
  LET having == {i \in 1..Len(EnvFiles) : files[EnvFiles[i]] # Absent} IN
  IF process # Absent \/ having = {} THEN process
  ELSE files[EnvFiles[CHOOSE i \in having : \A j \in having : i <= j]]

\* os.environ after _load_env_files: the process environment is not
\* clobbered, of the files the last one that has the variable counts.
EnvValue(process, files) ==
  LET having == {i \in 1..Len(EnvFiles) : files[EnvFiles[i]] # Absent} IN
  IF process # Absent \/ having = {} THEN process
  ELSE files[EnvFiles[CHOOSE i \in having : \A j \in having : j <= i]]

EmptyString == <<>>

\* Mutant of Interpolate: what the substitution leaves is not looked at.
InterpolateUnchecked(before, value, default) ==
  LET used == IF value \in {Absent, EmptyString} /\ default # Absent THEN default ELSE value IN
  IF used = Absent THEN Wrong ELSE before \o used

\* _interpolate of a string that ends in a reference, ${VAR} (default Absent)
\* or ${VAR:-default}, to a variable with this value; Wrong stands for the
\* ConfigError.  Strings are sequences of pieces, and "${" is the beginning of
\* what is no reference of the two forms: from the string itself, the variable
\* or the default, it must not be left in the result.
Interpolate(before, value, default) ==
  LET used == IF value \in {Absent, EmptyString} /\ default # Absent THEN default ELSE value IN
  IF used = Absent THEN Wrong
  ELSE IF "${" \in Range(before \o used) THEN Wrong
  ELSE before \o used

-----------------------------------------------------------------------------
(* Validation *)

\* One endpoint entry by itself: _build_endpoints' checks of its fields.
EntryValid(e, servers) ==
  /\ e.name \notin {Absent, Wrong}
  /\ e.server \in Range(servers)
  /\ e.prefix \notin {Absent, Wrong} /\ e.prefix # <<>> /\ e.prefix[1] = "/"
  /\ Field(e.routing, "queued") \in Routings
  /\ Field(e.concurrency, 1) # Wrong
  /\ Field(e.routing, "queued") = "queued" => Field(e.concurrency, 1) >= 1

Distinct(seq, F(_)) == \A i, j \in 1..Len(seq) : F(seq[i]) = F(seq[j]) => i = j

Name(e)   == e.name
Prefix(e) == e.prefix

\* Mutants of EndpointsValid: identical prefixes, or names, are let through.
EndpointsValidSamePrefix(es, servers) ==
  /\ \A i \in 1..Len(es) : EntryValid(es[i], servers)
  /\ Distinct(es, Name)
  /\ Cardinality({i \in 1..Len(es) : es[i].catchAll}) <= 1

EndpointsValidSameName(es, servers) ==
  /\ \A i \in 1..Len(es) : EntryValid(es[i], servers)
  /\ Distinct(es, Prefix)
  /\ Cardinality({i \in 1..Len(es) : es[i].catchAll}) <= 1

\* _build_endpoints
EndpointsValid(es, servers) ==
  /\ \A i \in 1..Len(es) : EntryValid(es[i], servers)
  /\ Distinct(es, Name) /\ Distinct(es, Prefix)
  /\ Cardinality({i \in 1..Len(es) : es[i].catchAll}) <= 1

\* _build, without the clients and proxy sections, which relate to no entry here.
Accepted(file) ==
  /\ IsInjective(file.servers)
  /\ EndpointsValid(file.endpoints, file.servers)

-----------------------------------------------------------------------------
(* The tables of RelayApp.setup *)

\* self.endpoints: a dict by name, so that a later entry replaces an earlier.
EndpointTable(file) ==
  [n \in {file.endpoints[i].name : i \in 1..Len(file.endpoints)} |->
     file.endpoints[CHOOSE i \in 1..Len(file.endpoints) :
       /\ file.endpoints[i].name = n
       /\ \A j \in (i+1)..Len(file.endpoints) : file.endpoints[j].name # n]]

\* server.endpoints of server s, which each of its entries is appended to, as
\* the places of these entries.
EndpointsOf(file, s) == {i \in 1..Len(file.endpoints) : file.endpoints[i].server = s}

NoEndpoint == "no endpoint"

\* self.catch_all: the last entry that says so.
CatchAll(file) ==
  LET marked == {i \in 1..Len(file.endpoints) : file.endpoints[i].catchAll} IN
  IF marked = {} THEN NoEndpoint
  ELSE file.endpoints[CHOOSE i \in marked : \A j \in marked : j <= i].name

-----------------------------------------------------------------------------
(* Routing *)

\* route, over the endpoints in the order of the dict: a longer match
\* replaces the best so far.
Route(es, path) ==
  LET best[i \in 0..Len(es)] ==
        IF i = 0 THEN 0
        ELSE LET b == best[i - 1]
                 bestLen == IF b = 0 THEN -1 ELSE Len(es[b].prefix)
             IN IF IsPrefix(es[i].prefix, path) /\ Len(es[i].prefix) > bestLen THEN i ELSE b
  IN IF best[Len(es)] = 0 THEN NoEndpoint ELSE es[best[Len(es)]].name

\* The proxy handler: what becomes of a request for `path`.
HttpOutcome(file, policy, path) ==
  LET e == Route(file.endpoints, path) IN
  IF e # NoEndpoint THEN <<"admit", e>>
  ELSE IF policy # "allow" THEN <<"403", NoEndpoint>>
  ELSE IF CatchAll(file) = NoEndpoint THEN <<"404", NoEndpoint>>
  ELSE <<"passthrough", CatchAll(file)>>

\* Mutant of WsOutcome: the policy is not asked for.
WsOutcomeAlwaysAllowed(file, policy, path) ==
  LET e == Route(file.endpoints, path) IN
  IF e # NoEndpoint THEN <<"admit", e>>
  ELSE IF CatchAll(file) = NoEndpoint THEN <<"1008", NoEndpoint>>
  ELSE <<"passthrough", CatchAll(file)>>

\* ws_proxy: what becomes of a WebSocket for `path`.
WsOutcome(file, policy, path) ==
  LET e == Route(file.endpoints, path) IN
  IF e # NoEndpoint THEN <<"admit", e>>
  ELSE IF policy # "allow" \/ CatchAll(file) = NoEndpoint THEN <<"1008", NoEndpoint>>
  ELSE <<"passthrough", CatchAll(file)>>

=============================================================================
