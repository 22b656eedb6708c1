------------------------------ MODULE Clients ------------------------------
(***************************************************************************)
(* Whose session a request belongs to: detect_client and                   *)
(* session_header_value (relay/clients.py), resolve_session_id and         *)
(* resolve_session_id_ws (relay/endpoints.py).                             *)
(*                                                                         *)
(* Headers, query parameters and body fields are functions from their      *)
(* (lower-case) names; a value that is empty is not there.  A provider is  *)
(* the record of a clients[] entry; the User-Agent is reduced to the       *)
(* providers whose ua_prefix it starts with.                               *)
(***************************************************************************)
EXTENDS Integers, Sequences, SequencesExt

CONSTANT Missing   \* the value of a header, parameter or field that is not there

\* The first of `names` that has a value, Missing if none has.
FirstOf(names, values) ==
  LET there == {i \in 1..Len(names) : values[names[i]] # Missing} IN
  IF there = {} THEN Missing
  ELSE values[names[CHOOSE i \in there : \A j \in there : i <= j]]

Matches(p, request) ==
  \/ FirstOf(p.own, request.headers) # Missing
  \/ p.name \in request.agents /\ FirstOf(p.gated, request.headers) # Missing

\* detect_client: the first provider that matches, as a sequence of at most one.
DetectClient(providers, request) ==
  LET matching == {i \in 1..Len(providers) : Matches(providers[i], request)} IN
  IF matching = {} THEN <<>>
  ELSE << providers[CHOOSE i \in matching : \A j \in matching : i <= j] >>

\* Mutant of SessionHeaderValue: the gated headers come first.
SessionHeaderValueGatedFirst(p, request) == FirstOf(p.gated \o p.own, request.headers)

\* session_header_value; it does not look at the User-Agent again.
SessionHeaderValue(p, request) == FirstOf(p.own \o p.gated, request.headers)

Unknown(value) == <<"unknown", value>>

\* ua:<user agent>|ip:<source address>
LastResort(request) == Unknown(<<"ua|ip", request.agents, request.ip>>)

\* resolve_session_id
HttpIdentity(providers, generic, fields, request) ==
  LET found == DetectClient(providers, request)
      value == IF found = <<>> THEN Missing ELSE SessionHeaderValue(found[1], request)
      inHeaders == FirstOf(generic, request.headers)
      inBody == FirstOf(fields, request.body) IN
  IF value # Missing THEN <<found[1].name, value>>
  ELSE IF inHeaders # Missing THEN Unknown(inHeaders)
  ELSE IF inBody # Missing THEN Unknown(inBody)
  ELSE LastResort(request)

\* resolve_session_id_ws: the same lookup in code of its own, and the query
\* string for the body.
WsIdentity(providers, generic, request) ==
  LET found == DetectClient(providers, request)
      value == IF found = <<>> THEN Missing ELSE SessionHeaderValue(found[1], request)
      inHeaders == FirstOf(generic, request.headers)
      ofClient == IF found = <<>> THEN Missing
                  ELSE FirstOf(found[1].own \o found[1].gated, request.query)
      inQuery == FirstOf(generic, request.query) IN
  IF value # Missing THEN <<found[1].name, value>>
  ELSE IF inHeaders # Missing THEN Unknown(inHeaders)
  ELSE IF ofClient # Missing THEN <<found[1].name, ofClient>>
  ELSE IF inQuery # Missing THEN Unknown(inQuery)
  ELSE LastResort(request)

=============================================================================
