--------------------------- MODULE MCApplication ---------------------------
(* An instance of Application for TLC: one endpoint entry, each field       *)
(* right, wrong or left out, or a good one and any other behind it; two      *)
(* white-glove clients that share a gated header with the generic ones;     *)
(* sessions s and t, parents of each other; one more writer of the store.   *)
EXTENDS Application
CONSTANTS s, t, w

Entries ==
  [name : {"e", "f"}, server : {"one", "two"}, catchAll : BOOLEAN,
   prefix : {<<"/">>, <<"/", "a">>, <<"a">>}, routing : {Absent, "passthrough", Wrong},
   concurrency : {Absent, 0}]

Good == {e \in Entries : e.name = "e" /\ e.server = "one" /\ e.concurrency = Absent}

SomeFiles ==
  {NoFile} \cup
  [servers : {<<"one", "two">>, <<"one", "one">>},
   endpoints : {<<e>> : e \in Entries} \cup (Good \X Entries)]

SomePaths == {<<"/">>, <<"/", "a">>, <<"/", "a", "b">>, <<"/", "c">>}

TwoProviders ==
  << [name |-> "oc", own |-> <<"x-oc">>, gated |-> <<"x-session-id">>],
     [name |-> "cc", own |-> <<"x-cc", "x-cc-old">>, gated |-> <<>>] >>

HeaderNames == {"x-oc", "x-session-id", "x-cc", "x-cc-old"}

\* Some of the names have a value, which says where it comes from.
Values(from, names) ==
  {[n \in names |-> IF n \in present THEN <<from, n>> ELSE Missing] : present \in SUBSET names}

SomeRequests ==
  [headers : Values("header", HeaderNames), agents : SUBSET {"oc"}, ip : {1},
   query : Values("query", HeaderNames), body : Values("body", {"user", "id"})]

GenericHeaders == <<"x-session-id">>
BodyFields == <<"id", "user">>

Cycle == [i \in Ids |-> IF i = s THEN t ELSE s]
OneDirectory == [i \in Ids |-> "d"]

\* Each is the other's parent, so that the client looks the same with the two
\* exchanged; the store knows neither.
Exchange == Permutations(Ids)
=============================================================================
