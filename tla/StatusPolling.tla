--------------------------- MODULE StatusPolling ---------------------------
(***************************************************************************)
(* The polling of one client machine's status API by the queue managers of *)
(* the endpoints that its sessions use: part 1 of _queue_manager_tick      *)
(* (relay/endpoints.py) over the StatusPoller that they share              *)
(* (relay/clients.py), with the resolution of sub-agents' spots.           *)
(*                                                                         *)
(* A pass of a manager suspends in every fetch, so that the client goes    *)
(* on, sessions come and go, and the other managers poll meanwhile.  What  *)
(* the queue makes of a report is in EndpointQueue: here tick, and the     *)
(* monitor, drop any session they like.                                    *)
(*                                                                         *)
(* Times are ages in whole seconds, saturated where nothing can tell them  *)
(* apart any more.                                                         *)
(***************************************************************************)
EXTENDS Integers, FiniteSets

CONSTANTS
  Endpoints,      \* the endpoints that share the poller
  Ids, NoId,      \* the client's sessions
  Parent,         \* parentID of each, NoId if it has none
  Directory,      \* and its working directory
  Depth,          \* children.depth
  Interval,       \* poll_interval
  Grace,          \* STATUS_UNREACHABLE_GRACE
  MaxPass,        \* bound: seconds a manager pass spends in awaits
  Outages,        \* whether the machine becomes unreachable, or fails to answer
                  \* for a session
  NoAnswer        \* a failed fetch (None)

ASSUME PollingTimes ==
  Interval \in Nat /\ Grace \in Nat /\ MaxPass \in Nat /\ Depth \in Nat \ {0}

ASSUME PollingClient ==
  /\ NoId \notin Ids
  /\ Parent \in [Ids -> Ids \cup {NoId}]
  /\ DOMAIN Directory = Ids
  /\ Outages \in BOOLEAN
  /\ \A answer \in SUBSET Ids : answer # NoAnswer

VARIABLES
  \* the client machine
  doing,          \* what each session does: "idle", "busy" or "waiting" for its user
  reach,          \* its status API answers
  \* the poller
  cached,         \* sessions with a session_dir and a session_parent entry
  pollAge,        \* age of last_poll
  \* the sessions of each endpoint
  tracked,        \* queue.sessions
  status,         \* client_status, "none" for None
  shared,         \* shared_spot_key: the session whose spot it may run on
  \* the pass of each endpoint's manager
  pc, passAge,    \* where it is; its age or, while it sleeps, that of its sleep
  sessions,       \* the sessions it found when it began
  mine,           \* those of them whose Session object is still the tracked one
  todo, found,    \* not looked at yet; resolved, with a directory still to poll
  map,            \* the directory being polled and the sessions its map has
  \* history, for the properties
  silence,        \* seconds for which a session has been tracked, on a machine
                  \* that answers (for it, too), without a report
  steady          \* sessions that have not changed since the pass began

clientVars  == <<doing, reach>>
pollerVars  == <<cached, pollAge>>
sessionVars == <<tracked, status, shared, silence>>
passVars    == <<pc, passAge, sessions, mine, todo, found, map, steady>>
pollingVars == <<clientVars, pollerVars, sessionVars, passVars>>

Activity == {"idle", "busy", "waiting"}
PerSession(v) == [e \in Endpoints |-> [i \in Ids |-> v]]
PerPass(v)    == [e \in Endpoints |-> v]

\* last_poll has no entry for the machine: it is due at once.
PollingInit ==
  /\ doing = [i \in Ids |-> "idle"] /\ reach = TRUE
  /\ cached = {} /\ pollAge = Interval
  /\ tracked = PerPass({}) /\ status = PerSession("none") /\ shared = PerSession(NoId)
  /\ silence = PerSession(0)
  /\ pc = PerPass("sleep") /\ passAge = PerPass(0)
  /\ sessions = PerPass({}) /\ mine = PerPass({}) /\ todo = PerPass({}) /\ found = PerPass({})
  /\ map = PerPass(NoAnswer) /\ steady = PerPass({})

-----------------------------------------------------------------------------
(* Sub-agents *)

\* Mutant of Chain: the walk does not remember where it has been.
ChainUnseen(i, known) ==
  LET up[n \in 0..Depth] ==
        IF n = 0 THEN i
        ELSE IF up[n - 1] \in known THEN Parent[up[n - 1]] ELSE NoId
  IN up

\* The nodes the loop of resolve_shared_spot visits from session i: as far as
\* the parents are cached, there is one, and it has not been seen before.
Chain(i, known) ==
  LET up[n \in 0..Depth] ==
        IF n = 0 THEN i
        ELSE IF up[n - 1] \in known /\ Parent[up[n - 1]] \notin {up[m] : m \in 0..(n - 1)}
             THEN Parent[up[n - 1]]
             ELSE NoId
  IN up

\* resolve_shared_spot: the closest ancestor the endpoint tracks; but if that
\* one holds no spot and runs on a spot of another session itself, this one.
SharedSpot(i, known, present, spots, sharing) ==
  LET up == Chain(i, known)
      hits == {n \in 1..Depth : up[n] \in present}
      ancestor == up[CHOOSE n \in hits : \A m \in hits : n <= m] IN
  IF hits = {} THEN NoId
  ELSE IF ancestor \notin spots /\ sharing[ancestor] \in spots THEN sharing[ancestor]
  ELSE ancestor

-----------------------------------------------------------------------------
(* Sessions *)

\* The first request of session i on endpoint e: get_or_create_session.
Track(e, i) ==
  /\ i \notin tracked[e]
  /\ tracked' = [tracked EXCEPT ![e] = @ \cup {i}]
  /\ status' = [status EXCEPT ![e][i] = "none"]
  /\ shared' = [shared EXCEPT ![e][i] = NoId]
  /\ silence' = [silence EXCEPT ![e][i] = 0]
  /\ UNCHANGED <<clientVars, pollerVars, passVars>>

\* Endpoint e forgets the sessions `gone`.  A pass under way keeps their
\* Session objects, and what it learns goes to those.
Forget(e, gone) ==
  /\ tracked' = [tracked EXCEPT ![e] = @ \ gone]
  /\ mine' = [mine EXCEPT ![e] = @ \ gone]
  /\ status' = [status EXCEPT ![e] = [i \in Ids |-> IF i \in gone THEN "none" ELSE @[i]]]
  /\ shared' = [shared EXCEPT ![e] = [i \in Ids |-> IF i \in gone THEN NoId ELSE @[i]]]
  /\ silence' = [silence EXCEPT ![e] = [i \in Ids |-> IF i \in gone THEN 0 ELSE @[i]]]

\* POST /monitor/release of a session without requests, at any time.
Release(e, i) ==
  /\ i \in tracked[e]
  /\ Forget(e, {i})
  /\ UNCHANGED <<clientVars, pollerVars, pc, passAge, sessions, todo, found, map, steady>>

-----------------------------------------------------------------------------
(* A pass of endpoint e's manager *)

\* The end of part 1: tick drops whom it likes, the rest of the pass follows.
Tick(e) ==
  /\ pc' = [pc EXCEPT ![e] = "rest"]
  /\ \E gone \in SUBSET tracked[e] : Forget(e, gone)

\* Mutant of Stamp: last_poll is stamped when the poll is over.
StampLater(starting) == pollAge' = IF starting THEN pollAge ELSE 0

\* last_poll[base] is stamped when the poll starts, not when it is over.
Stamp(starting) == pollAge' = IF starting THEN 0 ELSE pollAge

\* StatusPoller.due
Due == pollAge >= Interval

\* The sleep is over.  If the endpoint tracks sessions of the machine and the
\* machine is due, whoever polled it last, they are polled.
PassPoll(e) ==
  /\ pc[e] = "sleep" /\ passAge[e] = 1
  /\ tracked[e] # {} /\ Due
  /\ Stamp(TRUE)
  /\ pc' = [pc EXCEPT ![e] = "resolve"] /\ passAge' = [passAge EXCEPT ![e] = 0]
  /\ sessions' = [sessions EXCEPT ![e] = tracked[e]]
  /\ mine' = [mine EXCEPT ![e] = tracked[e]]
  /\ todo' = [todo EXCEPT ![e] = tracked[e]]
  /\ steady' = [steady EXCEPT ![e] = Ids]
  /\ UNCHANGED <<clientVars, cached, sessionVars, found, map>>

PassNoPoll(e) ==
  /\ pc[e] = "sleep" /\ passAge[e] = 1
  /\ tracked[e] = {} \/ ~Due
  /\ passAge' = [passAge EXCEPT ![e] = 0]
  /\ Tick(e)
  /\ UNCHANGED <<clientVars, pollerVars, sessions, todo, found, map, steady>>

\* Session i of the pass: its directory and parent come from the cache or
\* are fetched (fetch_session_info); a session without them is skipped.  Which
\* sessions hold a spot is the queue's matter: any may.
Resolve(e, i) ==
  /\ pc[e] = "resolve" /\ i \in todo[e]
  /\ todo' = [todo EXCEPT ![e] = @ \ {i}]
  /\ \/ /\ i \in cached \/ reach
        /\ cached' = cached \cup {i}
        /\ found' = [found EXCEPT ![e] = @ \cup {i}]
        /\ \E spots \in SUBSET Ids :
             shared' = IF i \notin mine[e] THEN shared
                       ELSE [shared EXCEPT ![e][i] =
                               SharedSpot(i, cached', tracked[e], spots, shared[e])]
        /\ UNCHANGED silence
     \/ /\ i \notin cached /\ (~reach \/ Outages)
        /\ silence' = [silence EXCEPT ![e][i] = 0]
        /\ UNCHANGED <<cached, found, shared>>
  /\ UNCHANGED <<clientVars, pollAge, tracked, status, pc, passAge, sessions, mine, map, steady>>

InDirectory(d) == {i \in Ids : Directory[i] = d}

\* fetch_statuses of directory d: an idle session is not in the map, one that
\* waits for its user is still busy in it.  (A session the map calls "retry" is
\* busy to everyone who looks; the client has no types but these three, of which
\* any other would leave the status as it was.)
FetchMap(e, d) ==
  /\ pc[e] = "resolve" /\ todo[e] = {} /\ found[e] \cap InDirectory(d) # {}
  /\ map' = [map EXCEPT ![e] =
       [of |-> d, busy |-> IF reach THEN {i \in InDirectory(d) : doing[i] # "idle"} ELSE NoAnswer]]
  /\ pc' = [pc EXCEPT ![e] = "pending"]
  /\ UNCHANGED <<clientVars, pollerVars, sessionVars, passAge, sessions, mine, todo, found, steady>>

\* Mutant of Reported: a session that is not in the map keeps its status.
ReportedAbsentKept(old, i, busy, pending) ==
  IF pending # NoAnswer /\ i \in pending THEN "waiting"
  ELSE IF busy = NoAnswer \/ i \notin busy THEN old
  ELSE "busy"

\* The status of session i after both fetches, either of which may have
\* failed: pending first, then the map, in which absence means idle.
Reported(old, i, busy, pending) ==
  IF pending # NoAnswer /\ i \in pending THEN "waiting"
  ELSE IF busy = NoAnswer THEN old
  ELSE IF i \in busy THEN "busy" ELSE "idle"

\* Whether client_status_at is stamped for i.
Heard(i, busy, pending) == busy # NoAnswer \/ (pending # NoAnswer /\ i \in pending)

\* fetch_pending, which may fail where the map was readable, and the reports
\* to the directory's sessions.
FetchPending(e, pending) ==
  LET here == InDirectory(map[e].of)
      busy == map[e].busy
      told == {i \in found[e] \cap mine[e] \cap here : Heard(i, busy, pending)} IN
  /\ pc[e] = "pending"
  /\ pending = NoAnswer \/ (reach /\ pending = {i \in here : doing[i] = "waiting"})
  /\ status' = [status EXCEPT ![e] = [i \in Ids |->
       IF i \in told THEN Reported(@[i], i, busy, pending) ELSE @[i]]]
  /\ silence' = [silence EXCEPT ![e] = [i \in Ids |-> IF i \in told THEN 0 ELSE @[i]]]
  /\ found' = [found EXCEPT ![e] = @ \ here]
  /\ pc' = [pc EXCEPT ![e] = "resolve"]
  /\ map' = [map EXCEPT ![e] = NoAnswer]
  /\ UNCHANGED <<clientVars, pollerVars, tracked, shared, passAge, sessions, mine, todo,
                 steady>>

\* The poll is over: cache entries of sessions the pass did not find are
\* dropped, whichever endpoint tracks them, and tick follows.
PollDone(e) ==
  /\ pc[e] = "resolve" /\ todo[e] = {} /\ found[e] = {}
  /\ cached' = cached \cap sessions[e]
  /\ sessions' = [sessions EXCEPT ![e] = {}]
  /\ steady' = [steady EXCEPT ![e] = {}]
  /\ Stamp(FALSE)
  /\ Tick(e)
  /\ UNCHANGED <<clientVars, passAge, todo, found, map>>

\* The readiness probe and the power-on of part 3 are over.
PassEnd(e) ==
  /\ pc[e] = "rest"
  /\ pc' = [pc EXCEPT ![e] = "sleep"] /\ passAge' = [passAge EXCEPT ![e] = 0]
  /\ UNCHANGED <<clientVars, pollerVars, sessionVars, sessions, mine, todo, found, map, steady>>

-----------------------------------------------------------------------------
(* The client and the clock *)

Work(i) ==
  /\ \E d \in Activity \ {doing[i]} : doing' = [doing EXCEPT ![i] = d]
  /\ steady' = [e \in Endpoints |-> steady[e] \ {i}]
  /\ UNCHANGED <<reach, pollerVars, sessionVars, pc, passAge, sessions, mine, todo, found, map>>

Outage ==
  /\ Outages
  /\ reach' = ~reach
  /\ silence' = PerSession(0)
  /\ UNCHANGED <<doing, pollerVars, tracked, status, shared, passVars>>

Aged(age, max) == IF age >= max THEN max ELSE age + 1

\* One second passes.  A manager wakes on time, a pass lasts at most MaxPass.
PollSecond ==
  /\ \A e \in Endpoints : passAge[e] < (IF pc[e] = "sleep" THEN 1 ELSE MaxPass)
  /\ passAge' = [e \in Endpoints |-> passAge[e] + 1]
  /\ pollAge' = Aged(pollAge, Interval)
  /\ silence' = [e \in Endpoints |-> [i \in Ids |->
       IF reach /\ i \in tracked[e] THEN Aged(silence[e][i], Grace + 1) ELSE 0]]
  /\ UNCHANGED <<doing, reach, cached, tracked, status, shared, pc, sessions, mine, todo, found, map,
                 steady>>

ManagerPass(e) ==
  \/ PassPoll(e) \/ PassNoPoll(e)
  \/ \E i \in Ids : Resolve(e, i)
  \/ \E d \in {Directory[i] : i \in Ids} : FetchMap(e, d)
  \/ \E pending \in {NoAnswer} \cup SUBSET Ids : FetchPending(e, pending)
  \/ PollDone(e) \/ PassEnd(e)

PollingNext ==
  \/ \E e \in Endpoints, i \in Ids : Track(e, i) \/ Release(e, i)
  \/ \E e \in Endpoints : ManagerPass(e)
  \/ \E i \in Ids : Work(i)
  \/ Outage
  \/ PollSecond

PollingSpec == PollingInit /\ [][PollingNext]_pollingVars

-----------------------------------------------------------------------------
(* Properties *)

\* C4: the grace is for the time "while the status API is unreachable".  A
\* session that is tracked, on a machine that answers, is never without a
\* report for longer than the grace, after which it would count as idle.
KeptFresh == \A e \in Endpoints, i \in Ids : silence[e][i] <= Grace

\* C2, C3: the map and the pending requests are fetched one after the other,
\* while the client goes on.  If both answer, the status of a session that
\* does not change during the pass is, after the poll, what it does.
ReportTruthful ==
  [][\A e \in Endpoints, i \in Ids, pending \in SUBSET Ids :
       /\ FetchPending(e, pending) /\ map[e].busy # NoAnswer
       /\ i \in found[e] \cap mine[e] \cap steady[e] /\ Directory[i] = map[e].of
       => status'[e][i] = doing[i]]_pollingVars

\* C3, "a failed pending poll never clears the flag": while a session waits for
\* its user, no report takes its "waiting" away.
WaitingKept ==
  [][\A e \in Endpoints, i \in Ids :
       /\ pc[e] = "pending" /\ pc'[e] = "resolve"
       /\ i \in found[e] \cap mine[e] /\ Directory[i] = map[e].of
       /\ doing[i] = "waiting" /\ status[e][i] = "waiting"
       => status'[e][i] = "waiting"]_pollingVars

\* Q8, "cycle-safe": even if the parents the client reports form a cycle, and
\* whichever sessions hold a spot, a session is not given its own key for the
\* spot it may share, unless it really holds a spot (which it may get back
\* from a session that shares it).
CycleSafe ==
  \A e \in Endpoints, i \in Ids : \A spots \in SUBSET (Ids \ {i}) :
    SharedSpot(i, cached, tracked[e], spots, shared[e]) # i

=============================================================================
