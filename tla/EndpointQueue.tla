--------------------------- MODULE EndpointQueue ---------------------------
(***************************************************************************)
(* The FIFO + spot queue of one relay endpoint (relay/queue.py) together   *)
(* with the two coroutines that drive it: the queued admission path        *)
(* (EndpointRuntime._admit_queued and transport.http.forward_request) and  *)
(* the 1 s queue manager (EndpointRuntime._queue_manager_tick).            *)
(*                                                                         *)
(* relay runs on one asyncio event loop: code between two awaits is never  *)
(* interleaved.  _try_promote and tick are loops without awaits; each      *)
(* iteration is one step here, and while such a loop is running (promoting *)
(* or mgr = "tick") no other action is enabled, so the steps of a loop     *)
(* always run to its end as one handler.                                   *)
(*                                                                         *)
(* A Session OBJECT is identified by the request that created it, so that  *)
(* two objects for one key, should they ever coexist, stay apart.  Since   *)
(* requests are numbered in the order of get_or_create_session, the        *)
(* insertion order of the sessions dict is the order of these numbers.     *)
(*                                                                         *)
(* A timestamp t is kept as its age, time.monotonic() - t in whole         *)
(* seconds, saturated at Horizon, beyond which no comparison in the code   *)
(* can tell two ages apart.                                                *)
(***************************************************************************)
EXTENDS Integers, FiniteSets, Sequences, SequencesExt

CONSTANTS
  MaxRequests,  \* bound: requests admitted in one behaviour
  Keys,         \* session keys (client, session_id)
  NoKey,        \* Python's None where a key may stand
  Known,        \* keys of white-glove clients (client != "unknown")
  Ancestors,    \* key -> its parent chain, nearest first (session_parent,
                \*   cut at children_depth)
  ManualKeys,   \* keys an operator may release from the monitor
  Reports,      \* what a status poll can report ("retry" acts as "busy")
  MaxSpots, Cap, Atomic, Immediate,  \* max_spots, max_inflight_per_session,
                                     \* atomic_requests, immediate_idle_release
  BusyWindow, Expiry, Grace,         \* busy_window, session_expiry,
                                     \* STATUS_UNREACHABLE_GRACE
  MaxLag        \* bound: seconds one manager pass spends in its awaits

ASSUME KeysAssumption ==
  /\ IsFiniteSet(Keys) /\ NoKey \notin Keys
  /\ Known \subseteq Keys /\ ManualKeys \subseteq Keys
  /\ Ancestors \in [Keys -> Seq(Keys)]
  /\ Reports \subseteq {"busy", "idle", "waiting"}

ASSUME LimitsAssumption ==
  /\ MaxRequests \in Nat /\ MaxSpots \in Nat \ {0}
  /\ Cap \in Int /\ Cap >= -1
  /\ Atomic \in BOOLEAN /\ Immediate \in BOOLEAN

ASSUME TimesAssumption ==
  /\ BusyWindow \in Nat /\ Expiry \in Nat /\ Grace \in Nat \ {0}
  /\ MaxLag \in Nat \ {0}

VARIABLES
  \* EndpointQueue
  ready,          \* promotion gate, mirrors the last readiness probe
  queue,          \* the deque of waiting entries
  sessions,       \* key -> tracked Session object, NoObj if absent
  spots,          \* keys holding a spot
  inflightTotal,  \* inflight_total
  \* Session objects
  inflight, waiting, spotHeld,
  info,           \* ages and reports: idle_since, last_request_at,
                  \*   client_status, client_status_at, shared_spot_key
  \* requests
  arrived,        \* number of requests admitted so far
  reqKey, sessOf, \* the request's session key and Session object
  stage,          \* where its _admit_queued coroutine is
  \* the event loop
  promoting,      \* _try_promote is inside its loop
  mgr,            \* where the queue manager is
  mgrAge,         \* age of the manager's `now` (its sleep while asleep)
  pollSet,        \* known sessions whose parent chain this pass has yet to resolve
  fetchSet,       \* resolved sessions whose status fetch is under way
  tickTodo        \* sessions tick has still to visit

queueVars   == <<ready, queue, sessions, spots, inflightTotal>>
counterVars == <<inflight, waiting, spotHeld>>
requestVars == <<arrived, reqKey, sessOf, stage>>
managerVars == <<mgr, mgrAge, pollSet, fetchSet, tickTodo>>
vars == <<queueVars, counterVars, info, requestVars, promoting, managerVars>>

NoObj   == 0
NoTime  == -1
Req     == 1..MaxRequests
Obj     == Req
Longest(a, b) == IF a >= b THEN a ELSE b
Horizon == Longest(Longest(BusyWindow, Expiry), Grace) + MaxLag
Age     == 0..Horizon
\* The last three are those of the WebSocket connections of WsAdmission.
Stages  == {"new", "admitting", "waiting", "inflight", "done", "polling", "open", "closed"}

Info == [idle : {NoTime} \cup Age, last : Age, cstat : {"none", "busy", "idle", "waiting"},
         cat : Age, shared : Keys \cup {NoKey}]

\* The fields of a Session(...) that has just been constructed; its
\* client_status_at of 0.0 is older than any window.
NewInfo == [idle |-> NoTime, last |-> 0, cstat |-> "none", cat |-> Horizon, shared |-> NoKey]

Init ==
  /\ ready \in BOOLEAN
  /\ queue = <<>>
  /\ sessions = [k \in Keys |-> NoObj]
  /\ spots = {}
  /\ inflightTotal = 0
  /\ inflight = [o \in Obj |-> 0]
  /\ waiting = [o \in Obj |-> 0]
  /\ spotHeld = [o \in Obj |-> FALSE]
  /\ info = [o \in Obj |-> NewInfo]
  /\ arrived = 0
  /\ reqKey = [r \in Req |-> NoKey]
  /\ sessOf = [r \in Req |-> NoObj]
  /\ stage = [r \in Req |-> "new"]
  /\ promoting = FALSE
  /\ mgr = "sleep" /\ mgrAge = 0 /\ pollSet = {} /\ fetchSet = {} /\ tickTodo = {}

\* Some coroutine other than the one in a synchronous loop may run.
LoopFree == ~promoting /\ mgr # "tick"

-----------------------------------------------------------------------------
(* Eligibility and promotion *)

\* _spot_key: the spot the session runs on, its own or its ancestor's.
SpotKey(o) ==
  IF reqKey[o] \in spots THEN reqKey[o]
  ELSE IF info[o].shared \in spots THEN info[o].shared
  ELSE NoKey

\* Mutants of Eligible: the per-session cap, the spot count or the atomic
\* check off by one or missing.
EligibleCapOffByOne(r) ==
  LET o == sessOf[r] IN
  /\ ~(Atomic /\ inflightTotal > 0)
  /\ IF SpotKey(o) # NoKey THEN Cap < 0 \/ inflight[o] <= Cap
                           ELSE Cardinality(spots) < MaxSpots

EligibleSpotsOffByOne(r) ==
  LET o == sessOf[r] IN
  /\ ~(Atomic /\ inflightTotal > 0)
  /\ IF SpotKey(o) # NoKey THEN Cap < 0 \/ inflight[o] < Cap
                           ELSE Cardinality(spots) <= MaxSpots

EligibleNotAtomic(r) ==
  LET o == sessOf[r] IN
  IF SpotKey(o) # NoKey THEN Cap < 0 \/ inflight[o] < Cap
                        ELSE Cardinality(spots) < MaxSpots

\* _eligible: may this waiting entry run now?
Eligible(r) ==
  LET o == sessOf[r] IN
  /\ ~(Atomic /\ inflightTotal > 0)
  /\ IF SpotKey(o) # NoKey
     THEN Cap < 0 \/ inflight[o] < Cap
     ELSE Cardinality(spots) < MaxSpots

\* Mutant of CanPromote: _try_promote does not return when not ready.
CanPromoteUnready == \E i \in 1..Len(queue) : Eligible(queue[i])

\* The loop of _try_promote has another iteration to run.
CanPromote == ready /\ \E i \in 1..Len(queue) : Eligible(queue[i])

\* Mutant of PromotedAt: the scan does not start at the front of the queue.
PromotedAnywhere(i) == Eligible(queue[i])

\* The entry the scan of _try_promote stops at: the first eligible one.
PromotedAt(i) == Eligible(queue[i]) /\ \A j \in 1..(i-1) : ~Eligible(queue[j])

\* One iteration of _try_promote: the first eligible entry leaves the queue
\* and its session takes a spot unless it already has one to run on.
Promote ==
  /\ promoting
  /\ \E i \in 1..Len(queue) :
       LET r == queue[i]
           o == sessOf[r] IN
       /\ PromotedAt(i)
       /\ queue' = RemoveAt(queue, i)
       /\ stage' = [stage EXCEPT ![r] = "inflight"]
       /\ waiting' = [waiting EXCEPT ![o] = @ - 1]
       /\ inflight' = [inflight EXCEPT ![o] = @ + 1]
       /\ inflightTotal' = inflightTotal + 1
       /\ info' = [info EXCEPT ![o].idle = NoTime]
       /\ IF SpotKey(o) = NoKey
          THEN /\ spots' = spots \cup {reqKey[o]}
               /\ spotHeld' = [spotHeld EXCEPT ![o] = TRUE]
          ELSE UNCHANGED <<spots, spotHeld>>
  /\ UNCHANGED <<ready, sessions, arrived, reqKey, sessOf, managerVars>>
  /\ promoting' = CanPromote'

-----------------------------------------------------------------------------
(* The admission path *)

\* Mutant of Revived: the idle countdown of a revived session runs on.
RevivedStillIdle(o) == [info EXCEPT ![o].last = 0]

\* get_or_create_session on a tracked session: the countdown starts afresh.
Revived(o) == [info EXCEPT ![o].last = 0, ![o].idle = NoTime]

\* _admit_queued up to the await of store.upsert_session:
\* get_or_create_session makes a new Session or revives the tracked one.
Admit(k) ==
  LET r == arrived + 1
      o == IF sessions[k] = NoObj THEN r ELSE sessions[k] IN
  /\ LoopFree
  /\ r <= MaxRequests
  /\ arrived' = r
  /\ reqKey' = [reqKey EXCEPT ![r] = k]
  /\ sessOf' = [sessOf EXCEPT ![r] = o]
  /\ stage' = [stage EXCEPT ![r] = "admitting"]
  /\ sessions' = [sessions EXCEPT ![k] = o]
  /\ info' = IF o = r THEN [info EXCEPT ![o] = NewInfo]
                      ELSE Revived(o)
  /\ UNCHANGED <<ready, queue, spots, inflightTotal, counterVars, promoting, managerVars>>

\* Mutant of Enqueue: the session's waiting counter is not incremented.
EnqueueUncounted(r) ==
  /\ LoopFree
  /\ stage[r] = "admitting"
  /\ stage' = [stage EXCEPT ![r] = "waiting"]
  /\ queue' = Append(queue, r)
  /\ UNCHANGED <<ready, sessions, spots, inflightTotal, counterVars, info,
                 arrived, reqKey, sessOf, managerVars>>
  /\ promoting' = CanPromote'

\* The upsert has returned: enqueue(entry), which ends in _try_promote.
Enqueue(r) ==
  /\ LoopFree
  /\ stage[r] = "admitting"
  /\ stage' = [stage EXCEPT ![r] = "waiting"]
  /\ waiting' = [waiting EXCEPT ![sessOf[r]] = @ + 1]
  /\ queue' = Append(queue, r)
  /\ UNCHANGED <<ready, sessions, spots, inflightTotal, inflight, spotHeld, info,
                 arrived, reqKey, sessOf, managerVars>>
  /\ promoting' = CanPromote'

\* release(entry): the request of a promoted entry is over.
Release(r) ==
  LET o == sessOf[r] IN
  /\ stage' = [stage EXCEPT ![r] = "done"]
  /\ IF inflight[o] > 0
     THEN /\ inflight' = [inflight EXCEPT ![o] = @ - 1]
          /\ inflightTotal' = Longest(0, inflightTotal - 1)
     ELSE UNCHANGED <<inflight, inflightTotal>>
  /\ info' = [info EXCEPT ![o].last = 0]
  /\ UNCHANGED <<ready, queue, sessions, spots, waiting, spotHeld, arrived, reqKey,
                 sessOf, managerVars>>
  /\ promoting' = CanPromote'

\* abandon(entry): a waiting entry leaves the queue.
Abandon(r) ==
  LET o == sessOf[r] IN
  /\ stage' = [stage EXCEPT ![r] = "done"]
  /\ \E i \in 1..Len(queue) : queue[i] = r /\ queue' = RemoveAt(queue, i)
  /\ waiting' = [waiting EXCEPT ![o] = Longest(0, @ - 1)]
  /\ UNCHANGED <<ready, sessions, spots, inflightTotal, inflight, spotHeld, info,
                 arrived, reqKey, sessOf, promoting, managerVars>>

\* Mutant of GiveUp: entry.done is ignored, a promoted entry is abandoned.
GiveUpAbandons(r) ==
  /\ LoopFree
  /\ \/ stage[r] = "waiting" /\ Abandon(r)
     \/ /\ stage[r] = "inflight"
        /\ stage' = [stage EXCEPT ![r] = "done"]
        /\ waiting' = [waiting EXCEPT ![sessOf[r]] = Longest(0, @ - 1)]
        /\ UNCHANGED <<queueVars, inflight, spotHeld, info, arrived, reqKey, sessOf,
                       promoting, managerVars>>

\* wait_for_slot returned "disconnected" or "timed_out": a waiting entry is
\* abandoned, an entry promoted during the last await is released.
GiveUp(r) ==
  /\ LoopFree
  /\ \/ stage[r] = "waiting" /\ Abandon(r)
     \/ stage[r] = "inflight" /\ Release(r)

\* wait_for_slot returned "ok" and forward_request has finished, by the end
\* of the stream, a stream error or a failed send: release, exactly once.
Finish(r) ==
  /\ LoopFree
  /\ stage[r] = "inflight"
  /\ Release(r)

-----------------------------------------------------------------------------
(* Surrendering spots *)

\* Mutant of ReleaseSpot: spot_held is not reset.
ReleaseSpotStillHeld(o) ==
  /\ spots' = spots \ {reqKey[o]}
  /\ info' = [info EXCEPT ![o].idle = NoTime]
  /\ sessions' = IF waiting[o] = 0 /\ inflight[o] = 0
                 THEN [sessions EXCEPT ![reqKey[o]] = NoObj] ELSE sessions
  /\ UNCHANGED <<ready, queue, inflightTotal, counterVars, requestVars>>
  /\ promoting' = CanPromote'

\* _release_spot: the session loses its spot, and is forgotten unless it has
\* requests left; then _try_promote.
ReleaseSpot(o) ==
  /\ spots' = spots \ {reqKey[o]}
  /\ spotHeld' = [spotHeld EXCEPT ![o] = FALSE]
  /\ info' = [info EXCEPT ![o].idle = NoTime]
  /\ sessions' = IF waiting[o] = 0 /\ inflight[o] = 0
                 THEN [sessions EXCEPT ![reqKey[o]] = NoObj] ELSE sessions
  /\ UNCHANGED <<ready, queue, inflightTotal, inflight, waiting, requestVars>>
  /\ promoting' = CanPromote'

\* release_session, called by POST /monitor/release.
ManualRelease(k) ==
  /\ LoopFree
  /\ k \in ManualKeys
  /\ sessions[k] # NoObj
  /\ spotHeld[sessions[k]]
  /\ ReleaseSpot(sessions[k])
  /\ UNCHANGED managerVars

\* _fresh_client_report, at the manager's (possibly old) `now`.
FreshReport(o) == info[o].cstat # "none" /\ info[o].cat - mgrAge < Grace

\* _current_status
CurrentStatus(o) ==
  IF inflight[o] > 0 THEN "busy"
  ELSE IF reqKey[o] \in Known
  THEN IF FreshReport(o) THEN info[o].cstat ELSE "idle"
  ELSE IF info[o].last - mgrAge < BusyWindow THEN "busy" ELSE "idle"

\* idle_since as tick leaves it: kept while the session stays idle.
IdleSince(o) ==
  IF CurrentStatus(o) \notin {"idle", "waiting"} THEN NoTime
  ELSE IF info[o].idle = NoTime THEN mgrAge
  ELSE info[o].idle

\* The report lets the spot go without the session_expiry cooldown.
ReleasesAtOnce(o) ==
  /\ FreshReport(o)
  /\ \/ CurrentStatus(o) = "waiting"
     \/ Immediate /\ info[o].cstat = "idle" /\ info[o].cat < info[o].last

\* Mutant of DeadlinePassed: in-flight requests do not hold the deadline.
DeadlineIgnoresInflight(o) ==
  IF reqKey[o] \in Known
  THEN /\ IdleSince(o) # NoTime
       /\ IdleSince(o) - mgrAge >= (IF ReleasesAtOnce(o) THEN 0 ELSE Expiry)
  ELSE info[o].last - mgrAge >= Longest(BusyWindow, Expiry)

\* _release_deadline has passed.
DeadlinePassed(o) ==
  /\ inflight[o] = 0
  /\ IF reqKey[o] \in Known
     THEN /\ IdleSince(o) # NoTime
          /\ IdleSince(o) - mgrAge >= (IF ReleasesAtOnce(o) THEN 0 ELSE Expiry)
     ELSE info[o].last - mgrAge >= Longest(BusyWindow, Expiry)

-----------------------------------------------------------------------------
(* The queue manager *)

\* A pass begins: `now` is read, the known sessions are collected for
\* polling.  With none to poll, tick follows without an await.
Wake ==
  LET tracked == {sessions[k] : k \in Keys} \ {NoObj}
      polled  == {o \in tracked : reqKey[o] \in Known} IN
  /\ LoopFree
  /\ mgr = "sleep" /\ mgrAge >= 1
  /\ mgrAge' = 0
  /\ pollSet' = polled
  /\ UNCHANGED fetchSet
  /\ IF polled = {} THEN mgr' = "tick" /\ tickTodo' = tracked
                    ELSE mgr' = "poll" /\ UNCHANGED tickTodo
  /\ UNCHANGED <<queueVars, counterVars, info, requestVars, promoting>>

\* resolve_shared_spot: the closest tracked ancestor's spot, or the one that
\* ancestor shares.
SharedWith(a) ==
  LET anc == sessions[a] IN
  IF a \in spots THEN a
  ELSE IF info[anc].shared \in spots THEN info[anc].shared
  ELSE a

\* The walk up the cached parent chain to the closest tracked ancestor.  (An
\* intermediate session the poller has not resolved yet, which ends the walk
\* early, is not told apart from one it has.)
ResolveShared(o) ==
  LET chain   == Ancestors[reqKey[o]]
      tracked == {i \in 1..Len(chain) : sessions[chain[i]] # NoObj} IN
  /\ LoopFree
  /\ mgr = "poll" /\ o \in pollSet
  /\ pollSet' = pollSet \ {o} /\ fetchSet' = fetchSet \cup {o}
  /\ \/ tracked = {} /\ info' = [info EXCEPT ![o].shared = NoKey]
     \/ \E i \in tracked :
          /\ \A j \in tracked : i <= j
          /\ info' = [info EXCEPT ![o].shared = SharedWith(chain[i])]
  /\ UNCHANGED <<queueVars, counterVars, requestVars, promoting, mgr, mgrAge, tickTodo>>

\* A status fetch answers: the report is stamped when it arrives.
Report(o, s) ==
  /\ LoopFree
  /\ mgr = "poll" /\ o \in fetchSet
  /\ fetchSet' = fetchSet \ {o}
  /\ info' = [info EXCEPT ![o].cstat = s, ![o].cat = 0]
  /\ UNCHANGED <<queueVars, counterVars, requestVars, promoting, mgr, mgrAge, pollSet, tickTodo>>

\* The polls are over (what was not answered keeps its last state): tick
\* takes its snapshot of the sessions.
TickStart ==
  /\ LoopFree
  /\ mgr = "poll"
  /\ mgr' = "tick"
  /\ pollSet' = {} /\ fetchSet' = {}
  /\ tickTodo' = {sessions[k] : k \in Keys} \ {NoObj}
  /\ UNCHANGED <<queueVars, counterVars, info, requestVars, promoting, mgrAge>>

\* Mutant of Forgotten: a session is dropped with its spot still held.
ForgottenWithSpot(o) == waiting[o] = 0 /\ inflight[o] = 0

\* tick drops a session with no spot and no request.
Forgotten(o) == ~spotHeld[o] /\ waiting[o] = 0 /\ inflight[o] = 0

\* tick's loop body for one session of the snapshot.
TickSession(o) ==
  IF spotHeld[o] /\ DeadlinePassed(o)
  THEN ReleaseSpot(o)
  ELSE /\ info' = [info EXCEPT ![o].idle = IdleSince(o)]
       /\ sessions' = IF Forgotten(o)
                      THEN [sessions EXCEPT ![reqKey[o]] = NoObj] ELSE sessions
       /\ UNCHANGED <<ready, queue, spots, inflightTotal, counterVars, requestVars, promoting>>

TickStep ==
  /\ mgr = "tick" /\ ~promoting
  /\ \E o \in tickTodo :
       /\ \A p \in tickTodo : o <= p
       /\ tickTodo' = tickTodo \ {o}
       /\ TickSession(o)
  /\ UNCHANGED <<mgr, mgrAge, pollSet, fetchSet>>

\* tick returns; with requests waiting the manager goes on to probe.
TickEnd ==
  /\ mgr = "tick" /\ ~promoting /\ tickTodo = {}
  /\ mgr' = IF queue = <<>> THEN "sleep" ELSE "probe"
  /\ mgrAge' = 0
  /\ UNCHANGED <<queueVars, counterVars, info, requestVars, promoting, pollSet, fetchSet, tickTodo>>

\* Mutant of ManagerPromote: entries queued before the endpoint became
\* ready are left to the next admission.
ManagerForgets ==
  /\ LoopFree
  /\ mgr = "probe"
  /\ mgr' = "sleep" /\ mgrAge' = 0
  /\ UNCHANGED <<queueVars, counterVars, info, requestVars, promoting, pollSet, fetchSet, tickTodo>>

\* After its probe (and power-on, if due) the manager promotes if ready.
ManagerPromote ==
  /\ LoopFree
  /\ mgr = "probe"
  /\ mgr' = "sleep" /\ mgrAge' = 0
  /\ promoting' = CanPromote
  /\ UNCHANGED <<queueVars, counterVars, info, requestVars, pollSet, fetchSet, tickTodo>>

\* check_readiness: a probe (readiness loop, admission or manager) flips ready.
ReadinessFlip ==
  /\ LoopFree
  /\ ready' = ~ready
  /\ UNCHANGED <<queue, sessions, spots, inflightTotal, counterVars, info, requestVars,
                 promoting, managerVars>>

\* A Session object something still refers to; Python frees the others.
\* (WsAdmission has WebSockets with stages of their own, "closed" at the end.)
Live(o) ==
  \/ \E k \in Keys : sessions[k] = o
  \/ \E r \in Req : sessOf[r] = o /\ stage[r] \notin {"new", "done", "closed"}

\* One second passes; a manager pass lasts at most MaxLag.
Older(t) == IF t = NoTime \/ t = Horizon THEN t ELSE t + 1

Second ==
  /\ LoopFree
  /\ mgr = "poll" => mgrAge < MaxLag
  /\ mgrAge' = IF mgr = "poll" THEN mgrAge + 1 ELSE IF mgr = "sleep" THEN 1 ELSE mgrAge
  /\ info' = [o \in Obj |->
       IF Live(o)
       THEN [info[o] EXCEPT !.idle = Older(@), !.last = Older(@), !.cat = Older(@)]
       ELSE NewInfo]
  /\ UNCHANGED <<queueVars, counterVars, requestVars, promoting, mgr, pollSet, fetchSet, tickTodo>>

-----------------------------------------------------------------------------
Manager == Wake \/ TickStart \/ TickStep \/ TickEnd \/ ManagerPromote

Next ==
  \/ Promote
  \/ \E k \in Keys : Admit(k)
  \/ \E r \in Req : Enqueue(r)
  \/ \E r \in Req : GiveUp(r)
  \/ \E r \in Req : Finish(r)
  \/ \E k \in ManualKeys : ManualRelease(k)
  \/ \E o \in Obj : ResolveShared(o)
  \/ \E o \in Obj, s \in Reports : Report(o, s)
  \/ Manager
  \/ ReadinessFlip
  \/ Second

Spec == Init /\ [][Next]_vars

\* The event loop runs every coroutine that became runnable, however often
\* a synchronous section delays it (hence strong fairness: such a section
\* disables everybody else); the manager loop never ends (queue_manager
\* swallows exceptions), the clock advances, and a forwarded request ends
\* (forward_request releases on every outcome).
Fairness ==
  /\ WF_vars(Promote) /\ WF_vars(Manager) /\ WF_vars(Second)
  /\ \A r \in Req : SF_vars(Enqueue(r)) /\ SF_vars(Finish(r))

FairSpec == Spec /\ Fairness

-----------------------------------------------------------------------------
(* Properties *)

\* The type of the state; counters are naturals, so that no completion or
\* disconnect ever takes one below zero.
TypeOK ==
  /\ ready \in BOOLEAN /\ promoting \in BOOLEAN
  /\ queue \in Seq(Req)
  /\ sessions \in [Keys -> Obj \cup {NoObj}]
  /\ spots \subseteq Keys
  /\ inflightTotal \in Nat
  /\ inflight \in [Obj -> Nat] /\ waiting \in [Obj -> Nat]
  /\ spotHeld \in [Obj -> BOOLEAN]
  /\ info \in [Obj -> Info]
  /\ arrived \in 0..MaxRequests
  /\ reqKey \in [Req -> Keys \cup {NoKey}]
  /\ sessOf \in [Req -> Obj \cup {NoObj}]
  /\ stage \in [Req -> Stages]
  /\ mgr \in {"sleep", "poll", "tick", "probe"}
  /\ mgrAge \in 0..MaxLag
  /\ pollSet \subseteq Obj /\ fetchSet \subseteq Obj /\ tickTodo \subseteq Obj

InStage(s)     == {r \in Req : stage[r] = s}
InStageOf(s,o) == {r \in Req : stage[r] = s /\ sessOf[r] = o}

\* The counters every decision is taken from (per-session inflight and
\* waiting, the endpoint's inflight_total) always equal the number of
\* requests really in flight or waiting, whatever mix of promotion, lost
\* race, disconnect, timeout and completion produced them, and the deque
\* holds each waiting request exactly once.  (An open WebSocket counts in its
\* session's inflight; this module by itself has none.)
SlotAccounting ==
  /\ \A o \in Obj : /\ inflight[o] = Cardinality(InStageOf("inflight", o))
                                     + Cardinality(InStageOf("open", o))
                    /\ waiting[o] = Cardinality(InStageOf("waiting", o))
  /\ inflightTotal = Cardinality(InStage("inflight"))
  /\ \A r \in InStage("waiting") : \E i \in 1..Len(queue) : queue[i] = r
  /\ \A i \in 1..Len(queue) : stage[queue[i]] = "waiting"
  /\ \A i, j \in 1..Len(queue) : queue[i] = queue[j] => i = j

\* Spots and spot_held flags are two views of one fact: each spot belongs to
\* exactly one Session object that says it holds it, and no object believes
\* in a spot that is gone.
SpotHolder ==
  /\ \A o \in Obj : spotHeld[o] => reqKey[o] \in spots
  /\ \A k \in spots : \E o \in Obj : spotHeld[o] /\ reqKey[o] = k
  /\ \A o, p \in Obj : spotHeld[o] /\ spotHeld[p] /\ reqKey[o] = reqKey[p] => o = p

\* Never more spots than max_spots, sub-agents and revived sessions included.
SpotsBounded == Cardinality(spots) <= MaxSpots

\* request_mode atomic: at most one request of the endpoint is in flight.
AtomicExclusion ==
  Atomic => \A r, s \in InStage("inflight") : r = s

\* Sessions of this key share no other session's spot and are not released
\* by hand.
SelfContained(k) == k \notin ManualKeys /\ Ancestors[k] = <<>>

\* While a request of such a session is in flight, _release_deadline never
\* lets tick take its spot away: the session keeps the spot it runs on.
RunnerKeepsSpot ==
  \A r \in InStage("inflight") :
    SelfContained(reqKey[r]) /\ sessions[reqKey[r]] = sessOf[r] => reqKey[r] \in spots

\* Such a session never has more requests in flight than its cap (the first
\* one comes with the spot, so a cap of 0 still lets one run).
SessionCap ==
  \A k \in Keys : SelfContained(k) /\ sessions[k] # NoObj /\ Cap >= 0
                    => inflight[sessions[k]] <= Longest(1, Cap)

\* Requests of one session are promoted in the order they were enqueued,
\* although entries at their cap are skipped.
SessionOrder ==
  [][\A j \in 1..Len(queue) : stage'[queue[j]] = "inflight" =>
       \A i \in 1..(j-1) : sessOf[queue[i]] = sessOf[queue[j]] =>
                              stage'[queue[i]] = "inflight"]_vars

\* tick takes a known client's spot only when its last request is at least
\* session_expiry old (less the lag of the manager's clock), or on a report:
\* waiting for input, or an idle report younger than the last request when
\* immediate release is on.  A request that revives the session restarts
\* the countdown.
CooldownHonoured ==
  [][\A k \in Known : (mgr = "tick" /\ k \in spots /\ k \notin spots') =>
       LET f == info[sessions[k]] IN
       \/ f.last >= Expiry - MaxLag
       \/ f.cstat = "waiting"
       \/ Immediate /\ f.cstat = "idle" /\ f.cat < f.last]_vars

\* An entry that may run is left waiting, with nobody promoting it.
Stalled == ~promoting /\ CanPromote

\* A poll changes whose spot the session of a waiting entry shares.
SharesAnew ==
  \E i \in 1..Len(queue) :
    LET o == sessOf[queue[i]] IN mgr = "poll" /\ info'[o].shared # info[o].shared

\* A connection closes whose session has no spot of its own (WsAdmission).
ClosesWithoutSpot ==
  \E r \in Req : stage[r] = "open" /\ stage'[r] = "closed" /\ reqKey[r] \notin spots

\* No wake-up is lost: whatever ends, expires, is released, leaves or arrives,
\* the handler that lets an entry run also promotes it.  Only three things do
\* not: a probe that finds the endpoint ready, a poll that gives a sub-agent
\* the spot of its ancestor, and the end of a WebSocket without a spot of its
\* own.  Those are left to the manager ("nothing else re-runs it for them",
\* endpoints.py:416), and no pass of the manager ends with them still waiting.
NoLostWakeup ==
  [][/\ Stalled' => \/ Stalled
                    \/ ~ready /\ ready'
                    \/ SharesAnew \/ ClosesWithoutSpot
     /\ mgr # "sleep" /\ mgr' = "sleep" => ~Stalled']_vars

\* How requests, sessions and the manager's snapshots refer to each other:
\* only to requests that have arrived and Session objects with the same key.
Wiring ==
  /\ \A r \in Req : stage[r] = "new" <=> r > arrived
  /\ \A r \in 1..arrived : /\ reqKey[r] \in Keys
                           /\ sessOf[r] \in 1..arrived
                           /\ reqKey[sessOf[r]] = reqKey[r]
  /\ \A k \in Keys : sessions[k] # NoObj =>
       sessions[k] <= arrived /\ reqKey[sessions[k]] = k
  /\ \A o \in pollSet \cup fetchSet \cup tickTodo : o <= arrived
  /\ \A o \in Obj : spotHeld[o] => o <= arrived

\* The inductive invariant of the safety proofs (EndpointQueueProofs), beside
\* SpotHolder.
IInv == TypeOK /\ Wiring /\ SlotAccounting /\ SpotsBounded /\ AtomicExclusion

\* The Session object of an admitted request is no longer the tracked one.
Orphan ==
  \E r \in Req : /\ stage[r] \in {"admitting", "waiting", "inflight"}
                 /\ sessions[reqKey[r]] # sessOf[r]

\* With the endpoint ready for good, every queued request is promoted (or
\* its client leaves), provided no session is dropped while one of its
\* requests is still being admitted.
EventuallyServed ==
  (<>[]ready /\ []~Orphan) =>
    \A r \in Req : stage[r] \in {"admitting", "waiting"} ~> stage[r] \in {"inflight", "done"}

\* Under the same proviso every spot is surrendered in the end.
SpotsReclaimed ==
  []~Orphan => \A k \in Keys : k \in spots ~> k \notin spots

\* "assert set(q.spots) <= set(q.sessions)" (tests/unit/test_queue.py): every
\* spot belongs to a tracked session, so that tick can surrender it.
SpotsTracked == \A k \in spots : sessions[k] # NoObj

\* What the abstract pool sees of a request: admission and queueing are both
\* waiting.
Phase(s) ==
  CASE s \in {"admitting", "waiting"} -> "waiting"
    [] s = "inflight" -> "running"
    [] OTHER -> s

Pool == INSTANCE SlotPool WITH
  Requests <- Req, phase <- [r \in Req |-> Phase(stage[r])], owner <- reqKey,
  holders <- spots, free <- MaxSpots - Cardinality(spots)

\* The queue implements SlotPool: whatever the deque, the counters, the lost
\* promotion race and the manager do, each step of _try_promote, release,
\* abandon, tick or release_session changes requests and spots as the pool
\* does, or not at all.
PoolImplemented == Pool!PoolSpec

\* What the server sees of the queue: entries in the deque, and held spots.
Load == INSTANCE Workload WITH queued <- queue # <<>>, running <- spots # {}

\* The queue is a Workload, which is all that ServerRuntime has of it: the first
\* spot is taken only while the endpoint is ready and a request waits, though
\* the probe that said so, the loop that promotes and the manager are
\* different coroutines.
WorkloadImplemented == Load!WorkloadSpec

=============================================================================
