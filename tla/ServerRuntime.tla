--------------------------- MODULE ServerRuntime ---------------------------
(***************************************************************************)
(* Power, ownership and automatic shutdown of one server                   *)
(* (relay/servers.py), the requests its endpoints admit for it, the mirror *)
(* of its runtime row in the store (Store.set_server_runtime behind the    *)
(* FIFO _write_lock), and a crash and restart of the proxy                 *)
(* (RelayApp.startup).                                                     *)
(*                                                                         *)
(* Every await is a point where other coroutines run: each call to the     *)
(* BMC and each store write is split into the step that issues it and the  *)
(* step that resumes.  pc says which await a coroutine is in, then where   *)
(* it goes on when that returns.  The power sync loop, the shutdown engine *)
(* and the endpoint's manager (which also stands for its readiness loop)   *)
(* are one task each; the others, requests and monitor posts, are Callers. *)
(* The log_power_event that ends an action only adds to the await of the   *)
(* store write before it.                                                  *)
(*                                                                         *)
(* Times are ages in whole seconds, saturated where no comparison can tell *)
(* them apart any more.                                                    *)
(***************************************************************************)
EXTENDS Integers, Sequences

CONSTANTS
  Callers,        \* coroutines that call into the runtime, besides the loops
  Routing,        \* how its endpoints route, among "queued" and "unqueued"
  IdleTimeout, Cooldown, Period,  \* idle_timeout, power_on_cooldown, shutdown_tick
  AdoptOnTraffic, AutoOff,        \* adopt_on_traffic, shutdown_enabled (config)
  Scheduled,      \* a cron off-time is configured
  Toggles,        \* what the monitor sets the auto-off switch to
  ManualPower,    \* power actions the monitor posts, among "on" and "off"
  Faults,         \* what may go wrong, among FaultKinds
  MaxPass, MaxLag \* bounds: seconds a shutdown pass, and an admission, spend in awaits

FaultKinds ==
  {"operatorOn", "operatorOff",  \* the power button
   "lostReply",                  \* the BMC acts, its answer is lost
   "unknown",                    \* the BMC cannot be read
   "storeDrop",                  \* a store write fails and is dropped (D33)
   "crash"}                      \* the proxy dies and is restarted

ASSUME ServerTimes ==
  /\ IdleTimeout \in Nat /\ Cooldown \in Nat /\ Period \in Nat \ {0}
  /\ MaxPass \in Nat /\ MaxLag \in Nat

ASSUME ServerSettings ==
  /\ AdoptOnTraffic \in BOOLEAN /\ AutoOff \in BOOLEAN /\ Scheduled \in BOOLEAN
  /\ Routing \subseteq {"queued", "unqueued"}
  /\ Toggles \subseteq {"enabled", "disabled"} /\ ManualPower \subseteq {"on", "off"}
  /\ Faults \subseteq FaultKinds
  /\ Callers \cap {"sync", "engine", "manager"} = {}

VARIABLES
  \* the machine
  box,            \* chassis power
  stopping,       \* its OS is shutting down
  \* ServerRuntime
  powerState, transient, owned,
  override,       \* shutdown_override, "default" for None
  idleAge,        \* age of last_activity
  attemptAge,     \* age of last_power_on_attempt
  cron,           \* "unset" until last_fired_cron is baselined; then "due" once
                  \* a fire later than it has elapsed, else "quiet"
  deferred,       \* schedule_deferred
  \* the endpoints of the server
  queued,         \* a request waits in a deque
  running,        \* a spot is held, or a request is being forwarded
  ready,          \* the endpoints' readiness flag
  \* coroutines
  pc, then,       \* the await each one is in, and where it goes on after it
  answer,         \* what the BMC told a reader
  passAge,        \* age of the engine's `now`; while it sleeps, of its sleep
  lag,            \* seconds for which requests have been in admission
  \* the store
  row,            \* owned and shutdown_override as committed
  writes,         \* writes waiting for _write_lock, first come first served
  up,             \* the proxy is running
  \* history, for the properties
  claim,          \* this on-period was begun, or has been used, through the proxy
  quiet,          \* age of the last work or routed request
  wakeAge,        \* age of the last power-on issued for a request, in this run
  dropped         \* a write of this run has been dropped

machine == <<box, stopping>>
clocks  == <<idleAge, attemptAge, passAge, lag>>
power   == <<powerState, transient>>
rules   == <<owned, override, cron, deferred>>
store   == <<row, writes>>
history == <<claim, quiet, wakeAge, dropped>>
load    == <<queued, running>>
vars == <<machine, power, rules, clocks, load, ready, pc, then, answer, store, up, history>>

Readers  == {"sync", "engine"}
Tasks    == Callers \cup Readers \cup {"manager"}
Overrides == {"default", "enabled", "disabled"}
Powers   == {"on", "off", "unknown"}
NoFields == <<>>

\* shutdown_enabled_now
Enabled == IF override = "default" THEN AutoOff ELSE override = "enabled"

\* ServerRuntime.has_activity: queued work, in-flight traffic or held spots.
HasActivity == queued \/ running

\* What the requests in an endpoint can do; EndpointQueue implements it.
Load == INSTANCE Workload

\* What reading the BMC can give.
BmcAnswers == {box} \cup ({"unknown"} \cap Faults)

\* A running proxy, right after its startup sync, on a fresh database.  The
\* last_power_on_attempt of 0.0 is old or young, as the host's uptime is.
Init ==
  /\ box \in {"on", "off"} /\ stopping = FALSE
  /\ powerState \in BmcAnswers /\ transient = "none"
  /\ owned = FALSE /\ override = "default"
  /\ idleAge = 0 /\ attemptAge \in {0, Cooldown + 1} /\ passAge = Period /\ lag = 0
  /\ cron = "unset" /\ deferred = FALSE
  /\ queued = FALSE /\ running = FALSE /\ ready = FALSE
  /\ pc = [t \in Tasks |-> "idle"] /\ then = [t \in Tasks |-> "idle"]
  /\ answer = [t \in Readers |-> "unknown"]
  /\ row = [owned |-> FALSE, override |-> "default"] /\ writes = <<>>
  /\ up = TRUE
  /\ claim = FALSE /\ quiet = 0 /\ wakeAge = Cooldown + 1 /\ dropped = FALSE

\* Task t awaits: it goes on at `next` afterwards.
Await(t, where, next) ==
  pc' = [pc EXCEPT ![t] = where] /\ then' = [then EXCEPT ![t] = next]

Goto(t, where) == Await(t, where, "idle")

Return(t) == Goto(t, then[t])

-----------------------------------------------------------------------------
(* The store mirror *)

\* Mutant of Save: the write is left to a task of its own, not awaited.
SaveUnawaited(t, fields, next) ==
  /\ writes' = Append(writes, [by |-> t, fields |-> fields])
  /\ Goto(t, next)
  /\ UNCHANGED row

\* set_server_runtime called by task t: its write queues for the lock.
Save(t, fields, next) ==
  /\ writes' = Append(writes, [by |-> t, fields |-> fields])
  /\ Await(t, "saving", next)
  /\ UNCHANGED row

\* The transaction that holds the lock commits, or fails and is dropped
\* (D33); the task that awaited it goes on.
WriteDone ==
  /\ up /\ writes # <<>>
  /\ LET w == Head(writes) IN
       /\ \/ /\ row' = [f \in DOMAIN row |-> IF f \in DOMAIN w.fields THEN w.fields[f] ELSE row[f]]
             /\ UNCHANGED dropped
          \/ /\ "storeDrop" \in Faults
             /\ dropped' = TRUE
             /\ UNCHANGED row
       /\ Return(w.by)
  /\ writes' = Tail(writes)
  /\ UNCHANGED <<machine, power, rules, clocks, load, ready, answer, up, claim, quiet, wakeAge>>

-----------------------------------------------------------------------------
(* Power state *)

\* _set_state
SetState(s) ==
  /\ powerState' = s
  /\ transient' = IF s = powerState THEN transient ELSE "none"

\* backend.power_state() is answered: the BMC's reading, or UNKNOWN.  (That
\* the sync loop has asked is not a step of its own: nothing depends on it.)
BmcReads(t) ==
  /\ up /\ pc[t] = (IF t = "sync" THEN "idle" ELSE "reading")
  /\ \E a \in BmcAnswers : answer' = [answer EXCEPT ![t] = a]
  /\ Goto(t, IF t = "sync" THEN "read" ELSE then[t])
  /\ UNCHANGED <<machine, power, rules, clocks, load, ready, store, up, history>>

\* The answer has been used.
Answered(t) == answer' = [answer EXCEPT ![t] = "unknown"]

\* _power_sync_tick, resumed with the answer.
SyncTick ==
  LET s == answer["sync"] IN
  /\ up /\ pc["sync"] = "read"
  /\ SetState(s) /\ Answered("sync")
  /\ IF s = powerState THEN Goto("sync", "idle") /\ UNCHANGED store
                       ELSE Save("sync", NoFields, "idle")
  /\ UNCHANGED <<machine, rules, clocks, load, ready, up, history>>

\* check_readiness, by a loop or, once, by a request being admitted: the
\* probe succeeds, and note_service_ready implies that the box is on.
ServiceReady(t) ==
  /\ up /\ box = "on" /\ ~ready
  /\ pc[t] = (IF t = "manager" THEN "idle" ELSE "admitting")
  /\ ready' = TRUE
  /\ SetState("on")
  /\ LET next == IF t = "manager" THEN "idle" ELSE "probed" IN
       IF powerState = "on" THEN Goto(t, next) /\ UNCHANGED store
                            ELSE Save(t, NoFields, next)
  /\ UNCHANGED <<machine, rules, clocks, load, answer, up, history>>

\* The probe fails.
ServiceDown ==
  /\ up /\ ready
  /\ ready' = FALSE
  /\ UNCHANGED <<machine, power, rules, clocks, load, pc, then, answer, store, up, history>>

-----------------------------------------------------------------------------
(* Requests *)

\* on_routed_traffic: the idle clock restarts and, if configured, the server
\* is adopted.
RoutedTraffic(p) ==
  /\ up /\ pc[p] = "idle"
  /\ idleAge' = 0 /\ quiet' = 0 /\ claim' = TRUE
  /\ IF AdoptOnTraffic /\ ~owned
     THEN /\ owned' = TRUE
          /\ Save(p, [owned |-> TRUE], "admitting")
     ELSE /\ Goto(p, "admitting")
          /\ UNCHANGED <<owned, store>>
  /\ UNCHANGED <<machine, power, override, cron, deferred, attemptAge, passAge, lag, load, ready,
                 answer, up, wakeAge, dropped>>

\* _ensure_wake would issue a power-on.
WakeDue == ~ready /\ powerState \in {"off", "unknown"} /\ attemptAge > Cooldown

\* A request past on_routed_traffic, with or without a probe of its own.
Entering == {"admitting", "probed"}

\* _admit_queued: the request joins the queue, and runs at once if it can.
Enqueue(p) ==
  /\ up /\ "queued" \in Routing
  /\ pc[p] = "queueing" \/ (pc[p] \in Entering /\ ~WakeDue)
  /\ Goto(p, "idle")
  /\ Load!Arrive
  /\ UNCHANGED <<machine, power, rules, clocks, answer, store, up, history>>

\* admit_unqueued: the request is held until the endpoint is ready.
Hold(p) ==
  /\ up /\ "unqueued" \in Routing /\ ~ready
  /\ pc[p] \in Entering
  /\ Goto(p, "held")
  /\ UNCHANGED <<machine, power, rules, clocks, load, ready, answer, store, up, history>>

\* admit_unqueued: active_forwards += 1.
Forward(p) ==
  /\ up /\ "unqueued" \in Routing /\ ready
  /\ pc[p] \in Entering \cup {"held"}
  /\ Goto(p, "idle")
  /\ running' = TRUE /\ UNCHANGED queued
  /\ UNCHANGED <<machine, power, rules, clocks, ready, answer, store, up, history>>

\* The request is refused (wait_policy "error"), times out or its client is
\* gone before it is taken in.
Refuse(p) ==
  /\ up /\ pc[p] \in Entering \cup {"queueing", "held"}
  /\ Goto(p, "idle")
  /\ UNCHANGED <<machine, power, rules, clocks, load, ready, answer, store, up, history>>

\* The queue promotes a request that waits.
WorkStarts ==
  /\ up /\ Load!Start
  /\ UNCHANGED <<machine, power, rules, clocks, pc, then, answer, store, up, history>>

\* What runs ends and its spot is surrendered, or the last request that waits
\* leaves.
WorkEnds ==
  /\ up /\ Load!End
  /\ UNCHANGED <<machine, power, rules, clocks, pc, then, answer, store, up, history>>

-----------------------------------------------------------------------------
(* Power actions *)

\* Mutant of Waker: the manager leaves the power-on to the admission path.
WakerAdmissionOnly(t, next) ==
  \/ pc[t] \in Entering /\ "queued" \in Routing /\ next = "queueing"
  \/ pc[t] = "held" /\ next = "held"

\* Who calls maybe_power_on, and goes on where: the manager while the deque is
\* not empty, whether or not spots are held beside it (it looks at the deque,
\* probes and wakes in one step here), a request on its way into the queue,
\* a held one.
Waker(t, next) ==
  \/ t = "manager" /\ pc[t] = "idle" /\ queued /\ next = "idle"
  \/ pc[t] \in Entering /\ "queued" \in Routing /\ next = "queueing"
  \/ pc[t] = "held" /\ next = "held"

\* Mutant of Wake: the attempt is not stamped.
WakeUnstamped(t) ==
  /\ up /\ WakeDue
  /\ \E next \in {"idle", "queueing", "held"} : Waker(t, next) /\ Await(t, "wakeCall", next)
  /\ wakeAge' = 0
  /\ transient' = "on"
  /\ UNCHANGED <<machine, powerState, rules, clocks, load, ready, answer, store, up, claim, quiet,
                 dropped>>

\* maybe_power_on: deduplicated by the cooldown, stamped before the await.
Wake(t) ==
  /\ up /\ WakeDue
  /\ \E next \in {"idle", "queueing", "held"} : Waker(t, next) /\ Await(t, "wakeCall", next)
  /\ attemptAge' = 0 /\ wakeAge' = 0
  /\ transient' = "on"
  /\ UNCHANGED <<machine, powerState, rules, idleAge, passAge, lag, load, ready, answer, store, up,
                 claim, quiet, dropped>>

\* POST /monitor/power
MonitorPower(p, action) ==
  /\ up /\ pc[p] = "idle"
  /\ transient' = action
  /\ Goto(p, IF action = "on" THEN "onCall" ELSE "offCall")
  /\ UNCHANGED <<machine, powerState, rules, clocks, load, ready, answer, store, up, history>>

\* POST /monitor/shutdown: set_shutdown_override
SetOverride(p, v) ==
  /\ up /\ pc[p] = "idle"
  /\ override' = v
  /\ Save(p, [override |-> v], "idle")
  /\ UNCHANGED <<machine, power, owned, cron, deferred, clocks, load, ready, answer, up, history>>

\* What an accepted reset does to the machine: On has no effect on a box
\* that is on, GracefulShutdown asks its OS to stop.
BmcOn  == box' = "on" /\ claim' = (claim \/ box = "off") /\ UNCHANGED stopping
BmcOff == stopping' = (stopping \/ box = "on") /\ UNCHANGED <<box, claim>>

OnCalls == {"onCall", "wakeCall"}

\* power_on after backend.power_on(): ownership and a new power cycle, memory
\* first, mirror second.
PowerOnAccepted(t) ==
  /\ up /\ pc[t] \in OnCalls
  /\ box' = "on" /\ claim' = TRUE /\ UNCHANGED stopping
  /\ owned' = TRUE /\ override' = "default"
  /\ Save(t, [owned |-> TRUE, override |-> "default"], then[t])
  /\ UNCHANGED <<power, cron, deferred, clocks, load, ready, answer, up, quiet, wakeAge, dropped>>

PowerOnFailed(t) ==
  /\ up /\ pc[t] \in OnCalls
  /\ UNCHANGED <<machine, claim>> \/ ("lostReply" \in Faults /\ BmcOn)
  /\ transient' = "none"
  /\ Save(t, NoFields, then[t])
  /\ UNCHANGED <<powerState, rules, clocks, load, ready, answer, up, quiet, wakeAge, dropped>>

\* Mutant of PowerOffAccepted: the released ownership is not mirrored.
PowerOffUnmirrored(t) ==
  /\ up /\ pc[t] = "offCall"
  /\ BmcOff
  /\ owned' = FALSE
  /\ Save(t, NoFields, then[t])
  /\ UNCHANGED <<power, override, cron, deferred, clocks, load, ready, answer, up, quiet, wakeAge,
                 dropped>>

\* power_off after backend.power_off(): ownership ends.
PowerOffAccepted(t) ==
  /\ up /\ pc[t] = "offCall"
  /\ BmcOff
  /\ owned' = FALSE
  /\ Save(t, [owned |-> FALSE], then[t])
  /\ UNCHANGED <<power, override, cron, deferred, clocks, load, ready, answer, up, quiet, wakeAge,
                 dropped>>

PowerOffFailed(t) ==
  /\ up /\ pc[t] = "offCall"
  /\ UNCHANGED <<machine, claim>> \/ ("lostReply" \in Faults /\ BmcOff)
  /\ transient' = "none"
  /\ Save(t, NoFields, then[t])
  /\ UNCHANGED <<powerState, rules, clocks, load, ready, answer, up, quiet, wakeAge, dropped>>

-----------------------------------------------------------------------------
(* The shutdown engine *)

\* The idle rule finds the server idle for too long.
IdleTooLong == ~HasActivity /\ Enabled /\ idleAge > IdleTimeout

\* Mutant of IdleOffTick: activity does not restart the idle clock.
IdleOffTickNoRestart ==
  /\ passAge' = 0
  /\ UNCHANGED idleAge
  /\ IF IdleTooLong THEN Await("engine", "reading", "idleRead") ELSE Goto("engine", "idle")

\* _idle_off_tick up to its await, or to its end.
IdleOffTick ==
  /\ passAge' = 0
  /\ idleAge' = IF HasActivity THEN 0 ELSE idleAge
  /\ IF IdleTooLong THEN Await("engine", "reading", "idleRead") ELSE Goto("engine", "idle")

\* _schedule_off_tick: an off-time has come, or was deferred until now.
OffTime == cron = "due" \/ deferred

\* _shutdown_tick: the cron off-time first, deferred while the server is
\* active.  (last_fired_cron advances when the pass is over, to the fire seen
\* here; only the engine looks at it.)
EngineStart ==
  /\ up /\ pc["engine"] = "idle" /\ passAge >= Period
  /\ cron' = "quiet"
  /\ IF OffTime /\ ~HasActivity /\ owned /\ Enabled
     THEN /\ Await("engine", "reading", "schedRead")
          /\ passAge' = 0
          /\ UNCHANGED <<deferred, idleAge>>
     ELSE /\ deferred' = (HasActivity /\ OffTime)
          /\ IdleOffTick
  /\ UNCHANGED <<machine, power, owned, override, attemptAge, lag, load, ready, answer, store, up,
                 history>>

\* power_off called by the engine.
IssueOff(next) == transient' = "off" /\ Await("engine", "offCall", next)

\* Mutant of SchedResume: a deferred off that cannot be carried out stays
\* deferred.
SchedResumeStillDeferred ==
  /\ up /\ pc["engine"] = "schedRead"
  /\ Answered("engine")
  /\ IF answer["engine"] = "on"
     THEN IssueOff("schedDone") /\ UNCHANGED <<deferred, idleAge, passAge>>
     ELSE /\ IdleOffTick
          /\ UNCHANGED <<deferred, transient>>
  /\ UNCHANGED <<machine, powerState, owned, override, cron, attemptAge, lag, load, ready, store,
                 up, history>>

\* _can_power_off has read the BMC: off, or on to the idle rule.
SchedResume ==
  /\ up /\ pc["engine"] = "schedRead"
  /\ Answered("engine")
  /\ IF answer["engine"] = "on"
     THEN IssueOff("schedDone") /\ UNCHANGED <<deferred, idleAge, passAge>>
     ELSE /\ deferred' = FALSE
          /\ IdleOffTick
          /\ UNCHANGED transient
  /\ UNCHANGED <<machine, powerState, owned, override, cron, attemptAge, lag, load, ready, store,
                 up, history>>

SchedDone ==
  /\ up /\ pc["engine"] = "schedDone"
  /\ deferred' = FALSE
  /\ IdleOffTick
  /\ UNCHANGED <<machine, power, owned, override, cron, attemptAge, lag, load, ready, answer, store,
                 up, history>>

\* last_activity = now, the `now` of the start of the pass (P12).
ClockReset ==
  /\ idleAge' = IF passAge > IdleTimeout THEN IdleTimeout + 1 ELSE passAge
  /\ passAge' = 0

\* Mutant of IdleResume: the clock is reset, but no power-off issued, when the
\* BMC has read on.
IdleResumeNeverOff ==
  /\ up /\ pc["engine"] = "idleRead"
  /\ Answered("engine")
  /\ ClockReset /\ Goto("engine", "idle")
  /\ UNCHANGED <<machine, power, rules, attemptAge, lag, load, ready, store, up, history>>

\* Mutant of IdleResume: ownership is not asked for.
IdleResumeUnowned ==
  /\ up /\ pc["engine"] = "idleRead"
  /\ Answered("engine")
  /\ \/ /\ answer["engine"] = "on"
        /\ IssueOff("idleDone")
        /\ UNCHANGED <<idleAge, passAge>>
     \/ /\ answer["engine"] # "on"
        /\ passAge' = 0 /\ Goto("engine", "idle")
        /\ UNCHANGED <<idleAge, transient>>
  /\ UNCHANGED <<machine, powerState, rules, attemptAge, lag, load, ready, store, up, history>>

\* _idle_off_tick has read the BMC.
IdleResume ==
  /\ up /\ pc["engine"] = "idleRead"
  /\ Answered("engine")
  /\ \/ /\ answer["engine"] = "on" /\ owned
        /\ IssueOff("idleDone")
        /\ UNCHANGED <<idleAge, passAge>>
     \/ /\ answer["engine"] = "on" /\ ~owned
        /\ ClockReset /\ Goto("engine", "idle")
        /\ UNCHANGED transient
     \/ /\ answer["engine"] # "on"
        /\ passAge' = 0 /\ Goto("engine", "idle")
        /\ UNCHANGED <<idleAge, transient>>
  /\ UNCHANGED <<machine, powerState, rules, attemptAge, lag, load, ready, store, up, history>>

IdleDone ==
  /\ up /\ pc["engine"] = "idleDone"
  /\ ClockReset
  /\ Goto("engine", "idle")
  /\ UNCHANGED <<machine, power, rules, attemptAge, lag, load, ready, answer, store, up, history>>

-----------------------------------------------------------------------------
(* The world *)

CronFire ==
  /\ Scheduled /\ up /\ cron = "quiet"
  /\ cron' = "due"
  /\ UNCHANGED <<machine, power, owned, override, deferred, clocks, load, ready, pc, then, answer,
                 store, up, history>>

Stopped ==
  /\ stopping
  /\ box' = "off" /\ stopping' = FALSE
  /\ UNCHANGED <<power, rules, clocks, load, ready, pc, then, answer, store, up, history>>

Operator ==
  /\ \/ "operatorOn" \in Faults /\ box = "off" /\ box' = "on" /\ claim' = FALSE
     \/ "operatorOff" \in Faults /\ box = "on" /\ box' = "off" /\ UNCHANGED claim
  /\ stopping' = FALSE
  /\ UNCHANGED <<power, rules, clocks, load, ready, pc, then, answer, store, up, quiet, wakeAge,
                 dropped>>

\* The proxy dies.  Queues and uncommitted writes are gone; a command on its
\* way to the BMC may still be executed.
Crash ==
  /\ up /\ "crash" \in Faults
  /\ up' = FALSE
  /\ \/ UNCHANGED <<machine, claim>>
     \/ (\E t \in Tasks : pc[t] \in OnCalls) /\ BmcOn
     \/ (\E t \in Tasks : pc[t] = "offCall") /\ BmcOff
  /\ pc' = [t \in Tasks |-> "idle"] /\ then' = [t \in Tasks |-> "idle"]
  /\ answer' = [t \in Readers |-> "unknown"] /\ writes' = <<>>
  /\ queued' = FALSE /\ running' = FALSE /\ ready' = FALSE
  /\ UNCHANGED <<power, rules, clocks, row, quiet, wakeAge, dropped>>

\* restore from the reconciled row: unowned if the store cannot be read.
Restore ==
  \/ owned' = row.owned /\ override' = row.override /\ dropped' = FALSE
  \/ /\ "storeDrop" \in Faults
     /\ owned' = FALSE /\ override' = "default" /\ dropped' = TRUE

\* sync_state after the first readiness probe: a ready service implies that
\* the box is on, whatever the BMC says.
SyncState ==
  /\ ready' \in {FALSE, box = "on"}
  /\ powerState' \in (IF ready' THEN {"on"} ELSE BmcAnswers)
  /\ transient' = "none"

\* RelayApp.startup, up to the start of the loops.
Restart ==
  /\ ~up
  /\ up' = TRUE
  /\ Restore /\ SyncState
  /\ cron' = "unset" /\ deferred' = FALSE
  /\ idleAge' = 0 /\ attemptAge' \in {0, Cooldown + 1} /\ passAge' = Period /\ lag' = 0
  /\ wakeAge' = Cooldown + 1
  /\ UNCHANGED <<machine, load, pc, then, answer, store, claim, quiet>>

\* Request p is on its way in.
InAdmission(p) == {pc[p], then[p]} \cap (Entering \cup {"queueing"}) # {}

Older(age, max) == IF age >= max THEN max ELSE age + 1

\* One second passes.  A sleeping engine wakes on time; a pass lasts at most
\* MaxPass, an admission MaxLag.
Second ==
  /\ up => passAge < (IF pc["engine"] = "idle" THEN Period ELSE MaxPass)
  /\ passAge' = IF up THEN passAge + 1 ELSE passAge
  /\ IF \E p \in Callers : InAdmission(p) THEN lag < MaxLag /\ lag' = lag + 1 ELSE lag' = 0
  /\ idleAge' = Older(idleAge, IdleTimeout + 1)
  /\ attemptAge' = Older(attemptAge, Cooldown + 1)
  /\ quiet' = IF HasActivity THEN 0 ELSE Older(quiet, IdleTimeout + 1)
  /\ wakeAge' = Older(wakeAge, Cooldown + 1)
  /\ UNCHANGED <<machine, power, rules, load, ready, pc, then, answer, store, up, claim, dropped>>

-----------------------------------------------------------------------------
Engine == EngineStart \/ SchedResume \/ SchedDone \/ IdleResume \/ IdleDone

Request(p) == RoutedTraffic(p) \/ Enqueue(p) \/ Hold(p) \/ Forward(p) \/ Refuse(p)

PowerDone(t) ==
  PowerOnAccepted(t) \/ PowerOnFailed(t) \/ PowerOffAccepted(t) \/ PowerOffFailed(t)

Next ==
  \/ WriteDone
  \/ \E t \in Readers : BmcReads(t)
  \/ SyncTick
  \/ \E t \in Callers \cup {"manager"} : ServiceReady(t) \/ Wake(t)
  \/ ServiceDown \/ WorkStarts \/ WorkEnds
  \/ \E p \in Callers : Request(p)
  \/ \E p \in Callers, a \in ManualPower : MonitorPower(p, a)
  \/ \E p \in Callers, v \in Toggles : SetOverride(p, v)
  \/ \E t \in Tasks : PowerDone(t)
  \/ Engine
  \/ CronFire \/ Stopped \/ Operator \/ Crash \/ Restart \/ Second

Spec == Init /\ [][Next]_vars

\* What each coroutine does next, wherever its pc is.
SyncTask    == BmcReads("sync") \/ SyncTick
EngineTask  == BmcReads("engine") \/ Engine \/ PowerDone("engine")
ManagerTask == Wake("manager") \/ PowerDone("manager")
CallerTask(p) ==
  /\ InAdmission(p) \/ "held" \in {pc[p], then[p]}
  /\ (Enqueue(p) \/ Hold(p) \/ Forward(p) \/ Wake(p) \/ PowerDone(p))

\* Time passes, the loops of the proxy never end and asyncio runs whatever is
\* runnable; the store answers; a request in admission is taken in, a held
\* one goes on trying.  The BMC is not down for ever: a command it is given
\* again and again is accepted in the end.
Fairness ==
  /\ SF_vars(Second) /\ WF_vars(WriteDone)
  /\ WF_vars(SyncTask) /\ WF_vars(EngineTask) /\ WF_vars(ManagerTask)
  /\ \A p \in Callers : WF_vars(CallerTask(p))
  /\ SF_vars(\E t \in Tasks : PowerOnAccepted(t))
  /\ SF_vars(\E t \in Tasks : PowerOffAccepted(t))

FairSpec == Spec /\ Fairness

-----------------------------------------------------------------------------
(* Properties *)

Fields == [owned : BOOLEAN, override : Overrides]

\* The type of the state: in particular every age stays within its bound,
\* and only one thing at a time is awaited by a task.
ServerTypeOK ==
  /\ box \in {"on", "off"} /\ stopping \in BOOLEAN
  /\ powerState \in Powers /\ transient \in {"none", "on", "off"}
  /\ owned \in BOOLEAN /\ override \in Overrides
  /\ idleAge \in 0..(IdleTimeout + 1) /\ attemptAge \in 0..(Cooldown + 1)
  /\ passAge \in 0..(Period + MaxPass) /\ lag \in 0..MaxLag
  /\ cron \in {"unset", "quiet", "due"} /\ deferred \in BOOLEAN
  /\ queued \in BOOLEAN /\ running \in BOOLEAN /\ ready \in BOOLEAN
  /\ DOMAIN pc = Tasks /\ DOMAIN then = Tasks /\ answer \in [Readers -> Powers]
  /\ row \in Fields
  /\ \A i \in 1..Len(writes) : pc[writes[i].by] = "saving"
  /\ up \in BOOLEAN /\ claim \in BOOLEAN /\ dropped \in BOOLEAN
  /\ quiet \in 0..(IdleTimeout + 1) /\ wakeAge \in 0..(Cooldown + 1)

\* The row of the store, once the writes now queued for the lock are through.
Pending(f)  == {i \in 1..Len(writes) : f \in DOMAIN writes[i].fields}
Settled(f)  == IF Pending(f) = {} THEN row[f]
               ELSE writes[CHOOSE i \in Pending(f) : \A j \in Pending(f) : j <= i].fields[f]

\* Memory first, mirror second (D33): however the power actions, adoptions
\* and toggles of several coroutines interleave, the store ends up with the
\* ownership and the switch that memory has, so that a restart restores them.
MirrorExact ==
  up /\ ~dropped => Settled("owned") = owned /\ Settled("override") = override

\* P2: two power-ons issued for waiting requests are more than the cooldown
\* apart, whoever issues them and however slow the BMC is.
CooldownDedupe ==
  [][\A t \in Tasks : pc[t] # "wakeCall" /\ pc'[t] = "wakeCall" => wakeAge > Cooldown]_vars

\* The engine begins an idle-off.
IdleDecision == then["engine"] # "idleRead" /\ then'["engine"] = "idleRead"

\* How far the sampled idle clock may lag behind the work it samples: a
\* sampling period (or a longer pass of the schedule), the time the pass that
\* last set the clock took, and the time an admission takes.
Slack == (IF MaxPass > Period THEN MaxPass ELSE Period) + MaxPass + MaxLag

\* The idle rule never sets out to power off a server that worked recently:
\* the clock it reads is refreshed when a request is routed and then by
\* sampling, so it may lag the end of the last queued request, by Slack and no
\* more.  (A request held by an unqueued endpoint is not sampled at all.)
IdleOffEarned ==
  [][IdleDecision => quiet > IdleTimeout - Slack]_vars

\* A scheduled off that came while the server worked is deferred to its next
\* idle moment, and no longer: it is issued, or given up, by the pass that
\* first finds the server idle.  It never stays pending to strike at some
\* later time, in another use of the server.
DeferralEnds == up /\ deferred => quiet <= Period + MaxPass + MaxLag

\* A server the proxy owns, with auto-off on, does not stay up idle for ever.
IdleReclaimed ==
  ~<>[](up /\ owned /\ Enabled /\ box = "on" /\ quiet > IdleTimeout)

\* P1: a request does not wait for ever on a machine that is off: in a queue,
\* by itself or behind spots that are still held, or held for readiness, where
\* nothing counts it.  If the machine is shut down under it, it is woken again.
WakeHappens ==
  ~<>[](/\ up /\ ~ready /\ box = "off"
        /\ queued \/ \E p \in Callers : pc[p] = "held")

\* The engine issues a power-off.
EngineOff == pc["engine"] # "offCall" /\ pc'["engine"] = "offCall"

\* D12: the engine powers off only a server that is owned at that moment.  The
\* schedule path asks for ownership before its await only; the one way to
\* lose it there is a power-off from the monitor, and then the machine has
\* been told to stop already.
OffOnlyOwned == [][EngineOff => owned \/ stopping \/ box = "off"]_vars

\* "P9: never take the server down while it has work" (servers.py), "never
\* shut down while any queue has activity" (D14).
OffOnlyWhileIdle == [][EngineOff => ~HasActivity]_vars

\* "A server turned on manually and never used through the proxy is never
\* shut down" (P5), "the proxy never powers off a server it did not bring
\* up" (D12).
ManualOnUntouched == [][EngineOff => claim]_vars

=============================================================================
