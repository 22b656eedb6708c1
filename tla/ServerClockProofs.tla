------------------------- MODULE ServerClockProofs -------------------------
(***************************************************************************)
(* Proofs about the shutdown engine of ServerRuntime: what its clocks say  *)
(* of the work that was there, for any timeout, period and length of a     *)
(* pass or an admission.                                                   *)
(***************************************************************************)
EXTENDS ServerRuntimeProofs

USE DEF load

\* Where the engine is: asleep, in the schedule's part of a pass or in the
\* idle rule's.
EngineAt(places, read, done) ==
  \/ pc["engine"] \in places /\ then["engine"] = "idle"
  \/ pc["engine"] = "reading" /\ then["engine"] = read
  \/ pc["engine"] \in {"offCall", "saving"} /\ then["engine"] = done

Asleep    == pc["engine"] = "idle" /\ then["engine"] = "idle"
SchedPass == EngineAt({"schedRead", "schedDone"}, "schedRead", "schedDone")
IdlePass  == EngineAt({"idleRead", "idleDone"}, "idleRead", "idleDone")

Admitting == \E p \in Callers : InAdmission(p)

Passes ==
  /\ Asleep \/ SchedPass \/ IdlePass
  /\ up => passAge <= (IF Asleep THEN Period ELSE MaxPass)
  /\ ~up => Asleep /\ ~HasActivity /\ ~Admitting

\* quiet runs from the last routed request on, at most through its admission.
QuietSince == (Admitting => quiet <= lag) /\ (HasActivity => quiet <= MaxLag)

\* A deferral is younger than the pass that made it, plus the pass that ends it.
DeferredSince ==
  up /\ deferred => \/ Asleep /\ quiet <= MaxLag + passAge
                    \/ SchedPass /\ quiet <= MaxLag + Period + passAge

\* How old the idle clock can be while there is work, or work on its way: it
\* was set by the request, or by a look at the work since.
ClockSince ==
  /\ up /\ IdleTimeout >= Slack =>
       /\ Admitting => idleAge <= lag + MaxPass
       /\ HasActivity => idleAge <= MaxLag + MaxPass + passAge
       /\ IdlePass /\ (Admitting \/ HasActivity) => idleAge <= passAge
  /\ idleAge <= quiet + Slack

ClockInv == Passes /\ QuietSince /\ DeferredSince /\ ClockSince

-----------------------------------------------------------------------------
(* What a step does to the engine, the clocks and the work *)

\* The engine stays asleep, or in the part of the pass it is in.
SameStage == (Asleep' <=> Asleep) /\ (SchedPass' <=> SchedPass) /\ (IdlePass' <=> IdlePass)

\* A step of somebody else, or one inside a pass: no clock is touched, and
\* work comes from an admission only.
Aside ==
  /\ SameStage
  /\ UNCHANGED <<idleAge, passAge, lag, quiet, deferred, up>>
  /\ Admitting' => Admitting
  /\ HasActivity' => HasActivity \/ Admitting

\* Another task than the engine, and no request on its way in, moves.
LEMMA OtherTask ==
  ASSUME Control, NEW t \in Tasks, NEW where \in Places, NEW next \in Thens, Await(t, where, next), t # "engine"
  PROVE  /\ SameStage
         /\ (t \in Callers => {where, next} \cap (Entering \cup {"queueing"}) = {} \/ InAdmission(t))
              => (Admitting' => Admitting)
  <1>1. /\ pc'["engine"] = pc["engine"] /\ then'["engine"] = then["engine"]
        /\ \A s \in Tasks \ {t} : pc'[s] = pc[s] /\ then'[s] = then[s]
        /\ pc'[t] = where /\ then'[t] = next
    BY DEF Await, Control, Tasks, Readers
  <1>2. SameStage
    BY <1>1 DEF SameStage, Asleep, SchedPass, IdlePass, EngineAt
  <1>3. ASSUME t \in Callers => {where, next} \cap (Entering \cup {"queueing"}) = {} \/ InAdmission(t),
               NEW p \in Callers, InAdmission(p)'
        PROVE  Admitting
    <2>1. p \in Tasks
      BY DEF Tasks
    <2>2. CASE p = t
      BY <1>1, <1>3, <2>2 DEF InAdmission, Admitting
    <2>3. CASE p # t
      BY <1>1, <1>3, <2>1, <2>3 DEF InAdmission, Admitting
    <2>4. QED BY <2>2, <2>3
  <1>4. QED BY <1>2, <1>3 DEF Admitting

\* The engine moves: no admission is concerned.
LEMMA EngineMoves ==
  ASSUME Control, NEW where \in Places, NEW next \in Thens, Await("engine", where, next)
  PROVE  /\ pc'["engine"] = where /\ then'["engine"] = next
         /\ Admitting' <=> Admitting
  <1>1. /\ \A p \in Callers : p \in Tasks \ {"engine"}
        /\ "engine" \in Tasks
    BY ServerSettings DEF Tasks, Readers
  <1>2. /\ pc'["engine"] = where /\ then'["engine"] = next
        /\ \A p \in Callers : pc'[p] = pc[p] /\ then'[p] = then[p]
    BY <1>1 DEF Await, Control
  <1>3. QED BY <1>2 DEF Admitting, InAdmission

\* The steps in which the engine looks at the work or ends a pass, and those
\* that set a clock; every other step is Aside.
Ticks ==
  \/ EngineStart \/ SchedDone \/ IdleDone
  \/ SchedResume /\ answer["engine"] # "on"
  \/ IdleResume /\ ~(answer["engine"] = "on" /\ owned)
  \/ Crash \/ Restart \/ Second
  \/ \E p \in Callers : RoutedTraffic(p)

LEMMA AsideSteps ==
  ASSUME ServerInv, Passes, "unqueued" \notin Routing, [Next]_vars, ~Ticks
  PROVE  Aside
  <1> USE DEF Places, Thens, Calls
  <1>0. /\ Control /\ {"sync", "engine", "manager"} \subseteq Tasks /\ Callers \subseteq Tasks
        /\ Readers = {"sync", "engine"}
        /\ \A p \in Callers : p \notin {"sync", "engine", "manager"}
        /\ \A t \in Tasks : pc[t] \in Places /\ then[t] \in Thens /\ then[t] \in Places
    BY ServerSettings DEF ServerInv, Control, Tasks, Readers
  <1>1. ASSUME UNCHANGED <<pc, then>> PROVE SameStage /\ (Admitting' => Admitting)
    BY <1>1 DEF SameStage, Asleep, SchedPass, IdlePass, EngineAt, Admitting, InAdmission
  \* Calls that return, of any task: it goes on where it was to go on.
  <1>2. ASSUME NEW t \in Tasks, NEW where \in Places, NEW next \in Thens, Await(t, where, next),
               <<where, next>> = <<then[t], "idle">> \/ <<where, next>> = <<"saving", then[t]>>,
               t = "engine" => \/ pc[t] \in {"reading", "saving"} /\ where = then[t]
                               \/ pc[t] = "offCall" /\ where = "saving"
        PROVE  SameStage /\ (Admitting' => Admitting)
    <2>1. CASE t = "engine"
      <3>1. pc'["engine"] = where /\ then'["engine"] = next /\ (Admitting' <=> Admitting)
        BY <1>0, <1>2, <2>1, EngineMoves
      <3>2. SameStage
        BY <1>2, <2>1, <3>1 DEF SameStage, Passes, Asleep, SchedPass, IdlePass, EngineAt
      <3>3. QED BY <3>1, <3>2
    <2>2. CASE t # "engine"
      <3>1. t \in Callers => {where, next} \cap (Entering \cup {"queueing"}) = {} \/ InAdmission(t)
        BY <1>2 DEF Entering, InAdmission
      <3>2. QED BY <1>0, <1>2, <2>2, <3>1, OtherTask
    <2>3. QED BY <2>1, <2>2
  <1>3. CASE WriteDone
    <2>1. PICK t : t = Head(writes).by /\ Return(t)
      BY <1>3 DEF WriteDone
    <2>2. t \in Tasks /\ pc[t] = "saving"
      <3>1. 1 \in 1..Len(writes) /\ t = writes[1].by
        BY <1>3, <2>1, EmptySeq DEF WriteDone, ServerInv, Queued
      <3>2. QED BY <3>1, InQueue DEF ServerInv
    <2>3. SameStage /\ (Admitting' => Admitting)
      BY <1>0, <1>2, <2>1, <2>2 DEF Return, Goto
    <2>4. QED BY <1>3, <2>3 DEF WriteDone, Aside, clocks, rules, HasActivity
  <1>4. ASSUME NEW t \in Readers, BmcReads(t) PROVE Aside
    <2>1. CASE t = "sync"
      <3>1. Await("sync", "read", "idle")
        BY <1>4, <2>1 DEF BmcReads, Goto
      <3>2. SameStage /\ (Admitting' => Admitting)
        BY <1>0, <3>1, OtherTask
      <3>3. QED BY <1>4, <3>2 DEF BmcReads, Aside, clocks, rules, history, HasActivity
    <2>2. CASE t = "engine"
      <3>1. Await("engine", then["engine"], "idle") /\ pc["engine"] = "reading"
        BY <1>4, <2>2 DEF BmcReads, Goto
      <3>2. SameStage /\ (Admitting' => Admitting)
        BY <1>0, <1>2, <3>1
      <3>3. QED BY <1>4, <3>2 DEF BmcReads, Aside, clocks, rules, history, HasActivity
    <2>3. QED BY <1>0, <2>1, <2>2
  <1>5. CASE SyncTick
    <2>1. \E where \in {"idle", "saving"} : Await("sync", where, "idle")
      BY <1>5 DEF SyncTick, Goto, Save
    <2>2. SameStage /\ (Admitting' => Admitting)
      BY <1>0, <2>1, OtherTask
    <2>3. QED BY <1>5, <2>2 DEF SyncTick, Aside, clocks, rules, history, HasActivity
  <1>6. ASSUME NEW t \in Callers \cup {"manager"}, ServiceReady(t) PROVE Aside
    <2>1. \E where \in {"idle", "probed", "saving"}, next \in {"idle", "probed"} : Await(t, where, next)
      BY <1>6 DEF ServiceReady, Goto, Save
    <2>2. t \in Callers => InAdmission(t)
      BY <1>0, <1>6 DEF ServiceReady, InAdmission, Entering
    <2>3. SameStage /\ (Admitting' => Admitting)
      BY <1>0, <2>1, <2>2, OtherTask
    <2>4. QED BY <1>6, <2>3 DEF ServiceReady, Aside, clocks, rules, history, HasActivity
  <1>7. ASSUME NEW t \in Callers \cup {"manager"}, Wake(t) PROVE Aside
    <2>1. PICK next \in {"idle", "queueing", "held"} : Waker(t, next) /\ Await(t, "wakeCall", next)
      BY <1>7 DEF Wake
    <2>2. {"wakeCall", next} \cap (Entering \cup {"queueing"}) = {} \/ InAdmission(t)
      BY <2>1 DEF Waker, Entering, InAdmission
    <2>3. SameStage /\ (Admitting' => Admitting)
      BY <1>0, <2>1, <2>2, OtherTask
    <2>4. QED BY <1>7, <2>3 DEF Wake, Aside, rules, HasActivity
  <1>8. CASE ServiceDown \/ CronFire \/ Stopped \/ Operator
    BY <1>1, <1>8 DEF ServiceDown, CronFire, Stopped, Operator, Aside, clocks, rules, history, HasActivity
  <1>9. CASE WorkStarts \/ WorkEnds
    BY <1>1, <1>9 DEF Load!Start, Load!End, WorkStarts, WorkEnds, Aside, clocks, rules, history, HasActivity
  <1>10. ASSUME NEW p \in Callers, Enqueue(p) PROVE Aside
    <2>1. InAdmission(p) /\ Await(p, "idle", "idle")
      BY <1>10 DEF Enqueue, Goto, Entering, InAdmission
    <2>2. SameStage /\ (Admitting' => Admitting) /\ Admitting
      BY <1>0, <2>1, OtherTask DEF Admitting
    <2>3. QED BY <1>10, <2>2 DEF Enqueue, Aside, clocks, rules, history
  <1>11. ASSUME NEW p \in Callers, Hold(p) \/ Forward(p) \/ Refuse(p) PROVE Aside
    <2>1. Await(p, "idle", "idle") /\ UNCHANGED load
      BY <1>11 DEF Hold, Forward, Refuse, Goto
    <2>2. SameStage /\ (Admitting' => Admitting)
      BY <1>0, <2>1, OtherTask DEF Entering
    <2>3. QED BY <1>11, <2>1, <2>2 DEF Hold, Forward, Refuse, Aside, clocks, rules, history, HasActivity
  <1>12. ASSUME NEW p \in Callers, NEW a, MonitorPower(p, a) \/ SetOverride(p, a) PROVE Aside
    <2>1. \E where \in {"onCall", "offCall", "saving"} : Await(p, where, "idle")
      BY <1>12 DEF MonitorPower, SetOverride, Goto, Save
    <2>2. SameStage /\ (Admitting' => Admitting)
      BY <1>0, <2>1, OtherTask DEF Entering
    <2>3. QED BY <1>12, <2>2 DEF MonitorPower, SetOverride, Aside, clocks, rules, history, HasActivity
  <1>13. ASSUME NEW t \in Tasks, PowerDone(t) PROVE Aside
    <2>1. Await(t, "saving", then[t]) /\ pc[t] \in {"onCall", "wakeCall", "offCall"}
      BY <1>13 DEF PowerDone, PowerOnAccepted, PowerOnFailed, PowerOffAccepted, PowerOffFailed, Save, OnCalls
    <2>2. t = "engine" => pc[t] = "offCall"
      BY <2>1 DEF Passes, Asleep, SchedPass, IdlePass, EngineAt
    <2>3. SameStage /\ (Admitting' => Admitting)
      BY <1>0, <1>2, <2>1, <2>2
    <2>4. QED BY <1>13, <2>3 DEF PowerDone, PowerOnAccepted, PowerOnFailed, PowerOffAccepted, PowerOffFailed,
                                Aside, clocks, rules, history, HasActivity
  <1>14. CASE Engine
    <2>1. CASE SchedResume /\ answer["engine"] = "on"
      <3>1. Await("engine", "offCall", "schedDone") /\ pc["engine"] = "schedRead"
        BY <2>1 DEF SchedResume, IssueOff
      <3>2. pc'["engine"] = "offCall" /\ then'["engine"] = "schedDone" /\ (Admitting' => Admitting)
        BY <1>0, <3>1, EngineMoves
      <3>3. SameStage
        BY <3>1, <3>2 DEF SameStage, Passes, Asleep, SchedPass, IdlePass, EngineAt
      <3>4. QED BY <2>1, <3>2, <3>3 DEF SchedResume, Aside, history, HasActivity
    <2>2. CASE IdleResume /\ answer["engine"] = "on" /\ owned
      <3>1. Await("engine", "offCall", "idleDone") /\ pc["engine"] = "idleRead"
        BY <2>2 DEF IdleResume, IssueOff
      <3>2. pc'["engine"] = "offCall" /\ then'["engine"] = "idleDone" /\ (Admitting' => Admitting)
        BY <1>0, <3>1, EngineMoves
      <3>3. SameStage
        BY <3>1, <3>2 DEF SameStage, Passes, Asleep, SchedPass, IdlePass, EngineAt
      <3>4. QED BY <2>2, <3>2, <3>3 DEF IdleResume, Aside, rules, history, HasActivity
    <2>3. QED BY <1>14, <2>1, <2>2 DEF Engine, Ticks
  <1>15. CASE UNCHANGED vars
    BY <1>1, <1>15 DEF vars, Aside, clocks, rules, history, HasActivity
  <1>16. QED
    BY <1>3, <1>4, <1>5, <1>6, <1>7, <1>8, <1>9, <1>10, <1>11, <1>12, <1>13, <1>14, <1>15
    DEF Next, Request, Ticks

-----------------------------------------------------------------------------
(* The clocks *)

\* The engine is in one place only.
LEMMA OneStage == ~(Asleep /\ SchedPass) /\ ~(Asleep /\ IdlePass) /\ ~(SchedPass /\ IdlePass)
  BY DEF Asleep, SchedPass, IdlePass, EngineAt

\* The numbers the clocks are compared with.
LEMMA ClockNumbers ==
  ASSUME Ages
  PROVE  /\ idleAge \in Nat /\ passAge \in Nat /\ lag \in Nat /\ quiet \in Nat
         /\ lag <= MaxLag /\ idleAge <= IdleTimeout + 1 /\ quiet <= IdleTimeout + 1
         /\ IdleTimeout \in Nat /\ Period \in Nat /\ MaxPass \in Nat /\ MaxLag \in Nat /\ Slack \in Nat
         /\ Slack >= Period + MaxPass + MaxLag /\ Slack >= MaxPass + MaxPass + MaxLag
  BY ServerTimes DEF Ages, Slack

LEMMA ClockAside ==
  ASSUME ServerInv, ClockInv, Aside
  PROVE  ClockInv'
  <1>1. Ages
    BY DEF ServerInv
  <1>2. Passes'
    BY DEF ClockInv, Passes, Aside, SameStage, HasActivity
  <1>3. QuietSince'
    BY <1>1, ClockNumbers DEF ClockInv, QuietSince, Aside
  <1>4. DeferredSince'
    BY DEF ClockInv, DeferredSince, Aside, SameStage
  <1>5. ClockSince'
    BY <1>1, ClockNumbers DEF ClockInv, ClockSince, Aside, SameStage
  <1>6. QED BY <1>2, <1>3, <1>4, <1>5 DEF ClockInv

\* A request is routed: both clocks start again.
LEMMA ClockRouted ==
  ASSUME ServerInv, ClockInv, NEW p \in Callers, RoutedTraffic(p)
  PROVE  ClockInv'
  <1>1. Ages /\ Control /\ p \in Tasks /\ p # "engine"
    BY ServerSettings DEF ServerInv, Tasks
  <1>2. /\ idleAge' = 0 /\ quiet' = 0 /\ UNCHANGED <<passAge, lag, deferred, up, load>> /\ up
        /\ \E where \in {"admitting", "saving"}, next \in {"idle", "admitting"} : Await(p, where, next)
    BY DEF RoutedTraffic, Goto, Save
  <1>3. SameStage
    BY <1>1, <1>2, OtherTask DEF Places, Thens
  <1>4. Passes'
    BY <1>2, <1>3 DEF ClockInv, Passes, SameStage
  <1>5. QuietSince' /\ DeferredSince' /\ ClockSince'
    BY <1>1, <1>2, <1>3, ClockNumbers
    DEF ClockInv, QuietSince, DeferredSince, ClockSince, SameStage, HasActivity, Passes
  <1>6. QED BY <1>4, <1>5 DEF ClockInv

LEMMA ClockSecond ==
  ASSUME ServerInv, ClockInv, Second
  PROVE  ClockInv'
  <1>1. Ages /\ Ages'
    BY AgesNext DEF ServerInv, Next
  <1>2. /\ SameStage /\ (Admitting' <=> Admitting) /\ (HasActivity' <=> HasActivity)
        /\ UNCHANGED <<deferred, up, load>>
    BY DEF Second, rules, SameStage, Asleep, SchedPass, IdlePass, EngineAt, Admitting, InAdmission, HasActivity
  <1>3. /\ up => passAge < (IF Asleep THEN Period ELSE MaxPass) /\ passAge' = passAge + 1
        /\ Admitting => lag' = lag + 1
        /\ idleAge' <= idleAge + 1
        /\ HasActivity => quiet' = 0
        /\ ~HasActivity => quiet' = Older(quiet, IdleTimeout + 1)
    <2>1. pc["engine"] = "idle" <=> Asleep
      BY DEF ClockInv, Passes, Asleep, SchedPass, IdlePass, EngineAt
    <2>2. idleAge' <= idleAge + 1
      BY <1>1, ClockNumbers DEF Second, Older
    <2>3. QED BY <2>1, <2>2 DEF Second, Admitting
  <1>4. quiet' <= quiet + 1
    BY <1>1, <1>3, ClockNumbers DEF Older
  <1>5. Passes'
    BY <1>1, <1>2, <1>3, ClockNumbers DEF ClockInv, Passes, SameStage
  <1>6. QuietSince'
    BY <1>1, <1>2, <1>3, <1>4, ClockNumbers DEF ClockInv, QuietSince, Ages
  <1>7. DeferredSince'
    BY <1>1, <1>2, <1>3, <1>4, ClockNumbers DEF ClockInv, DeferredSince, SameStage, Ages
  <1>8. ClockSince'
    <2>1. ASSUME up, IdleTimeout >= Slack
          PROVE  /\ Admitting' => idleAge' <= lag' + MaxPass
                 /\ HasActivity' => idleAge' <= MaxLag + MaxPass + passAge'
                 /\ IdlePass' /\ (Admitting' \/ HasActivity') => idleAge' <= passAge'
      BY <1>1, <1>2, <1>3, <2>1, ClockNumbers DEF ClockInv, ClockSince, SameStage, Ages
    <2>2. idleAge' <= quiet' + Slack
      <3>1. CASE IdleTimeout < Slack
        BY <1>1, <3>1, ClockNumbers DEF Ages
      <3>2. CASE IdleTimeout >= Slack /\ HasActivity
        <4>1. up
          BY <3>2 DEF ClockInv, Passes, HasActivity
        <4>2. idleAge' <= MaxLag + MaxPass + passAge'
          BY <1>2, <2>1, <3>2, <4>1
        <4>3. passAge' <= (IF MaxPass > Period THEN MaxPass ELSE Period)
          BY <1>1, <1>3, <4>1, ClockNumbers
        <4>4. QED BY <1>1, <1>3, <3>2, <4>2, <4>3, ClockNumbers DEF Slack, Ages
      <3>3. CASE ~HasActivity
        BY <1>1, <1>3, <3>3, ClockNumbers DEF ClockInv, ClockSince, Older, Ages
      <3>4. QED BY <1>1, <3>1, <3>2, <3>3, ClockNumbers
    <2>3. QED BY <1>2, <2>1, <2>2 DEF ClockSince
  <1>9. QED BY <1>5, <1>6, <1>7, <1>8 DEF ClockInv

\* The idle rule looks at the work: the engine sleeps, or sets out to power off.
LEMMA ClockLooks ==
  ASSUME ServerInv, ClockInv, up, IdleOffTick, deferred' => HasActivity,
         UNCHANGED <<lag, quiet, up, load>>
  PROVE  ClockInv'
  <1>1. Ages /\ Control
    BY DEF ServerInv
  <1>2. passAge' = 0 /\ idleAge' = (IF HasActivity THEN 0 ELSE idleAge) /\ (HasActivity' <=> HasActivity)
    BY DEF IdleOffTick, HasActivity
  <1>3. CASE IdleTooLong
    <2>1. pc'["engine"] = "reading" /\ then'["engine"] = "idleRead" /\ (Admitting' <=> Admitting)
      BY <1>1, <1>3, EngineMoves DEF IdleOffTick, Places, Thens, Calls
    <2>2. IdlePass' /\ ~Asleep' /\ ~SchedPass'
      BY <2>1 DEF Asleep, SchedPass, IdlePass, EngineAt
    <2>3. ~HasActivity /\ idleAge > IdleTimeout
      BY <1>3 DEF IdleTooLong
    <2>4. Passes' /\ QuietSince' /\ DeferredSince'
      BY <1>1, <1>2, <2>1, <2>2, <2>3, ClockNumbers DEF ClockInv, Passes, QuietSince, DeferredSince
    <2>5. IdleTimeout >= Slack => ~Admitting
      BY <1>1, <2>3, ClockNumbers DEF ClockInv, ClockSince
    <2>6. ClockSince'
      BY <1>2, <2>1, <2>3, <2>5 DEF ClockInv, ClockSince
    <2>7. QED BY <2>4, <2>6 DEF ClockInv
  <1>4. CASE ~IdleTooLong
    <2>1. pc'["engine"] = "idle" /\ then'["engine"] = "idle" /\ (Admitting' <=> Admitting)
      BY <1>1, <1>4, EngineMoves DEF IdleOffTick, Goto, Places, Thens, Calls
    <2>2. Asleep' /\ ~IdlePass'
      BY <2>1 DEF Asleep, IdlePass, EngineAt
    <2>3. Passes' /\ QuietSince'
      BY <1>1, <1>2, <2>1, <2>2, ClockNumbers DEF ClockInv, Passes, QuietSince
    <2>4. DeferredSince'
      BY <1>1, <1>2, <2>2, ClockNumbers DEF ClockInv, QuietSince, DeferredSince
    <2>5. ClockSince'
      BY <1>1, <1>2, <2>1, <2>2, ClockNumbers DEF ClockInv, ClockSince
    <2>6. QED BY <2>3, <2>4, <2>5 DEF ClockInv
  <1>5. QED BY <1>3, <1>4

\* A pass begins.
LEMMA ClockStart ==
  ASSUME ServerInv, ClockInv, EngineStart
  PROVE  ClockInv'
  <1>1. /\ Ages /\ Control /\ up /\ pc["engine"] = "idle" /\ passAge >= Period
        /\ UNCHANGED <<lag, quiet, up, load>>
    BY DEF ServerInv, EngineStart, history
  <1>2. CASE /\ Await("engine", "reading", "schedRead") /\ passAge' = 0 /\ ~HasActivity
             /\ UNCHANGED <<deferred, idleAge>>
    <2>1. pc'["engine"] = "reading" /\ then'["engine"] = "schedRead" /\ (Admitting' <=> Admitting)
      BY <1>1, <1>2, EngineMoves DEF Places, Thens, Calls
    <2>2. SchedPass' /\ ~Asleep' /\ ~IdlePass' /\ ~HasActivity'
      BY <1>1, <1>2, <2>1 DEF Asleep, SchedPass, IdlePass, EngineAt, HasActivity
    <2>3. Asleep /\ ~SchedPass /\ passAge <= Period
      BY <1>1 DEF ClockInv, Passes, Asleep, SchedPass, IdlePass, EngineAt
    <2>4. Passes' /\ QuietSince' /\ DeferredSince'
      BY <1>1, <1>2, <2>1, <2>2, <2>3, ClockNumbers DEF ClockInv, Passes, QuietSince, DeferredSince
    <2>5. ClockSince'
      BY <1>1, <1>2, <2>1, <2>2, ClockNumbers DEF ClockInv, ClockSince
    <2>6. QED BY <2>4, <2>5 DEF ClockInv
  <1>3. CASE deferred' = (HasActivity /\ OffTime) /\ IdleOffTick
    BY <1>1, <1>3, ClockLooks
  <1>4. QED BY <1>2, <1>3 DEF EngineStart

\* The idle rule's part of a pass is over, with or without a clock reset.
LEMMA ClockEnds ==
  ASSUME ServerInv, ClockInv, up, IdlePass, Goto("engine", "idle"), passAge' = 0,
         ClockReset \/ idleAge' = idleAge, UNCHANGED <<lag, quiet, up, load, deferred>>
  PROVE  ClockInv'
  <1>1. Ages /\ Control
    BY DEF ServerInv
  <1>2. pc'["engine"] = "idle" /\ then'["engine"] = "idle" /\ (Admitting' <=> Admitting)
    BY <1>1, EngineMoves DEF Goto, Places, Thens, Calls
  <1>3. Asleep' /\ ~IdlePass' /\ (HasActivity' <=> HasActivity) /\ ~Asleep /\ ~SchedPass
    BY <1>2, OneStage DEF Asleep, IdlePass, EngineAt, HasActivity
  <1>4. passAge <= MaxPass /\ ~deferred
    BY <1>3 DEF ClockInv, Passes, DeferredSince, ServerInv, Flags
  <1>5. idleAge' = idleAge \/ idleAge' <= MaxPass
    BY <1>1, <1>4, ClockNumbers DEF ClockReset
  <1>6. Passes' /\ QuietSince' /\ DeferredSince'
    BY <1>1, <1>2, <1>3, <1>4, ClockNumbers DEF ClockInv, Passes, QuietSince, DeferredSince
  <1>7. ClockSince'
    <2>1. idleAge' \in Nat
      BY <1>1, ClockNumbers DEF ClockReset
    <2>2. ASSUME IdleTimeout >= Slack, Admitting \/ HasActivity PROVE idleAge' <= MaxPass
      BY <1>1, <1>4, <1>5, <2>2, ClockNumbers DEF ClockInv, ClockSince
    <2>3. idleAge' <= quiet' + Slack
      BY <1>1, <1>5, <2>1, ClockNumbers DEF ClockInv, ClockSince
    <2>4. QED BY <1>1, <1>2, <1>3, <2>1, <2>2, <2>3, ClockNumbers DEF ClockSince
  <1>8. QED BY <1>6, <1>7 DEF ClockInv

LEMMA ClockCrash ==
  ASSUME ServerInv, ClockInv, Crash \/ Restart
  PROVE  ClockInv'
  <1>1. Ages /\ "engine" \in Tasks /\ Callers \subseteq Tasks
    BY DEF ServerInv, Tasks, Readers
  <1>2. CASE Crash
    <2>1. /\ pc' = [t \in Tasks |-> "idle"] /\ then' = [t \in Tasks |-> "idle"] /\ queued' = FALSE /\ running' = FALSE
          /\ up' = FALSE /\ UNCHANGED <<idleAge, quiet>>
      BY <1>2 DEF Crash, clocks
    <2>2. Asleep' /\ ~Admitting' /\ ~HasActivity'
      BY <1>1, <2>1 DEF Asleep, Admitting, InAdmission, HasActivity, Entering
    <2>3. Passes' /\ QuietSince' /\ DeferredSince'
      BY <2>1, <2>2 DEF Passes, QuietSince, DeferredSince
    <2>4. ClockSince'
      BY <2>1, <2>2 DEF ClockInv, ClockSince
    <2>5. QED BY <2>3, <2>4 DEF ClockInv
  <1>3. CASE Restart
    <2>1. /\ ~up /\ up' = TRUE /\ deferred' = FALSE /\ idleAge' = 0 /\ passAge' = Period
          /\ UNCHANGED <<load, pc, then, quiet>>
      BY <1>3 DEF Restart
    <2>2. /\ ~Admitting' /\ ~HasActivity' /\ (Asleep' <=> Asleep) /\ (SchedPass' <=> SchedPass)
          /\ (IdlePass' <=> IdlePass)
      BY <2>1 DEF ClockInv, Passes, Asleep, SchedPass, IdlePass, EngineAt, Admitting, InAdmission, HasActivity
    <2>3. Asleep
      BY <2>1 DEF ClockInv, Passes
    <2>4. Passes' /\ QuietSince' /\ DeferredSince'
      BY <1>1, <2>1, <2>2, <2>3, ClockNumbers DEF Passes, QuietSince, DeferredSince
    <2>5. ClockSince'
      BY <1>1, <2>1, <2>2, ClockNumbers DEF ClockSince
    <2>6. QED BY <2>4, <2>5 DEF ClockInv
  <1>4. QED BY <1>2, <1>3

LEMMA ClockInit == Init => ClockInv
  <1> SUFFICES ASSUME Init PROVE ClockInv
    OBVIOUS
  <1>1. ServerInv /\ Ages
    BY ServerInit DEF ServerInv
  <1>2. /\ idleAge = 0 /\ quiet = 0 /\ passAge = Period /\ deferred = FALSE /\ up = TRUE /\ queued = FALSE /\ running = FALSE
        /\ \A t \in Tasks : pc[t] = "idle" /\ then[t] = "idle"
    BY DEF Init
  <1>3. Asleep /\ ~Admitting /\ ~HasActivity
    BY <1>2 DEF Asleep, Admitting, InAdmission, Entering, HasActivity, Tasks, Readers
  <1>4. QED BY <1>1, <1>2, <1>3, ClockNumbers DEF ClockInv, Passes, QuietSince, DeferredSince, ClockSince

LEMMA ClockNext ==
  ASSUME "unqueued" \notin Routing, ServerInv, ClockInv, [Next]_vars
  PROVE  ClockInv'
  <1>1. CASE ~Ticks
    BY <1>1, AsideSteps, ClockAside DEF ClockInv
  <1>2. CASE SchedDone
    BY <1>2, ClockLooks DEF SchedDone, history
  <1>3. CASE SchedResume /\ answer["engine"] # "on"
    BY <1>3, ClockLooks DEF SchedResume, history
  <1>4. CASE IdleDone
    <2>1. IdlePass
      BY <1>4 DEF IdleDone, ClockInv, Passes, Asleep, SchedPass, IdlePass, EngineAt
    <2>2. QED BY <1>4, <2>1, ClockEnds DEF IdleDone, ClockReset, rules, history
  <1>5. CASE IdleResume /\ ~(answer["engine"] = "on" /\ owned)
    <2>1. IdlePass
      BY <1>5 DEF IdleResume, ClockInv, Passes, Asleep, SchedPass, IdlePass, EngineAt
    <2>2. QED BY <1>5, <2>1, ClockEnds DEF IdleResume, ClockReset, rules, history
  <1>6. QED
    BY <1>1, <1>2, <1>3, <1>4, <1>5, ClockStart, ClockSecond, ClockCrash, ClockRouted DEF Ticks

\* Only the engine itself decides where it goes on.
LEMMA EngineDecides ==
  ASSUME ServerInv, Next, then'["engine"] \notin {then["engine"], "idle"}
  PROVE  Engine
  <1> SUFFICES ASSUME ~Engine PROVE FALSE
    OBVIOUS
  <1>0. /\ Control /\ {"sync", "engine", "manager"} \subseteq Tasks /\ Callers \subseteq Tasks
        /\ Readers = {"sync", "engine"} /\ \A p \in Callers : p # "engine"
    BY ServerSettings DEF ServerInv, Tasks, Readers
  <1>1. ASSUME NEW t, NEW where, NEW next, Await(t, where, next),
               t # "engine" \/ next \in {then["engine"], "idle"}
        PROVE  FALSE
    BY <1>0, <1>1 DEF Await, Control
  <1>2. ASSUME NEW t, NEW next, Goto(t, next) PROVE FALSE
    BY <1>1, <1>2 DEF Goto
  <1>3. ASSUME NEW t, NEW u, NEW next, Save(t, u, next), t # "engine" \/ next = then["engine"] PROVE FALSE
    BY <1>1, <1>3 DEF Save
  <1>4. ~WriteDone
    BY <1>2 DEF WriteDone, Return
  <1>5. ~SyncTick /\ \A t : ~BmcReads(t)
    BY <1>2, <1>3 DEF SyncTick, BmcReads
  <1>6. ASSUME NEW t \in Callers \cup {"manager"}, ServiceReady(t) \/ Wake(t) PROVE FALSE
    BY <1>0, <1>1, <1>2, <1>3, <1>6 DEF ServiceReady, Wake
  <1>7. ASSUME NEW p \in Callers, Request(p) PROVE FALSE
    BY <1>0, <1>2, <1>3, <1>7 DEF Request, RoutedTraffic, Enqueue, Hold, Forward, Refuse
  <1>8. ASSUME NEW p \in Callers, NEW a, MonitorPower(p, a) \/ SetOverride(p, a) PROVE FALSE
    BY <1>0, <1>2, <1>3, <1>8 DEF MonitorPower, SetOverride
  <1>9. ASSUME NEW t \in Tasks, PowerDone(t) PROVE FALSE
    BY <1>3, <1>9 DEF PowerDone, PowerOnAccepted, PowerOnFailed, PowerOffAccepted, PowerOffFailed
  <1>10. ~Crash
    BY <1>0 DEF Crash
  <1>11. then' # then
    OBVIOUS
  <1>12. QED
    BY <1>4, <1>5, <1>6, <1>7, <1>8, <1>9, <1>10, <1>11
    DEF Next, ServiceDown, WorkStarts, WorkEnds, CronFire, Stopped, Operator, Restart, Second

\* The inductive invariant of the engine's clocks, for a server whose
\* endpoints are queued: how old the last work can be against the idle clock
\* of servers.py, wherever a shutdown pass is.
THEOREM ClockInvariant == "unqueued" \notin Routing => (Spec => []ClockInv)
  <1> SUFFICES ASSUME "unqueued" \notin Routing PROVE Spec => []ClockInv
    OBVIOUS
  <1>1. ServerInv /\ ClockInv /\ [Next]_vars => ClockInv'
    BY ClockNext
  <1>2. QED BY <1>1, ClockInit, ServerInvariant, PTL DEF Spec

\* _schedule_off_tick defers an off while the server is active; the deferral
\* is over by the end of the pass that first finds it idle.
THEOREM DeferralAlwaysEnds == "unqueued" \notin Routing => (Spec => []DeferralEnds)
  <1> SUFFICES ASSUME "unqueued" \notin Routing PROVE Spec => []DeferralEnds
    OBVIOUS
  <1>1. ServerInv /\ ClockInv => DeferralEnds
    <2> SUFFICES ASSUME ServerInv, ClockInv, up, deferred
                 PROVE  quiet <= Period + MaxPass + MaxLag
      BY DEF DeferralEnds
    <2>1. Ages
      BY DEF ServerInv
    <2>2. CASE Asleep /\ quiet <= MaxLag + passAge
      BY <2>1, <2>2, ClockNumbers DEF ClockInv, Passes
    <2>3. CASE SchedPass /\ quiet <= MaxLag + Period + passAge
      BY <2>1, <2>3, ClockNumbers, OneStage DEF ClockInv, Passes
    <2>4. QED BY <2>2, <2>3 DEF ClockInv, DeferredSince
  <1>2. QED BY <1>1, ClockInvariant, ServerInvariant, PTL

\* _idle_off_tick never sets out to power off a server that worked less than
\* idle_timeout ago, but for the Slack of its sampled clock.
THEOREM IdleOffsAreEarned == "unqueued" \notin Routing => (Spec => IdleOffEarned)
  <1> SUFFICES ASSUME "unqueued" \notin Routing PROVE Spec => IdleOffEarned
    OBVIOUS
  <1>1. ServerInv /\ ClockInv /\ [Next]_vars => [IdleDecision => quiet > IdleTimeout - Slack]_vars
    <2> SUFFICES ASSUME ServerInv, ClockInv, Next, IdleDecision
                 PROVE  quiet > IdleTimeout - Slack
      OBVIOUS
    <2>1. Ages /\ Control
      BY DEF ServerInv
    <2>2. IdleOffTick => IdleTooLong
      <3> SUFFICES ASSUME IdleOffTick, ~IdleTooLong PROVE FALSE
        OBVIOUS
      <3>1. then'["engine"] = "idle"
        BY <2>1, EngineMoves DEF IdleOffTick, Goto, Places, Thens, Calls
      <3>2. QED BY <3>1 DEF IdleDecision
    <2>3. IdleTooLong => quiet > IdleTimeout - Slack
      BY <2>1, ClockNumbers DEF IdleTooLong, ClockInv, ClockSince
    <2>4. Engine
      BY EngineDecides DEF IdleDecision
    <2>5. ASSUME NEW where \in Places, NEW next \in {"idle", "schedRead", "schedDone", "idleDone"}
          PROVE  ~Await("engine", where, next)
      BY <2>1, EngineMoves DEF IdleDecision, Thens
    <2>6. ~IssueOff("schedDone") /\ ~IssueOff("idleDone") /\ ~Goto("engine", "idle")
          /\ ~Await("engine", "reading", "schedRead")
      BY <2>5 DEF IssueOff, Goto, Places, Thens, Calls
    <2>7. IdleOffTick
      BY <2>4, <2>6 DEF Engine, EngineStart, SchedResume, SchedDone, IdleResume, IdleDone
    <2>8. QED BY <2>2, <2>3, <2>7
  <1>2. QED BY <1>1, ClockInvariant, ServerInvariant, PTL DEF Spec, IdleOffEarned

-----------------------------------------------------------------------------
(* Ownership across the await of the schedule *)

\* The schedule rule has found the server owned and is reading the BMC, or has
\* just read it.
Reading == "schedRead" \in {pc["engine"], then["engine"]}

Told == owned \/ stopping \/ box = "off"

\* While it does, the server stays owned, or has been told to stop.
Asked == Reading => up /\ Told

\* The engine's pc, unless the step is its own or a crash.
LEMMA EngineElsewhere ==
  ASSUME ServerInv, [Next]_vars, ~Engine
  PROVE  \/ pc'["engine"] = pc["engine"] /\ then'["engine"] = then["engine"]
         \/ pc'["engine"] = then["engine"] /\ then'["engine"] = "idle"
         \/ pc'["engine"] = "saving" /\ then'["engine"] = then["engine"]
         \/ pc'["engine"] = "idle" /\ then'["engine"] = "idle"
  <1> SUFFICES ASSUME /\ ~(pc'["engine"] = pc["engine"] /\ then'["engine"] = then["engine"])
                      /\ ~(pc'["engine"] = then["engine"] /\ then'["engine"] = "idle")
                      /\ ~(pc'["engine"] = "saving" /\ then'["engine"] = then["engine"])
                      /\ ~(pc'["engine"] = "idle" /\ then'["engine"] = "idle")
               PROVE  FALSE
    OBVIOUS
  <1>0. /\ Control /\ "engine" \in Tasks /\ Readers = {"sync", "engine"}
        /\ \A p \in Callers : p # "engine"
    BY ServerSettings DEF ServerInv, Tasks, Readers
  <1>1. ASSUME NEW t, NEW where, NEW next, Await(t, where, next), t # "engine"
        PROVE  FALSE
    BY <1>0, <1>1 DEF Await, Control
  <1>2. ASSUME NEW where, NEW next, Await("engine", where, next),
               \/ <<where, next>> = <<then["engine"], "idle">>
               \/ <<where, next>> = <<"saving", then["engine"]>>
        PROVE  FALSE
    BY <1>0, <1>2 DEF Await, Control
  <1>3. ASSUME NEW t, NEW next, Goto(t, next), t # "engine" \/ next = then["engine"]
        PROVE  FALSE
    BY <1>1, <1>2, <1>3 DEF Goto
  <1>4. ASSUME NEW t, NEW u, NEW next, Save(t, u, next), t # "engine" \/ next = then["engine"]
        PROVE  FALSE
    BY <1>1, <1>2, <1>4 DEF Save
  <1>5. CASE WriteDone
    <2>1. PICK t : t = Head(writes).by /\ Goto(t, then[t])
      BY <1>5 DEF WriteDone, Return
    <2>2. QED BY <1>3, <2>1
  <1>6. CASE SyncTick \/ \E t \in Readers : BmcReads(t)
    BY <1>0, <1>3, <1>4, <1>6 DEF SyncTick, BmcReads
  <1>7. ASSUME NEW t \in Callers \cup {"manager"}, ServiceReady(t) \/ Wake(t) PROVE FALSE
    BY <1>0, <1>1, <1>3, <1>4, <1>7 DEF ServiceReady, Wake
  <1>8. ASSUME NEW p \in Callers, Request(p) PROVE FALSE
    BY <1>0, <1>3, <1>4, <1>8 DEF Request, RoutedTraffic, Enqueue, Hold, Forward, Refuse
  <1>9. ASSUME NEW p \in Callers, NEW a, MonitorPower(p, a) \/ SetOverride(p, a) PROVE FALSE
    BY <1>0, <1>3, <1>4, <1>9 DEF MonitorPower, SetOverride
  <1>10. ASSUME NEW t \in Tasks, PowerDone(t) PROVE FALSE
    BY <1>4, <1>10 DEF PowerDone, PowerOnAccepted, PowerOnFailed, PowerOffAccepted, PowerOffFailed
  <1>11. CASE Crash
    BY <1>0, <1>11 DEF Crash
  <1>12. CASE UNCHANGED <<pc, then>>
    BY <1>12
  <1>13. QED
    BY <1>5, <1>6, <1>7, <1>8, <1>9, <1>10, <1>11, <1>12
    DEF Next, vars, ServiceDown, WorkStarts, WorkEnds, CronFire, Stopped, Operator, Restart, Second

\* Ownership is given up only with a power-off that the machine obeys, and
\* only a power-on of the proxy, which takes it, starts the machine.
LEMMA ToldLasts ==
  ASSUME Flags, Faults \cap {"lostReply", "operatorOn"} = {}, [Next]_vars, ~Crash, ~Restart, Told
  PROVE  Told'
  <1>1. ASSUME NEW t \in Tasks, PowerDone(t) PROVE Told'
    BY <1>1 DEF PowerDone, PowerOnAccepted, PowerOnFailed, PowerOffAccepted, PowerOffFailed, BmcOff,
                Flags, Told, machine, rules
  <1>2. CASE Stopped \/ Operator
    BY <1>2 DEF Stopped, Operator, Told
  <1>3. CASE Engine
    BY <1>3 DEF Engine, EngineStart, SchedResume, SchedDone, IdleResume, IdleDone, Told, machine, rules
  <1>4. ASSUME NEW p \in Callers, Request(p) PROVE Told'
    BY <1>4 DEF Request, RoutedTraffic, Enqueue, Hold, Forward, Refuse, Told, machine, rules
  <1>5. ASSUME NEW p \in Callers, NEW a, MonitorPower(p, a) \/ SetOverride(p, a) PROVE Told'
    BY <1>5 DEF MonitorPower, SetOverride, Told, machine, rules
  <1>6. ASSUME NEW t, ServiceReady(t) \/ Wake(t) \/ BmcReads(t) PROVE Told'
    BY <1>6 DEF ServiceReady, Wake, BmcReads, Told, machine, rules
  <1>7. QED
    BY <1>1, <1>2, <1>3, <1>4, <1>5, <1>6
    DEF Next, WriteDone, SyncTick, ServiceDown, WorkStarts, WorkEnds, CronFire, Second, Told, vars,
        machine, rules

LEMMA AskedNext ==
  ASSUME ServerInv, Faults \cap {"lostReply", "operatorOn"} = {}, Asked, [Next]_vars
  PROVE  Asked'
  <1> SUFFICES ASSUME Reading' PROVE up' /\ Told'
    BY DEF Asked
  <1>0. Flags /\ Control /\ "engine" \in Tasks
    BY DEF ServerInv, Tasks, Readers
  <1>1. CASE EngineStart
    <2>1. IF OffTime /\ ~HasActivity /\ owned /\ Enabled
          THEN TRUE ELSE pc'["engine"] # "schedRead" /\ then'["engine"] # "schedRead"
      <3>1. ASSUME IdleOffTick PROVE pc'["engine"] # "schedRead" /\ then'["engine"] # "schedRead"
        BY <1>0, <3>1, EngineMoves DEF IdleOffTick, Goto, Places, Thens, Calls
      <3>2. QED BY <1>1, <3>1 DEF EngineStart
    <2>2. owned
      BY <2>1 DEF Reading
    <2>3. QED BY <1>1, <2>2 DEF EngineStart, Told
  <1>2. CASE SchedResume \/ SchedDone \/ IdleResume \/ IdleDone
    <2>1. \E where \in {"reading", "offCall", "idle"}, next \in {"idleRead", "idle", "schedDone", "idleDone"} :
             Await("engine", where, next)
      BY <1>2 DEF SchedResume, SchedDone, IdleResume, IdleDone, IssueOff, IdleOffTick, Goto
    <2>2. QED BY <1>0, <2>1, EngineMoves DEF Reading, Places, Thens, Calls
  <1>3. CASE ~Engine
    <2>1. ~Crash
      BY <1>0 DEF Crash, Reading
    <2>2. Reading
      BY <1>3, EngineElsewhere DEF Reading
    <2>3. ~Restart
      BY <2>2 DEF Asked, Restart
    <2>4. UNCHANGED up
      BY <2>1, <2>3 DEF Next, vars, WriteDone, BmcReads, SyncTick, ServiceReady, Wake, ServiceDown, WorkStarts,
         WorkEnds, Request, RoutedTraffic, Enqueue, Hold, Forward, Refuse, MonitorPower, SetOverride, PowerDone,
         PowerOnAccepted, PowerOnFailed, PowerOffAccepted, PowerOffFailed, Engine, EngineStart, SchedResume,
         SchedDone, IdleResume, IdleDone, CronFire, Stopped, Operator, Second
    <2>5. QED BY <1>0, <2>1, <2>2, <2>3, <2>4, ToldLasts DEF Asked
  <1>4. QED BY <1>1, <1>2, <1>3 DEF Engine

\* D12: _can_power_off asks for ownership before the BMC is read, and nobody
\* takes it away meanwhile without stopping the machine.  A lost answer to a
\* power-on, or somebody at the power button, would start it again unowned.
THEOREM OffsAreOwned ==
  Faults \cap {"lostReply", "operatorOn"} = {} => (Spec => OffOnlyOwned)
  <1> SUFFICES ASSUME Faults \cap {"lostReply", "operatorOn"} = {} PROVE Spec => OffOnlyOwned
    OBVIOUS
  <1>1. Init => Asked
    BY DEF Init, Asked, Reading, Tasks, Readers
  <1>2. ServerInv /\ Asked /\ [Next]_vars => Asked'
    BY AskedNext
  <1>3. ServerInv /\ Asked /\ [Next]_vars => [EngineOff => owned \/ stopping \/ box = "off"]_vars
    <2> SUFFICES ASSUME ServerInv, Asked, Next, EngineOff PROVE Told
      BY DEF Told
    <2>0. Control /\ "engine" \in Tasks
      BY DEF ServerInv, Tasks, Readers
    <2>1. CASE ~Engine
      <3>1. then["engine"] # "offCall"
        BY <2>0 DEF Control, Thens
      <3>2. QED BY <2>1, <3>1, EngineElsewhere DEF EngineOff
    <2>2. ASSUME NEW where \in {"idle", "reading"}, NEW next \in Thens, Await("engine", where, next)
          PROVE  FALSE
      BY <2>0, <2>2, EngineMoves DEF EngineOff, Places, Thens, Calls
    <2>3. CASE SchedResume
      BY <2>3 DEF SchedResume, Asked, Reading
    <2>4. CASE IdleResume
      BY <2>2, <2>4 DEF IdleResume, Goto, Thens, Told
    <2>5. CASE EngineStart \/ SchedDone \/ IdleDone
      BY <2>2, <2>5 DEF EngineStart, SchedDone, IdleDone, IdleOffTick, Goto, Thens
    <2>6. QED BY <2>1, <2>3, <2>4, <2>5 DEF Engine
  <1>4. QED BY <1>1, <1>2, <1>3, ServerInvariant, PTL DEF Spec, OffOnlyOwned

=============================================================================
