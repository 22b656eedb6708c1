------------------------ MODULE ServerRuntimeProofs ------------------------
(***************************************************************************)
(* Proofs about ServerRuntime, for any number of callers, every routing,   *)
(* any timeout, cooldown and period, every setting and every set of faults.*)
(***************************************************************************)
EXTENDS ServerRuntime, SequenceTheorems, TLAPS

USE DEF load

\* Where a task can go on after an await, and where it can be.
Thens  == {"idle", "admitting", "probed", "queueing", "held",
           "schedRead", "schedDone", "idleRead", "idleDone"}
Calls  == {"read", "reading", "onCall", "offCall", "wakeCall"}
Places == Thens \cup Calls \cup {"saving"}

\* What a call of set_server_runtime may change.
Updates == {NoFields} \cup [owned : BOOLEAN] \cup [override : Overrides] \cup Fields
Writes  == [by : Tasks, fields : Updates]

Flags ==
  /\ box \in {"on", "off"} /\ stopping \in BOOLEAN
  /\ powerState \in Powers /\ transient \in {"none", "on", "off"}
  /\ owned \in BOOLEAN /\ override \in Overrides
  /\ cron \in {"unset", "quiet", "due"} /\ deferred \in BOOLEAN
  /\ queued \in BOOLEAN /\ running \in BOOLEAN /\ ready \in BOOLEAN
  /\ answer \in [Readers -> Powers]
  /\ up \in BOOLEAN /\ claim \in BOOLEAN /\ dropped \in BOOLEAN

Ages ==
  /\ idleAge \in 0..(IdleTimeout + 1) /\ attemptAge \in 0..(Cooldown + 1)
  /\ passAge \in 0..(Period + MaxPass) /\ lag \in 0..MaxLag
  /\ quiet \in 0..(IdleTimeout + 1) /\ wakeAge \in 0..(Cooldown + 1)

Control == pc \in [Tasks -> Places] /\ then \in [Tasks -> Thens]

\* A task waits for the lock with one write at most, and does nothing else
\* meanwhile; a proxy that is down has no write under way.
Queued ==
  /\ writes \in Seq(Writes)
  /\ \A i \in 1..Len(writes) : pc[writes[i].by] = "saving"
  /\ \A i, j \in 1..Len(writes) : writes[i].by = writes[j].by => i = j
  /\ ~up => writes = <<>>

\* The last write queued for a field, or the row if there is none, has v.
Ends(f, v) ==
  \/ Pending(f) = {} /\ row[f] = v
  \/ \E i \in Pending(f) : (\A j \in Pending(f) : j <= i) /\ writes[i].fields[f] = v

Mirror ==
  /\ row \in Fields
  /\ up /\ ~dropped => Ends("owned", owned) /\ Ends("override", override)

\* A power-on for a request stamps the attempt: the stamp is never older.
Stamped == attemptAge <= wakeAge

ServerInv == Flags /\ Ages /\ Control /\ Queued /\ Mirror /\ Stamped

-----------------------------------------------------------------------------
(* Updates of the row *)

\* An update names some of the row's fields, with values of their types.
LEMMA UpdateFields ==
  ASSUME NEW u \in Updates
  PROVE  /\ DOMAIN u \subseteq {"owned", "override"}
         /\ "owned" \in DOMAIN u => u["owned"] \in BOOLEAN
         /\ "override" \in DOMAIN u => u["override"] \in Overrides
  <1>1. CASE u = NoFields
    BY <1>1 DEF NoFields
  <1>2. CASE u \in [owned : BOOLEAN]
    BY <1>2
  <1>3. CASE u \in [override : Overrides]
    BY <1>3
  <1>4. CASE u \in Fields
    BY <1>4 DEF Fields
  <1>5. QED BY <1>1, <1>2, <1>3, <1>4 DEF Updates

\* The updates of the power actions, the adoption and the toggle.
LEMMA TheUpdates ==
  /\ NoFields \in Updates /\ DOMAIN NoFields = {}
  /\ \A b \in BOOLEAN : LET u == [owned |-> b] IN
       u \in Updates /\ DOMAIN u = {"owned"} /\ u["owned"] = b
  /\ \A o \in Overrides : LET u == [override |-> o] IN
       u \in Updates /\ DOMAIN u = {"override"} /\ u["override"] = o
  /\ \A b \in BOOLEAN, o \in Overrides : LET u == [owned |-> b, override |-> o] IN
       u \in Updates /\ DOMAIN u = {"owned", "override"} /\ u["owned"] = b /\ u["override"] = o
  BY DEF Updates, Fields, NoFields

LEMMA Updated ==
  ASSUME NEW r \in Fields, NEW u \in Updates
  PROVE  [f \in DOMAIN r |-> IF f \in DOMAIN u THEN u[f] ELSE r[f]] \in Fields
  BY UpdateFields DEF Fields

-----------------------------------------------------------------------------
(* The queue of writes *)

LEMMA InQueue ==
  ASSUME Queued
  PROVE  \A i \in 1..Len(writes) : /\ writes[i].by \in Tasks /\ writes[i].fields \in Updates
                                   /\ pc[writes[i].by] = "saving"
  <1> TAKE i \in 1..Len(writes)
  <1>1. writes[i] \in Writes
    BY ElementOfSeq DEF Queued
  <1>2. QED BY <1>1 DEF Writes, Queued

\* A task that is not saving moves on: the queue is as it was.
LEMMA Moved ==
  ASSUME Control, Queued, NEW t \in Tasks, pc[t] # "saving",
         NEW where \in Places \ {"saving"}, NEW next \in Thens, Await(t, where, next),
         UNCHANGED <<writes, up>>
  PROVE  Control' /\ Queued'
  <1>1. /\ pc' \in [Tasks -> Places] /\ then' \in [Tasks -> Thens]
        /\ \A s \in Tasks \ {t} : pc'[s] = pc[s]
    BY DEF Await, Control
  <1>2. \A i \in 1..Len(writes) : writes[i].by \in Tasks \ {t}
    BY InQueue
  <1>3. QED BY <1>1, <1>2 DEF Queued, Control

\* A task that is not saving queues a write.
LEMMA SavedQueue ==
  ASSUME Control, Queued, up, NEW t \in Tasks, pc[t] # "saving", NEW u \in Updates, NEW next \in Thens,
         Save(t, u, next), UNCHANGED up
  PROVE  Control' /\ Queued'
  <1> DEFINE w == [by |-> t, fields |-> u]
  <1>1. w \in Writes /\ w.by = t /\ w.fields = u
    BY DEF Writes
  <1>2. /\ writes' \in Seq(Writes) /\ Len(writes') = Len(writes) + 1 /\ Len(writes) \in Nat
        /\ \A i \in 1..Len(writes) : writes'[i] = writes[i]
        /\ writes'[Len(writes) + 1] = w
    BY <1>1, AppendProperties, LenProperties DEF Queued, Save
  <1>3. /\ pc' \in [Tasks -> Places] /\ then' \in [Tasks -> Thens] /\ pc'[t] = "saving"
        /\ \A s \in Tasks \ {t} : pc'[s] = pc[s]
    BY DEF Save, Await, Control, Places
  <1>4. \A i \in 1..Len(writes) : writes[i].by \in Tasks \ {t}
    BY InQueue
  <1>5. \A i \in 1..Len(writes') : pc'[writes'[i].by] = "saving"
    <2>1. \A i \in 1..Len(writes) : pc'[writes'[i].by] = "saving"
      BY <1>2, <1>3, <1>4, InQueue
    <2>2. pc'[writes'[Len(writes) + 1].by] = "saving"
      BY <1>1, <1>2, <1>3
    <2>3. QED BY <1>2, <2>1, <2>2
  <1>6. \A i, j \in 1..Len(writes') : writes'[i].by = writes'[j].by => i = j
    BY <1>1, <1>2, <1>4 DEF Queued
  <1>7. QED BY <1>2, <1>3, <1>5, <1>6 DEF Queued, Control

\* A write that is queued decides the fields it names, and no other.
LEMMA SavedEnds ==
  ASSUME Queued, NEW t \in Tasks, NEW u \in Updates, NEW next, Save(t, u, next),
         NEW f, NEW v, Ends(f, v)
  PROVE  Ends(f, IF f \in DOMAIN u THEN u[f] ELSE v)'
  <1> DEFINE w == [by |-> t, fields |-> u]
  <1>1. w \in Writes /\ w.fields = u
    BY DEF Writes
  <1>2. /\ Len(writes') = Len(writes) + 1 /\ Len(writes) \in Nat /\ row' = row
        /\ \A i \in 1..Len(writes) : writes'[i] = writes[i]
        /\ writes'[Len(writes) + 1] = w
    BY <1>1, AppendProperties, LenProperties DEF Queued, Save
  <1>3. CASE f \in DOMAIN u
    <2>1. Len(writes') \in Pending(f)' /\ \A j \in Pending(f)' : j <= Len(writes')
      BY <1>1, <1>2, <1>3 DEF Pending
    <2>2. writes'[Len(writes')].fields[f] = u[f]
      BY <1>1, <1>2
    <2>3. QED BY <1>3, <2>1, <2>2 DEF Ends
  <1>4. CASE f \notin DOMAIN u
    <2>1. Pending(f)' = Pending(f) /\ \A i \in Pending(f) : writes'[i] = writes[i]
      BY <1>1, <1>2, <1>4 DEF Pending
    <2>2. QED BY <1>2, <1>4, <2>1 DEF Ends
  <1>5. QED BY <1>3, <1>4

\* The holder of the lock is through: the queue moves up.
LEMMA Dequeued ==
  ASSUME Control, Queued, up, writes # <<>>, writes' = Tail(writes), Return(writes[1].by), UNCHANGED up
  PROVE  Control' /\ Queued'
  <1>1. /\ writes' \in Seq(Writes) /\ Len(writes') = Len(writes) - 1 /\ Len(writes) \in Nat \ {0}
        /\ \A i \in 1..Len(writes') : writes'[i] = writes[i + 1]
    BY HeadTailProperties, EmptySeq DEF Queued
  <1>2. 1 \in 1..Len(writes) /\ \A i \in 1..Len(writes') : i + 1 \in 1..Len(writes) /\ i + 1 # 1
    BY <1>1
  <1>3. writes[1].by \in Tasks
    BY <1>2, InQueue
  <1>4. /\ pc' \in [Tasks -> Places] /\ then' \in [Tasks -> Thens]
        /\ \A s \in Tasks \ {writes[1].by} : pc'[s] = pc[s]
    BY <1>3 DEF Return, Goto, Await, Control, Places, Thens
  <1>5. \A i \in 1..Len(writes') : pc'[writes'[i].by] = "saving"
    <2> TAKE i \in 1..Len(writes')
    <2>1. writes[i + 1].by # writes[1].by
      BY <1>2 DEF Queued
    <2>2. QED BY <1>1, <1>2, <1>4, <2>1, InQueue
  <1>6. \A i, j \in 1..Len(writes') : writes'[i].by = writes'[j].by => i = j
    <2> SUFFICES ASSUME NEW i \in 1..Len(writes'), NEW j \in 1..Len(writes'),
                        writes'[i].by = writes'[j].by
                 PROVE  i = j
      OBVIOUS
    <2>1. i + 1 = j + 1
      BY <1>1, <1>2 DEF Queued
    <2>2. QED BY <1>1, <2>1
  <1>7. QED BY <1>1, <1>4, <1>5, <1>6 DEF Queued, Control

\* A commit turns what the first write says into what the row says.
LEMMA CommittedEnds ==
  ASSUME Queued, writes # <<>>, writes' = Tail(writes), NEW f \in DOMAIN row, NEW v, Ends(f, v),
         row' = [g \in DOMAIN row |->
                   IF g \in DOMAIN writes[1].fields THEN writes[1].fields[g] ELSE row[g]]
  PROVE  Ends(f, v)'
  <1>1. /\ Len(writes') = Len(writes) - 1 /\ Len(writes) \in Nat \ {0}
        /\ \A i \in 1..Len(writes') : writes'[i] = writes[i + 1]
    BY HeadTailProperties, EmptySeq DEF Queued
  <1>2. row'[f] = IF f \in DOMAIN writes[1].fields THEN writes[1].fields[f] ELSE row[f]
    OBVIOUS
  <1>3. /\ \A i \in Pending(f)' : i \in Nat /\ i + 1 \in Pending(f) /\ writes'[i] = writes[i + 1]
        /\ \A i \in Pending(f) : i \in Nat /\ (i # 1 => i - 1 \in Pending(f)')
        /\ 1 \in Pending(f) <=> f \in DOMAIN writes[1].fields
    <2>1. \A i \in 1..Len(writes') : i \in Nat /\ i + 1 \in 1..Len(writes)
      BY <1>1
    <2>2. \A i \in 1..Len(writes) : i \in Nat /\ (i # 1 => i - 1 \in 1..Len(writes') /\ writes'[i - 1] = writes[i])
      BY <1>1
    <2>3. 1 \in 1..Len(writes)
      BY <1>1
    <2>4. QED BY <1>1, <2>1, <2>2, <2>3 DEF Pending
  <1>4. CASE Pending(f) = {} /\ row[f] = v
    <2>1. Pending(f)' = {} /\ row'[f] = v
      BY <1>2, <1>3, <1>4
    <2>2. QED BY <2>1 DEF Ends
  <1>5. ASSUME NEW i \in Pending(f), \A j \in Pending(f) : j <= i, writes[i].fields[f] = v
        PROVE  Ends(f, v)'
    <2>1. CASE i = 1
      <3>1. Pending(f)' = {}
        <4> SUFFICES ASSUME NEW j \in Pending(f)' PROVE FALSE
          OBVIOUS
        <4>1. j + 1 <= 1 /\ j \in Nat
          BY <1>3, <1>5, <2>1
        <4>2. j \in 1..Len(writes')
          BY DEF Pending
        <4>3. QED BY <4>1, <4>2
      <3>2. row'[f] = v
        BY <1>2, <1>3, <1>5, <2>1
      <3>3. QED BY <3>1, <3>2 DEF Ends
    <2>2. CASE i # 1
      <3>1. i - 1 \in Pending(f)' /\ i \in Nat
        BY <1>3, <2>2
      <3>2. writes'[i - 1] = writes[i]
        <4>1. PICK k \in Pending(f)' : k = i - 1
          BY <3>1
        <4>2. writes'[k] = writes[k + 1]
          BY <1>3
        <4>3. k + 1 = i
          BY <3>1, <4>1
        <4>4. QED BY <4>1, <4>2, <4>3
      <3>3. \A j \in Pending(f)' : j <= i - 1
        BY <1>3, <1>5, <3>1
      <3>4. QED BY <1>5, <3>1, <3>2, <3>3 DEF Ends
    <2>3. QED BY <2>1, <2>2
  <1>6. QED BY <1>4, <1>5 DEF Ends

\* What the queue ends with is what Settled says.
LEMMA EndsSettled ==
  ASSUME NEW f, NEW v, Ends(f, v)
  PROVE  Settled(f) = v
  <1>1. CASE Pending(f) = {} /\ row[f] = v
    BY <1>1 DEF Settled
  <1>2. ASSUME NEW i \in Pending(f), \A j \in Pending(f) : j <= i, writes[i].fields[f] = v
        PROVE  Settled(f) = v
    <2> DEFINE last == CHOOSE k \in Pending(f) : \A j \in Pending(f) : j <= k
    <2>1. last \in Pending(f) /\ \A j \in Pending(f) : j <= last
      BY <1>2
    <2>2. i \in Int /\ last \in Int
      BY <2>1 DEF Pending
    <2>3. last <= i /\ i <= last
      BY <1>2, <2>1
    <2> HIDE DEF last
    <2>4. last = i
      BY <2>2, <2>3
    <2>5. Pending(f) # {}
      OBVIOUS
    <2>6. Settled(f) = writes[last].fields[f]
      BY <2>5 DEF Settled, last
    <2>7. QED BY <1>2, <2>4, <2>6
  <1>3. QED BY <1>1, <1>2 DEF Ends

-----------------------------------------------------------------------------
(* Steps, by what they do to the queue of writes *)

Linked == Control /\ Queued /\ Mirror

\* No task moves and nothing is written.
LEMMA StillStep ==
  ASSUME Linked, UNCHANGED <<pc, then, writes, row, up, dropped, owned, override>>
  PROVE  Linked'
  BY DEF Linked, Control, Queued, Mirror, Ends, Pending

\* A task moves from one await to another, or out of one.
LEMMA MoveStep ==
  ASSUME Linked, NEW t \in Tasks, pc[t] # "saving", NEW where \in Places \ {"saving"}, NEW next \in Thens,
         Await(t, where, next), UNCHANGED <<writes, row, up, dropped, owned, override>>
  PROVE  Linked'
  <1>1. Control' /\ Queued'
    BY Moved DEF Linked
  <1>2. Mirror'
    BY DEF Linked, Mirror, Ends, Pending
  <1>3. QED BY <1>1, <1>2 DEF Linked

\* A task changes memory and queues the write that mirrors the change.
LEMMA SaveStep ==
  ASSUME Linked, up, NEW t \in Tasks, pc[t] # "saving", NEW u \in Updates, NEW next \in Thens,
         Save(t, u, next), UNCHANGED <<up, dropped>>,
         owned' = IF "owned" \in DOMAIN u THEN u["owned"] ELSE owned,
         override' = IF "override" \in DOMAIN u THEN u["override"] ELSE override
  PROVE  Linked'
  <1>1. Control' /\ Queued'
    BY SavedQueue DEF Linked
  <1>2. row' = row
    BY DEF Save
  <1>3. ASSUME ~dropped PROVE Ends("owned", owned)' /\ Ends("override", override)'
    <2>1. Ends("owned", owned) /\ Ends("override", override) /\ Queued
      BY <1>3 DEF Linked, Mirror
    <2>2. Ends("owned", IF "owned" \in DOMAIN u THEN u["owned"] ELSE owned)'
      BY <2>1, SavedEnds
    <2>3. Ends("override", IF "override" \in DOMAIN u THEN u["override"] ELSE override)'
      BY <2>1, SavedEnds
    <2>4. QED BY <2>2, <2>3
  <1>4. Mirror'
    BY <1>2, <1>3 DEF Linked, Mirror
  <1>5. QED BY <1>1, <1>4 DEF Linked

LEMMA WriteDoneStep == Linked /\ WriteDone => Linked'
  <1> SUFFICES ASSUME Linked, WriteDone PROVE Linked'
    OBVIOUS
  <1>1. /\ up /\ writes # <<>> /\ writes' = Tail(writes) /\ UNCHANGED <<up, owned, override>>
        /\ Head(writes) = writes[1] /\ Return(writes[1].by)
    BY DEF WriteDone, rules
  <1>2. Control' /\ Queued'
    BY <1>1, Dequeued DEF Linked
  <1>3. CASE /\ row' = [f \in DOMAIN row |-> IF f \in DOMAIN writes[1].fields
                                             THEN writes[1].fields[f] ELSE row[f]]
             /\ UNCHANGED dropped
    <2>1. row \in Fields /\ DOMAIN row = {"owned", "override"}
      BY DEF Linked, Mirror, Fields
    <2>2. writes[1].fields \in Updates
      <3>1. 1 \in 1..Len(writes)
        BY <1>1, EmptySeq DEF Linked, Queued
      <3>2. QED BY <3>1, InQueue DEF Linked
    <2>3. row' \in Fields
      BY <1>3, <2>1, <2>2, Updated
    <2>4. \A f \in DOMAIN row : \A v : Ends(f, v) => Ends(f, v)'
      BY <1>1, <1>3, CommittedEnds DEF Linked
    <2>5. ASSUME ~dropped PROVE Ends("owned", owned)' /\ Ends("override", override)'
      <3>1. Ends("owned", owned) /\ Ends("override", override)
        BY <1>1, <2>5 DEF Linked, Mirror
      <3>2. (\E v : v = owned /\ Ends("owned", v)') /\ (\E v : v = override /\ Ends("override", v)')
        BY <2>1, <2>4, <3>1
      <3>3. QED BY <1>1, <3>2 DEF Ends
    <2>6. Mirror'
      BY <1>1, <1>3, <2>3, <2>5 DEF Linked, Mirror
    <2>7. QED BY <1>2, <2>6 DEF Linked
  <1>4. CASE dropped' = TRUE /\ UNCHANGED row
    BY <1>2, <1>4 DEF Linked, Mirror
  <1>5. QED BY <1>1, <1>3, <1>4 DEF WriteDone

\* The proxy dies: its tasks and its writes are gone.
LEMMA CrashStep == Linked /\ Crash => Linked'
  <1> SUFFICES ASSUME Linked, Crash PROVE Linked'
    OBVIOUS
  <1>1. /\ up' = FALSE /\ writes' = <<>> /\ row' = row
        /\ pc' = [t \in Tasks |-> "idle"] /\ then' = [t \in Tasks |-> "idle"]
    BY DEF Crash
  <1>2. writes' \in Seq(Writes) /\ Len(writes') = 0
    BY <1>1, EmptySeq
  <1>3. Control'
    BY <1>1 DEF Control, Places, Thens
  <1>4. QED BY <1>1, <1>2, <1>3 DEF Linked, Queued, Mirror

\* It is started again, and takes over what the row says.
LEMMA RestartStep == Linked /\ Restart => Linked'
  <1> SUFFICES ASSUME Linked, Restart PROVE Linked'
    OBVIOUS
  <1>1. ~up /\ up' = TRUE /\ UNCHANGED <<pc, then, writes, row>> /\ Restore
    BY DEF Restart, store
  <1>2. writes = <<>> /\ Len(writes) = 0
    BY <1>1, EmptySeq DEF Linked, Queued
  <1>3. Control' /\ Queued'
    BY <1>1 DEF Linked, Control, Queued
  <1>4. CASE dropped' = TRUE
    BY <1>1, <1>3, <1>4 DEF Linked, Mirror
  <1>5. CASE owned' = row.owned /\ override' = row.override
    <2>1. Pending("owned")' = {} /\ Pending("override")' = {}
      BY <1>1, <1>2 DEF Pending
    <2>2. row \in Fields
      BY DEF Linked, Mirror
    <2>3. row'["owned"] = owned' /\ row'["override"] = override'
      BY <1>1, <1>5, <2>2 DEF Fields
    <2>4. Ends("owned", owned)' /\ Ends("override", override)'
      BY <2>1, <2>3 DEF Ends
    <2>5. QED BY <1>1, <1>3, <2>4 DEF Linked, Mirror
  <1>6. QED BY <1>1, <1>4, <1>5 DEF Restore

-----------------------------------------------------------------------------
(* Every step keeps the tasks, the writes and the mirror linked *)

LEMMA LinkedNext == Flags /\ Linked /\ [Next]_vars => Linked'
  <1> SUFFICES ASSUME Flags, Linked, [Next]_vars PROVE Linked'
    OBVIOUS
  <1> USE DEF Places, Thens, Calls
  <1>0. /\ {"sync", "engine", "manager"} \subseteq Tasks /\ Callers \subseteq Tasks
        /\ \A t \in Tasks : pc[t] \in Places /\ then[t] \in Thens
        /\ \A t \in Tasks : then[t] \in Places \ {"saving"}
    BY DEF Tasks, Readers, Linked, Control
  <1>1. ASSUME NEW t \in Readers, BmcReads(t) PROVE Linked'
    <2>1. /\ t \in Tasks /\ pc[t] \in {"idle", "reading"}
          /\ Await(t, IF t = "sync" THEN "read" ELSE then[t], "idle")
          /\ UNCHANGED <<writes, row, up, dropped, owned, override>>
      BY <1>1 DEF BmcReads, Goto, store, rules, history, Tasks
    <2>2. (IF t = "sync" THEN "read" ELSE then[t]) \in Places \ {"saving"}
      BY <1>0, <2>1
    <2>3. QED BY <2>1, <2>2, MoveStep
  <1>2. CASE SyncTick
    <2>1. up /\ pc["sync"] = "read" /\ UNCHANGED <<up, dropped, owned, override>>
      BY <1>2 DEF SyncTick, rules, history
    <2>2. CASE Goto("sync", "idle") /\ UNCHANGED store
      BY <1>0, <2>1, <2>2, MoveStep DEF Goto, store
    <2>3. CASE Save("sync", NoFields, "idle")
      BY <1>0, <2>1, <2>3, SaveStep, TheUpdates
    <2>4. QED BY <1>2, <2>2, <2>3 DEF SyncTick
  <1>3. ASSUME NEW t \in Callers \cup {"manager"}, ServiceReady(t) PROVE Linked'
    <2>1. /\ up /\ t \in Tasks /\ pc[t] \in {"idle", "admitting"}
          /\ UNCHANGED <<up, dropped, owned, override>>
      BY <1>0, <1>3 DEF ServiceReady, rules, history
    <2>2. PICK next \in {"idle", "probed"} :
             (Goto(t, next) /\ UNCHANGED store) \/ Save(t, NoFields, next)
      BY <1>3 DEF ServiceReady
    <2>3. CASE Goto(t, next) /\ UNCHANGED store
      BY <2>1, <2>3, MoveStep DEF Goto, store
    <2>4. CASE Save(t, NoFields, next)
      BY <2>1, <2>4, SaveStep, TheUpdates
    <2>5. QED BY <2>2, <2>3, <2>4
  <1>4. ASSUME NEW t \in Callers \cup {"manager"}, Wake(t) PROVE Linked'
    <2>1. t \in Tasks /\ UNCHANGED <<writes, row, up, dropped, owned, override>>
      BY <1>0, <1>4 DEF Wake, rules, store
    <2>2. PICK next \in {"idle", "queueing", "held"} : Waker(t, next) /\ Await(t, "wakeCall", next)
      BY <1>4 DEF Wake
    <2>3. pc[t] # "saving"
      BY <2>2 DEF Waker, Entering
    <2>4. QED BY <2>1, <2>2, <2>3, MoveStep
  <1>5. CASE ServiceDown
    BY <1>5, StillStep DEF ServiceDown, rules, store, history
  <1>6. CASE WorkStarts \/ WorkEnds
    BY <1>6, StillStep DEF WorkStarts, WorkEnds, rules, store, history
  <1>7. ASSUME NEW p \in Callers, RoutedTraffic(p) PROVE Linked'
    <2>1. up /\ p \in Tasks /\ pc[p] = "idle" /\ UNCHANGED <<up, dropped, override>>
      BY <1>0, <1>7 DEF RoutedTraffic
    <2>2. CASE owned' = TRUE /\ Save(p, [owned |-> TRUE], "admitting")
      BY <2>1, <2>2, SaveStep, TheUpdates
    <2>3. CASE Goto(p, "admitting") /\ UNCHANGED <<owned, store>>
      BY <2>1, <2>3, MoveStep DEF Goto, store
    <2>4. QED BY <1>7, <2>2, <2>3 DEF RoutedTraffic
  <1>8. ASSUME NEW p \in Callers, Enqueue(p) \/ Hold(p) \/ Forward(p) \/ Refuse(p) PROVE Linked'
    <2>1. /\ p \in Tasks /\ pc[p] # "saving"
          /\ Goto(p, "idle") \/ Goto(p, "held")
          /\ UNCHANGED <<writes, row, up, dropped, owned, override>>
      BY <1>0, <1>8 DEF Enqueue, Hold, Forward, Refuse, Entering, rules, store, history
    <2>2. QED BY <2>1, MoveStep DEF Goto
  <1>9. ASSUME NEW p \in Callers, NEW a \in ManualPower, MonitorPower(p, a) PROVE Linked'
    <2>1. /\ p \in Tasks /\ pc[p] = "idle"
          /\ Goto(p, "onCall") \/ Goto(p, "offCall")
          /\ UNCHANGED <<writes, row, up, dropped, owned, override>>
      BY <1>0, <1>9 DEF MonitorPower, rules, store, history
    <2>2. QED BY <2>1, MoveStep DEF Goto
  <1>10. ASSUME NEW p \in Callers, NEW v \in Toggles, SetOverride(p, v) PROVE Linked'
    <2>1. /\ up /\ p \in Tasks /\ pc[p] = "idle" /\ override' = v /\ Save(p, [override |-> v], "idle")
          /\ UNCHANGED <<up, dropped, owned>> /\ v \in Overrides
      BY <1>0, <1>10, ServerSettings DEF SetOverride, history, Overrides
    <2>2. QED BY <2>1, SaveStep, TheUpdates
  <1>11. ASSUME NEW t \in Tasks, PowerOnAccepted(t) PROVE Linked'
    <2>1. /\ up /\ pc[t] # "saving" /\ owned' = TRUE /\ override' = "default" /\ "default" \in Overrides
          /\ Save(t, [owned |-> TRUE, override |-> "default"], then[t])
          /\ UNCHANGED <<up, dropped>>
      BY <1>11 DEF PowerOnAccepted, OnCalls, Overrides
    <2> DEFINE u == [owned |-> TRUE, override |-> "default"]
    <2>2. /\ u \in Updates /\ DOMAIN u = {"owned", "override"}
          /\ u["owned"] = owned' /\ u["override"] = override'
      BY <2>1, TheUpdates
    <2>3. Save(t, u, then[t]) /\ then[t] \in Thens
      BY <1>0, <2>1
    <2> HIDE DEF u
    <2>4. QED BY <2>1, <2>2, <2>3, SaveStep
  <1>12. ASSUME NEW t \in Tasks, PowerOnFailed(t) \/ PowerOffFailed(t) PROVE Linked'
    <2>1. /\ up /\ pc[t] # "saving" /\ Save(t, NoFields, then[t])
          /\ UNCHANGED <<up, dropped, owned, override>>
      BY <1>12 DEF PowerOnFailed, PowerOffFailed, OnCalls, rules
    <2>2. QED BY <1>0, <2>1, SaveStep, TheUpdates
  <1>13. ASSUME NEW t \in Tasks, PowerOffAccepted(t) PROVE Linked'
    <2>1. /\ up /\ pc[t] # "saving" /\ owned' = FALSE /\ Save(t, [owned |-> FALSE], then[t])
          /\ UNCHANGED <<up, dropped, override>>
      BY <1>13 DEF PowerOffAccepted
    <2> DEFINE u == [owned |-> FALSE]
    <2>2. u \in Updates /\ DOMAIN u = {"owned"} /\ u["owned"] = owned'
      BY <2>1, TheUpdates
    <2>3. Save(t, u, then[t]) /\ then[t] \in Thens
      BY <1>0, <2>1
    <2> HIDE DEF u
    <2>4. QED BY <2>1, <2>2, <2>3, SaveStep
  <1>14. CASE Engine
    <2>1. /\ pc["engine"] # "saving" /\ UNCHANGED <<writes, row, up, dropped, owned, override>>
          /\ \E where \in {"idle", "reading", "offCall"}, next \in Thens : Await("engine", where, next)
      BY <1>14 DEF Engine, EngineStart, SchedResume, SchedDone, IdleResume, IdleDone, IdleOffTick, IssueOff,
                  Goto, rules, store, history
    <2>2. QED BY <1>0, <2>1, MoveStep
  <1>15. CASE CronFire \/ Stopped \/ Operator \/ Second
    BY <1>15, StillStep DEF CronFire, Stopped, Operator, Second, rules, store, history
  <1>16. CASE UNCHANGED vars
    BY <1>16, StillStep DEF vars, rules, store, history
  <1>17. QED
    BY <1>1, <1>2, <1>3, <1>4, <1>5, <1>6, <1>7, <1>8, <1>9, <1>10, <1>11, <1>12, <1>13, <1>14, <1>15,
       <1>16, WriteDoneStep, CrashStep, RestartStep DEF Next, Request, PowerDone

-----------------------------------------------------------------------------
(* Flags and ages *)

\* Every age stays within the bound at which it saturates, and the stamp of
\* the last attempt is never older than the last power-on for a request.
LEMMA AgesNext == Ages /\ Stamped /\ [Next]_vars => Ages' /\ Stamped'
  <1> SUFFICES ASSUME Ages, Stamped, [Next]_vars PROVE Ages' /\ Stamped'
    OBVIOUS
  <1> USE ServerTimes DEF Ages, Stamped
  <1>1. ASSUME UNCHANGED <<clocks, quiet, wakeAge>> PROVE Ages' /\ Stamped'
    BY <1>1 DEF clocks
  <1>2. CASE WriteDone \/ SyncTick \/ ServiceDown \/ WorkStarts \/ WorkEnds \/ CronFire \/ Stopped \/ Operator
             \/ Crash \/ UNCHANGED vars
    BY <1>1, <1>2 DEF WriteDone, SyncTick, ServiceDown, WorkStarts, WorkEnds, CronFire, Stopped, Operator,
                      Crash, history, vars
  <1>3. ASSUME NEW t \in Tasks, BmcReads(t) \/ ServiceReady(t) \/ PowerDone(t) PROVE Ages' /\ Stamped'
    BY <1>1, <1>3 DEF BmcReads, ServiceReady, PowerDone, PowerOnAccepted, PowerOnFailed, PowerOffAccepted,
                      PowerOffFailed, history
  <1>4. ASSUME NEW t \in Tasks, Wake(t) PROVE Ages' /\ Stamped'
    BY <1>4 DEF Wake
  <1>5. ASSUME NEW p \in Callers, RoutedTraffic(p) PROVE Ages' /\ Stamped'
    BY <1>5 DEF RoutedTraffic
  <1>6. ASSUME NEW p \in Callers, Enqueue(p) \/ Hold(p) \/ Forward(p) \/ Refuse(p) PROVE Ages' /\ Stamped'
    BY <1>1, <1>6 DEF Enqueue, Hold, Forward, Refuse, history
  <1>7. ASSUME NEW p, NEW a, MonitorPower(p, a) \/ SetOverride(p, a) PROVE Ages' /\ Stamped'
    BY <1>1, <1>7 DEF MonitorPower, SetOverride, history
  <1>8. CASE Engine
    <2>1. UNCHANGED <<attemptAge, lag, quiet, wakeAge>>
      BY <1>8 DEF Engine, EngineStart, SchedResume, SchedDone, IdleResume, IdleDone, clocks, history
    <2>2. passAge' \in {0, passAge}
      BY <1>8 DEF Engine, EngineStart, SchedResume, SchedDone, IdleResume, IdleDone, IdleOffTick, ClockReset
    <2>3. idleAge' \in 0..(IdleTimeout + 1)
      BY <1>8 DEF Engine, EngineStart, SchedResume, SchedDone, IdleResume, IdleDone, IdleOffTick, ClockReset
    <2>4. QED BY <2>1, <2>2, <2>3
  <1>9. CASE Restart
    BY <1>9 DEF Restart
  <1>10. CASE Second
    <2>1. /\ idleAge' = Older(idleAge, IdleTimeout + 1) /\ attemptAge' = Older(attemptAge, Cooldown + 1)
          /\ quiet' = (IF HasActivity THEN 0 ELSE Older(quiet, IdleTimeout + 1))
          /\ wakeAge' = Older(wakeAge, Cooldown + 1)
      BY <1>10 DEF Second
    <2>2. passAge' \in 0..(Period + MaxPass)
      BY <1>10 DEF Second
    <2>3. lag' \in 0..MaxLag
      BY <1>10 DEF Second
    <2>4. QED BY <2>1, <2>2, <2>3 DEF Older
  <1>11. QED
    BY <1>2, <1>3, <1>4, <1>5, <1>6, <1>7, <1>8, <1>9, <1>10 DEF Next, Request, Tasks, Readers

LEMMA FlagsNext == Flags /\ Mirror /\ [Next]_vars => Flags'
  <1> SUFFICES ASSUME Flags, Mirror, [Next]_vars PROVE Flags'
    OBVIOUS
  <1> USE DEF Flags
  <1>0. BmcAnswers \subseteq Powers
    BY DEF BmcAnswers, Powers
  <1>1. CASE WriteDone
    <2>1. UNCHANGED <<machine, power, rules, load, ready, answer, up, claim>>
      BY <1>1, Zenon DEF WriteDone
    <2>2. dropped' \in BOOLEAN
      BY <1>1, Zenon DEF WriteDone
    <2>3. QED BY <2>1, <2>2, Zenon DEF machine, power, rules
  <1>2. ASSUME NEW t \in Readers, BmcReads(t) PROVE Flags'
    BY <1>0, <1>2 DEF BmcReads, machine, power, rules, history
  <1>3. CASE SyncTick
    BY <1>3 DEF SyncTick, SetState, Answered, Powers, Readers, machine, rules, history
  <1>4. ASSUME NEW t, ServiceReady(t) PROVE Flags'
    BY <1>4 DEF ServiceReady, SetState, Powers, machine, rules, history
  <1>5. ASSUME NEW t, Wake(t) PROVE Flags'
    BY <1>5 DEF Wake, machine, rules
  <1>6. CASE ServiceDown
    BY <1>6 DEF ServiceDown, machine, power, rules, history
  <1>7. CASE WorkStarts \/ WorkEnds
    <2>1. UNCHANGED <<machine, power, rules, ready, answer, up, history>>
      BY <1>7 DEF Load!Start, Load!End, WorkStarts, WorkEnds
    <2>2. queued' \in BOOLEAN /\ running' \in BOOLEAN
      BY <1>7, Zenon DEF Load!Start, Load!End, WorkStarts, WorkEnds
    <2>3. QED BY <2>1, <2>2, Zenon DEF machine, power, rules, history
  <1>8. ASSUME NEW p, RoutedTraffic(p) PROVE Flags'
    BY <1>8 DEF RoutedTraffic, machine, power
  <1>9. ASSUME NEW p, Enqueue(p) \/ Hold(p) \/ Forward(p) \/ Refuse(p) PROVE Flags'
    <2>1. UNCHANGED <<machine, power, rules, ready, answer, up, history>>
      BY <1>9 DEF Enqueue, Load!Arrive, Hold, Forward, Refuse
    <2>2. queued' \in BOOLEAN /\ running' \in BOOLEAN
      BY <1>9, Zenon DEF Enqueue, Load!Arrive, Hold, Forward, Refuse
    <2>3. QED BY <2>1, <2>2, Zenon DEF machine, power, rules, history
  <1>10. ASSUME NEW p, NEW a \in ManualPower, MonitorPower(p, a) PROVE Flags'
    BY <1>10, ServerSettings DEF MonitorPower, machine, rules, history
  <1>11. ASSUME NEW p, NEW v \in Toggles, SetOverride(p, v) PROVE Flags'
    BY <1>11, ServerSettings DEF SetOverride, Overrides, machine, power, history
  <1>12. ASSUME NEW t, PowerOnAccepted(t) PROVE Flags'
    BY <1>12 DEF PowerOnAccepted, Overrides, power
  <1>13. (BmcOn => claim' \in BOOLEAN) /\ (BmcOff => stopping' \in BOOLEAN)
    BY Zenon DEF BmcOn, BmcOff
  <1>14. ASSUME NEW t, PowerOnFailed(t) PROVE Flags'
    <2>1. box' \in {"on", "off"} /\ stopping' \in BOOLEAN /\ claim' \in BOOLEAN
      BY <1>13, <1>14 DEF PowerOnFailed, BmcOn, machine
    <2>2. QED BY <1>14, <2>1 DEF PowerOnFailed, rules
  <1>15. ASSUME NEW t, PowerOffAccepted(t) PROVE Flags'
    BY <1>13, <1>15 DEF PowerOffAccepted, BmcOff, power
  <1>16. ASSUME NEW t, PowerOffFailed(t) PROVE Flags'
    <2>1. box' \in {"on", "off"} /\ stopping' \in BOOLEAN /\ claim' \in BOOLEAN
      BY <1>13, <1>16 DEF PowerOffFailed, BmcOff, machine
    <2>2. QED BY <1>16, <2>1 DEF PowerOffFailed, rules
  <1>17. CASE EngineStart
    <2>1. deferred' \in BOOLEAN
      BY <1>17, Zenon DEF EngineStart
    <2>2. QED BY <1>17, <2>1 DEF EngineStart, machine, power, history
  <1>18. CASE SchedResume
    <2>1. answer' \in [Readers -> Powers]
      BY <1>18 DEF SchedResume, Answered, Powers, Readers
    <2>2. deferred' \in BOOLEAN /\ transient' \in {"none", "on", "off"}
      BY <1>18 DEF SchedResume, IssueOff
    <2>3. QED BY <1>18, <2>1, <2>2 DEF SchedResume, machine, history
  <1>19. CASE SchedDone
    BY <1>19 DEF SchedDone, machine, power, history
  <1>20. CASE IdleResume
    BY <1>20 DEF IdleResume, Answered, IssueOff, Powers, Readers, machine, rules, history
  <1>21. CASE IdleDone
    BY <1>21 DEF IdleDone, machine, power, rules, history
  <1>22. CASE CronFire \/ Stopped \/ Operator
    <2>1. CASE CronFire
      BY <2>1 DEF CronFire, machine, power, history
    <2>2. CASE Stopped
      BY <2>2 DEF Stopped, power, rules, history
    <2>3. CASE Operator
      <3>1. box' \in {"on", "off"} /\ stopping' = FALSE
        BY <2>3 DEF Operator
      <3>2. claim' \in BOOLEAN
        BY <2>3, Zenon DEF Operator
      <3>3. QED BY <2>3, <3>1, <3>2 DEF Operator, power, rules
    <2>4. QED BY <1>22, <2>1, <2>2, <2>3
  <1>23. CASE Crash
    <2>1. box' \in {"on", "off"} /\ stopping' \in BOOLEAN /\ claim' \in BOOLEAN
      BY <1>13, <1>23 DEF Crash, BmcOn, BmcOff, machine
    <2>2. QED BY <1>23, <2>1 DEF Crash, Powers, Readers, power, rules
  <1>24. CASE Restart
    <2>1. ready' \in BOOLEAN
      BY <1>24, Zenon DEF Restart, SyncState
    <2>2. powerState' \in Powers /\ transient' \in {"none", "on", "off"}
      BY <1>0, <1>24 DEF Restart, SyncState, Powers
    <2>3. row.owned \in BOOLEAN /\ row.override \in Overrides
      BY DEF Mirror, Fields
    <2>4. owned' \in BOOLEAN /\ override' \in Overrides /\ dropped' \in BOOLEAN
      BY <1>24, <2>3, Zenon DEF Restart, Restore, Overrides
    <2>5. QED BY <1>24, <2>1, <2>2, <2>4 DEF Restart, machine
  <1>25. CASE Second
    BY <1>25 DEF Second, machine, power, rules
  <1>26. CASE UNCHANGED vars
    BY <1>26 DEF vars, machine, power, rules, history
  <1>27. QED
    BY <1>1, <1>2, <1>3, <1>4, <1>5, <1>6, <1>7, <1>8, <1>9, <1>10, <1>11, <1>12, <1>14, <1>15, <1>16, <1>17,
       <1>18, <1>19, <1>20, <1>21, <1>22, <1>23, <1>24, <1>25, <1>26 DEF Next, Request, PowerDone, Engine

-----------------------------------------------------------------------------
(* The theorems *)

LEMMA ServerInit == Init => ServerInv
  <1> SUFFICES ASSUME Init PROVE ServerInv
    OBVIOUS
  <1>1. Flags
    <2>1. powerState \in Powers
      BY DEF Init, BmcAnswers, Powers
    <2>2. QED BY <2>1 DEF Init, Flags, Overrides, Powers
  <1>2. Ages /\ Stamped
    BY ServerTimes DEF Init, Ages, Stamped
  <1>3. Control
    BY DEF Init, Control, Places, Thens
  <1>4. writes = <<>> /\ writes \in Seq(Writes) /\ Len(writes) = 0
    BY EmptySeq DEF Init
  <1>5. Queued
    BY <1>4 DEF Queued
  <1>6. Mirror
    <2>1. row \in Fields
      BY DEF Init, Fields, Overrides
    <2>2. Pending("owned") = {} /\ Pending("override") = {}
      BY <1>4 DEF Pending
    <2>3. row["owned"] = owned /\ row["override"] = override
      BY DEF Init
    <2>4. QED BY <2>1, <2>2, <2>3 DEF Mirror, Ends
  <1>7. QED BY <1>1, <1>2, <1>3, <1>5, <1>6 DEF ServerInv

LEMMA ServerNext == ServerInv /\ [Next]_vars => ServerInv'
  BY LinkedNext, AgesNext, FlagsNext DEF ServerInv, Linked

\* The inductive invariant of the server runtime: types, the tasks that await
\* a store write against the queue for _write_lock, the mirror of owned and
\* shutdown_override, and the stamp of the last power-on attempt.
THEOREM ServerInvariant == Spec => []ServerInv
  BY ServerInit, ServerNext, PTL DEF Spec

\* Type correctness of ServerRuntime: every age stays within its bound, and a
\* task with a write in the queue for the lock awaits that write and nothing
\* else.
THEOREM ServerTyped == Spec => []ServerTypeOK
  <1>1. ServerInv => ServerTypeOK
    BY DEF ServerInv, Flags, Ages, Control, Queued, Mirror, ServerTypeOK
  <1>2. QED BY <1>1, ServerInvariant, PTL

\* Memory first, mirror second (D33): for any number of coroutines that power,
\* adopt and toggle, with lost answers of the BMC and crashes, the row ends up
\* with the ownership and the switch that memory has, unless the store has
\* dropped a write.
THEOREM MirrorAlwaysExact == Spec => []MirrorExact
  <1>1. ServerInv => MirrorExact
    BY EndsSettled DEF ServerInv, Mirror, MirrorExact
  <1>2. QED BY <1>1, ServerInvariant, PTL

\* P2: maybe_power_on issues two power-ons for waiting requests more than the
\* cooldown apart, whoever calls it.
THEOREM CooldownDeduplicates == Spec => CooldownDedupe
  <1>1. ServerInv /\ [Next]_vars
          => [\A t \in Tasks : pc[t] # "wakeCall" /\ pc'[t] = "wakeCall" => wakeAge > Cooldown]_vars
    <2> SUFFICES ASSUME ServerInv, Next, NEW t \in Tasks, pc[t] # "wakeCall", pc'[t] = "wakeCall"
                 PROVE  wakeAge > Cooldown
      OBVIOUS
    <2>1. pc \in [Tasks -> Places] /\ then \in [Tasks -> Thens]
      BY DEF ServerInv, Control
    <2>2. ASSUME NEW s \in Tasks, NEW where, NEW next, Await(s, where, next), where # "wakeCall" PROVE FALSE
      BY <2>1, <2>2 DEF Await
    <2>3. ASSUME NEW s \in Tasks, NEW next, Goto(s, next), next \in Thens PROVE FALSE
      BY <2>2, <2>3 DEF Goto, Thens
    <2>4. ASSUME NEW s \in Tasks, NEW u, NEW next, Save(s, u, next) PROVE FALSE
      BY <2>2, <2>4 DEF Save
    <2>5. ASSUME NEW s \in Tasks, Wake(s) PROVE wakeAge > Cooldown
      BY <2>5, ServerTimes DEF Wake, WakeDue, ServerInv, Stamped, Ages
    <2>6. {"sync", "engine", "manager"} \subseteq Tasks /\ Callers \subseteq Tasks /\ Readers \subseteq Tasks
      BY DEF Tasks, Readers
    <2>7. CASE WriteDone
      <3>1. PICK s : s = Head(writes).by /\ Return(s)
        BY <2>7 DEF WriteDone
      <3>2. s \in Tasks
        <4>1. 1 \in 1..Len(writes) /\ s = writes[1].by
          BY <2>7, <3>1, EmptySeq DEF WriteDone, ServerInv, Queued
        <4>2. QED BY <4>1, InQueue DEF ServerInv
      <3>3. QED BY <2>1, <2>3, <3>1, <3>2 DEF Return
    <2>8. ASSUME NEW s \in Readers, BmcReads(s) PROVE FALSE
      BY <2>1, <2>2, <2>6, <2>8 DEF BmcReads, Goto, Thens
    <2>9. CASE SyncTick
      BY <2>3, <2>4, <2>6, <2>9 DEF SyncTick, Thens
    <2>10. ASSUME NEW s \in Tasks, ServiceReady(s) PROVE FALSE
      BY <2>3, <2>4, <2>10 DEF ServiceReady, Thens
    <2>11. ASSUME NEW p \in Callers, Request(p) PROVE FALSE
      BY <2>3, <2>4, <2>6, <2>11 DEF Request, RoutedTraffic, Enqueue, Hold, Forward, Refuse, Thens
    <2>12. ASSUME NEW p \in Callers, NEW a, MonitorPower(p, a) \/ SetOverride(p, a) PROVE FALSE
      BY <2>2, <2>4, <2>6, <2>12 DEF MonitorPower, SetOverride, Goto
    <2>13. ASSUME NEW s \in Tasks, PowerDone(s) PROVE FALSE
      BY <2>4, <2>13 DEF PowerDone, PowerOnAccepted, PowerOnFailed, PowerOffAccepted, PowerOffFailed
    <2>14. CASE Engine
      <3>1. \E where \in {"idle", "reading", "offCall"}, next \in Thens : Await("engine", where, next)
        BY <2>14 DEF Engine, EngineStart, SchedResume, SchedDone, IdleResume, IdleDone, IdleOffTick, IssueOff,
                     Goto, Thens
      <3>2. QED BY <2>2, <2>6, <3>1
    <2>15. CASE Crash
      BY <2>15 DEF Crash
    <2>16. CASE UNCHANGED pc
      BY <2>16
    <2>17. QED
      BY <2>5, <2>6, <2>7, <2>8, <2>9, <2>10, <2>11, <2>12, <2>13, <2>14, <2>15, <2>16
      DEF Next, ServiceDown, WorkStarts, WorkEnds, CronFire, Stopped, Operator, Restart, Second
  <1>2. QED BY <1>1, ServerInvariant, PTL DEF Spec, CooldownDedupe

=============================================================================
