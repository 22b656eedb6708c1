------------------------------- MODULE Store -------------------------------
(***************************************************************************)
(* The SQLite store (relay/store.py) through the life of the proxy         *)
(* (RelayApp.startup and shutdown): one writer at a time behind the FIFO   *)
(* _write_lock, the bounded buffer of staged request records and its       *)
(* flusher, retention, degraded mode (D33) and a server's runtime row.     *)
(*                                                                         *)
(* A request record is its number in the order of completion.  A write is  *)
(* a job in the queue for the lock; _note_write_success and                *)
(* _note_write_failure run in the step that ends it, since nothing is      *)
(* awaited between releasing the lock and taking note.                     *)
(***************************************************************************)
EXTENDS Integers, Sequences, FiniteSets, Functions

CONSTANTS
  Writers,        \* coroutines that write state or history rows
  BufferMax,      \* REQUEST_BUFFER_MAX
  MaxRequests     \* bound: requests completed in one run of the proxy

ASSUME StoreBounds == BufferMax \in Nat \ {0} /\ MaxRequests \in Nat

ASSUME StoreWriters == Writers \cap {"flush", "prune"} = {}

VARIABLES
  phase,          \* "opening", "reconciling", "running", "stopping", "draining", "closed"
  disk,           \* "ok", or "full": every commit fails
  \* memory
  buffer,         \* _request_buffer
  batch,          \* the records flush_requests has taken
  dropped,        \* _dropped_requests
  degraded,       \* _degraded
  owned,          \* ServerRuntime.owned, what the row mirrors
  jobs,           \* writes holding or awaiting _write_lock
  \* the database
  logged,         \* the records of this run that have a row
  hasRow, row,    \* whether there is a server_runtime row, and its owned
  \* history
  completed,      \* requests completed in this run
  expired,        \* the records up to this one are older than retention_days
  pruned,         \* how many rows of this run have been pruned
  cancelled       \* how many records the shutdown has cancelled with their flush

staging == <<buffer, batch, dropped>>
tables  == <<logged, hasRow, row>>
history == <<completed, expired, pruned, cancelled>>
vars == <<phase, disk, staging, degraded, owned, jobs, tables, history>>

\* The writes of each kind.
Jobs == [by : {"flush"}, kind : {"flush"}]
        \cup [by : {"prune"}, kind : {"prune"}, cutoff : Nat]
        \cup [by : Writers, kind : {"server"}, value : BOOLEAN]
        \cup [by : Writers, kind : {"history"}]

\* A database of an earlier run, or a fresh one, is opened.
Init ==
  /\ phase = "opening" /\ disk \in {"ok", "full"}
  /\ buffer = <<>> /\ batch = <<>> /\ dropped = 0 /\ degraded = FALSE
  /\ owned = FALSE /\ jobs = <<>>
  /\ logged = {} /\ hasRow \in BOOLEAN /\ row \in {FALSE, hasRow}
  /\ completed = 0 /\ expired = 0 /\ pruned = 0 /\ cancelled = 0

-----------------------------------------------------------------------------
(* Startup *)

\* open: the migrations are retried until the database can be written.
Open ==
  /\ phase = "opening" /\ disk = "ok"
  /\ phase' = "reconciling"
  /\ UNCHANGED <<disk, staging, degraded, owned, jobs, tables, history>>

\* reconcile_servers and ServerRuntime.restore: a missing row is inserted; if
\* the write fails the server starts unowned.
Reconcile ==
  /\ phase = "reconciling"
  /\ phase' = "running"
  /\ \/ /\ disk = "ok" \/ hasRow
        /\ hasRow' = TRUE /\ owned' = row
        /\ degraded' = FALSE
     \/ /\ disk = "full"
        /\ owned' = FALSE
        /\ degraded' = TRUE
        /\ UNCHANGED hasRow
  /\ UNCHANGED <<disk, staging, jobs, logged, row, history>>

-----------------------------------------------------------------------------
(* Staging and flushing *)

\* Mutant of EnqueueRequest: at capacity the new record is not taken.
EnqueueRequestShedsNewest ==
  /\ phase = "running" /\ completed < MaxRequests
  /\ completed' = completed + 1
  /\ IF Len(buffer) >= BufferMax
     THEN dropped' = dropped + 1 /\ UNCHANGED buffer
     ELSE buffer' = Append(buffer, completed') /\ UNCHANGED dropped
  /\ UNCHANGED <<phase, disk, batch, degraded, owned, jobs, tables, expired, pruned, cancelled>>

\* Mutant of EnqueueRequest: the buffer has no bound.
EnqueueRequestUnbounded ==
  /\ phase = "running" /\ completed < MaxRequests
  /\ completed' = completed + 1
  /\ buffer' = Append(buffer, completed')
  /\ UNCHANGED <<phase, disk, batch, dropped, degraded, owned, jobs, tables, expired, pruned,
                 cancelled>>

\* enqueue_request: over capacity the oldest record is shed and counted.
EnqueueRequest ==
  /\ phase = "running" /\ completed < MaxRequests
  /\ completed' = completed + 1
  /\ LET full == Len(buffer) >= BufferMax IN
       /\ dropped' = IF full THEN dropped + 1 ELSE dropped
       /\ buffer' = Append(IF full THEN Tail(buffer) ELSE buffer, completed')
  /\ UNCHANGED <<phase, disk, batch, degraded, owned, jobs, tables, expired, pruned, cancelled>>

\* flush_requests up to its await: the buffer is swapped for a new one.
TakeBatch ==
  /\ batch' = buffer /\ buffer' = <<>>
  /\ jobs' = Append(jobs, [by |-> "flush", kind |-> "flush"])

Waiting(by) == \E i \in 1..Len(jobs) : jobs[i].by = by

\* request_flush_loop
Flush ==
  /\ phase = "running" /\ ~Waiting("flush") /\ buffer # <<>>
  /\ TakeBatch
  /\ UNCHANGED <<phase, disk, dropped, degraded, owned, tables, history>>

\* retention_loop: the cutoff is computed before the lock is awaited.
Prune ==
  /\ phase = "running" /\ ~Waiting("prune")
  /\ jobs' = Append(jobs, [by |-> "prune", kind |-> "prune", cutoff |-> expired])
  /\ UNCHANGED <<phase, disk, staging, degraded, owned, tables, history>>

\* set_server_runtime: memory first, mirror second.
SetServerRuntime(w, v) ==
  /\ phase = "running" /\ ~Waiting(w)
  /\ owned' = v
  /\ jobs' = Append(jobs, [by |-> w, kind |-> "server", value |-> v])
  /\ UNCHANGED <<phase, disk, staging, degraded, tables, history>>

\* set_endpoint_runtime, log_power_event, upsert_session: rows nothing reads
\* back into a decision.
WriteHistory(w) ==
  /\ phase = "running" /\ ~Waiting(w)
  /\ jobs' = Append(jobs, [by |-> w, kind |-> "history"])
  /\ UNCHANGED <<phase, disk, staging, degraded, owned, tables, history>>

-----------------------------------------------------------------------------
(* The writer that holds the lock *)

\* bulk_log_requests inserts the batch.
FlushRows ==
  /\ jobs[1].kind = "flush"
  /\ logged' = logged \cup Range(batch)
  /\ UNCHANGED <<row, pruned>>

\* Mutant of PruneRows: the row at the cutoff's other side goes too.
PruneRowsOneMore ==
  /\ jobs[1].kind = "prune"
  /\ logged' = {r \in logged : r > jobs[1].cutoff + 1}
  /\ pruned' = pruned + Cardinality(logged \ logged')
  /\ UNCHANGED row

\* prune: expired rows are deleted, batch by batch in one transaction.
PruneRows ==
  /\ jobs[1].kind = "prune"
  /\ logged' = {r \in logged : r > jobs[1].cutoff}
  /\ pruned' = pruned + Cardinality(logged \ logged')
  /\ UNCHANGED row

\* The UPDATE of set_server_runtime changes a row that exists, and no other.
StateRows ==
  /\ jobs[1].kind \in {"server", "history"}
  /\ row' = IF jobs[1].kind = "server" /\ hasRow THEN jobs[1].value ELSE row
  /\ UNCHANGED <<logged, pruned>>

\* What the transaction of the lock holder changes when it commits.
CommitRows == jobs # <<>> /\ disk = "ok" /\ (FlushRows \/ PruneRows \/ StateRows)

\* The lock goes to the next writer; the flush of the shutdown is followed
\* by close.
Unlock ==
  /\ jobs' = Tail(jobs)
  /\ IF jobs[1].kind = "flush"
     THEN batch' = <<>> /\ phase' = (IF phase = "draining" THEN "closed" ELSE phase)
     ELSE UNCHANGED <<batch, phase>>

\* Mutant of Commit: only a flush takes note of its success.
CommitPruneUnnoted ==
  /\ CommitRows /\ Unlock
  /\ degraded' = (degraded /\ jobs[1].kind # "flush")
  /\ UNCHANGED <<disk, buffer, dropped, owned, hasRow, completed, expired, cancelled>>

\* The transaction commits: _note_write_success.
Commit ==
  /\ CommitRows /\ Unlock
  /\ degraded' = FALSE
  /\ UNCHANGED <<disk, buffer, dropped, owned, hasRow, completed, expired, cancelled>>

\* Mutant of Fail: the records of a failed batch are not counted.
FailUncounted ==
  /\ jobs # <<>> /\ disk = "full"
  /\ Unlock
  /\ degraded' = TRUE
  /\ UNCHANGED <<disk, buffer, dropped, owned, tables, history>>

\* It fails: _note_write_failure, and what it held is dropped, not re-queued.
Fail ==
  /\ jobs # <<>> /\ disk = "full"
  /\ Unlock
  /\ degraded' = TRUE
  /\ dropped' = dropped + (IF jobs[1].kind = "flush" THEN Len(batch) ELSE 0)
  /\ UNCHANGED <<disk, buffer, owned, tables, history>>

-----------------------------------------------------------------------------
(* Shutdown *)

\* shutdown cancels every task, wherever it is: its write is rolled back, or
\* comes through if its COMMIT is being executed.  A batch goes with its
\* flush and is counted nowhere in the code.
Stop ==
  /\ phase = "running"
  /\ phase' = "stopping"
  /\ jobs' = <<>> /\ batch' = <<>>
  /\ \/ CommitRows
     \/ UNCHANGED <<logged, row, pruned>>
  /\ cancelled' = IF Range(batch) \subseteq logged' THEN 0 ELSE Len(batch)
  /\ UNCHANGED <<disk, buffer, dropped, degraded, owned, hasRow, completed, expired>>

\* "Drain the request buffer", then close.
Drain ==
  /\ phase = "stopping"
  /\ IF buffer = <<>>
     THEN phase' = "closed" /\ UNCHANGED <<buffer, batch, jobs>>
     ELSE phase' = "draining" /\ TakeBatch
  /\ UNCHANGED <<disk, dropped, degraded, owned, tables, history>>

\* The proxy is started again, after a shutdown or a crash.  The rows of
\* earlier runs are not followed any further.
Restart ==
  /\ phase' = "opening"
  /\ buffer' = <<>> /\ batch' = <<>> /\ dropped' = 0 /\ degraded' = FALSE
  /\ owned' = FALSE /\ jobs' = <<>> /\ logged' = {}
  /\ completed' = 0 /\ expired' = 0 /\ pruned' = 0 /\ cancelled' = 0
  /\ UNCHANGED <<disk, hasRow, row>>

-----------------------------------------------------------------------------
(* The world *)

DiskChanges ==
  /\ disk' \in {"ok", "full"} \ {disk}
  /\ UNCHANGED <<phase, staging, degraded, owned, jobs, tables, history>>

\* Time passes: another record is past the retention period.
Expire ==
  /\ expired < completed
  /\ expired' = expired + 1
  /\ UNCHANGED <<phase, disk, staging, degraded, owned, jobs, tables, completed, pruned, cancelled>>

Write(w) == WriteHistory(w) \/ \E v \in BOOLEAN : SetServerRuntime(w, v)

Next ==
  \/ Open \/ Reconcile
  \/ EnqueueRequest \/ Flush \/ Prune
  \/ \E w \in Writers : Write(w)
  \/ Commit \/ Fail
  \/ Stop \/ Drain \/ Restart
  \/ DiskChanges \/ Expire

Spec == Init /\ [][Next]_vars

\* The loops of the store keep running and SQLite answers.
Fairness ==
  /\ WF_vars(Prune) /\ WF_vars(Flush)
  /\ WF_vars(Commit \/ Fail)

FairSpec == Spec /\ Fairness

-----------------------------------------------------------------------------
(* Properties *)

\* The type of the state.  The staged buffer is bounded whatever the disk
\* does, and there is a batch exactly while its flusher waits or writes.
StoreTypeOK ==
  /\ phase \in {"opening", "reconciling", "running", "stopping", "draining", "closed"}
  /\ disk \in {"ok", "full"} /\ degraded \in BOOLEAN /\ owned \in BOOLEAN
  /\ hasRow \in BOOLEAN /\ row \in BOOLEAN
  /\ buffer \in Seq(Nat) /\ batch \in Seq(Nat) /\ logged \subseteq Nat
  /\ Len(buffer) <= BufferMax /\ Len(batch) <= BufferMax
  /\ dropped \in Nat /\ completed \in Nat /\ expired \in Nat /\ pruned \in Nat
  /\ cancelled \in Nat
  /\ jobs \in Seq(Jobs)
  /\ batch # <<>> <=> Waiting("flush")

\* D33: until it is shut down, every request the proxy has completed is staged,
\* being written, in the database (or pruned from it), or counted as dropped,
\* whatever completes during a flush; and none is ever counted twice.  What
\* the shutdown does is another matter (NoneLostOnShutdown).
RequestsAccounted ==
  LET accounted == Len(buffer) + Len(batch) + Cardinality(logged) + pruned + dropped IN
  /\ accounted <= completed
  /\ phase \notin {"stopping", "draining", "closed"} => accounted = completed

\* "Drain the request buffer so no completed request is lost on shutdown"
\* (main.py): when the store is closed, every completed request has been
\* written or counted.  This is false: the batch of a flush that the shutdown
\* cancels is neither.
NoneLostOnShutdown ==
  phase = "closed" => completed = Cardinality(logged) + pruned + dropped

\* Shedding costs the oldest staged records: the buffer always holds the
\* newest ones, without a gap, a batch is a piece of that without a gap, and
\* records reach the requests table in the order of completion, so that nothing
\* older is written, or written again, after something newer.
NewestStaged ==
  /\ \A i \in 1..Len(buffer) : buffer[i] = completed - Len(buffer) + i
  /\ \A i \in 1..Len(batch) : batch[i] = batch[1] + i - 1
  /\ \A r \in logged, q \in Range(batch) \cup Range(buffer) : r < q
  /\ \A r \in Range(batch), q \in Range(buffer) : r < q

\* The records in memory.
Staged == Range(buffer) \cup Range(batch)

\* While the proxy runs no record goes astray, by identity and not only by
\* number: a row is deleted only past its retention, although prune has its
\* cutoff from before it waited for the lock; a row is added only for a record
\* of the batch; and the records that leave memory in a step without a row are
\* exactly as many as that step counts.
NoSilentLoss ==
  [][phase' # "opening" =>
       /\ \A r \in logged \ logged' : r <= expired
       /\ logged' \ logged \subseteq Range(batch)
       /\ Cardinality(Staged \ (Staged' \cup logged'))
            = (dropped' - dropped) + (cancelled' - cancelled)]_vars

\* "the store recovers automatically on the next successful write once space
\* is freed": retention alone, with no traffic, ends degraded mode.
Recovers ==
  ~<>[](phase = "running" /\ disk = "ok" /\ degraded)

=============================================================================
