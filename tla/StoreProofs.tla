---------------------------- MODULE StoreProofs ----------------------------
(***************************************************************************)
(* Proofs about Store, for any number of writers, any buffer size and any  *)
(* number of requests.                                                     *)
(***************************************************************************)
EXTENDS Store, FiniteSetTheorems, SequenceTheorems, TLAPS

\* One writer has at most one write in the queue for the lock; outside the
\* running phase nobody writes but the drain of the shutdown, alone.
Locking ==
  /\ \A i, j \in 1..Len(jobs) : jobs[i].by = jobs[j].by => i = j
  /\ phase \in {"opening", "reconciling", "stopping", "closed"} => jobs = <<>>
  /\ phase = "draining" => Len(jobs) = 1 /\ jobs[1].kind = "flush" /\ buffer = <<>>
  /\ phase = "closed" => buffer = <<>>

\* No record is taken or written before its request has completed.
Recorded ==
  /\ IsFiniteSet(logged)
  /\ \A r \in logged \cup Range(batch) : r <= completed

\* The account with what the shutdown has cancelled: it is exact at all times.
Accounts ==
  /\ completed = Len(buffer) + Len(batch) + Cardinality(logged) + pruned + dropped + cancelled
  /\ cancelled # 0 => phase \in {"stopping", "draining", "closed"}
  /\ phase = "closed" => completed = Cardinality(logged) + pruned + dropped + cancelled

StoreInv == StoreTypeOK /\ Locking /\ Recorded /\ Accounts /\ NewestStaged

-----------------------------------------------------------------------------
(* Records *)

\* The members of a sequence of records, by position.
LEMMA Members ==
  ASSUME NEW s \in Seq(Nat)
  PROVE  /\ \A x : x \in Range(s) <=> \E i \in 1..Len(s) : x = s[i]
         /\ Len(s) \in Nat
         /\ \A i \in 1..Len(s) : s[i] \in Nat /\ s[i] \in Range(s)
  BY LenProperties, ElementOfSeq DEF Range

LEMMA NoMembers == Range(<<>>) = {} /\ Len(<<>>) = 0 /\ <<>> \in Seq(Nat)
  <1>1. <<>> \in Seq(Nat) /\ Len(<<>>) = 0
    BY EmptySeq
  <1>2. \A x : x \in Range(<<>>) <=> \E i \in 1..Len(<<>>) : x = <<>>[i]
    BY <1>1, Members
  <1>3. QED BY <1>1, <1>2

\* Only the empty sequence has no records.
LEMMA NonEmpty ==
  ASSUME NEW s \in Seq(Nat)
  PROVE  s = <<>> <=> Len(s) = 0
  BY EmptySeq, LenProperties

\* A batch without a gap has as many records as its length says.
LEMMA ContiguousCount ==
  ASSUME NEW s \in Seq(Nat), NEW a, \A i \in 1..Len(s) : s[i] = a + i - 1, s # <<>> => a \in Int
  PROVE  IsFiniteSet(Range(s)) /\ Cardinality(Range(s)) = Len(s)
  <1>1. CASE s = <<>>
    BY <1>1, NoMembers, FS_EmptySet
  <1>2. CASE s # <<>>
    <2>1. Len(s) \in Nat \ {0} /\ a \in Int
      BY <1>2, EmptySeq
    <2>2. Range(s) = a..(a + Len(s) - 1)
      <3>1. \A x \in a..(a + Len(s) - 1) : x \in Range(s)
        <4> TAKE x \in a..(a + Len(s) - 1)
        <4>1. x - a + 1 \in 1..Len(s) /\ a + (x - a + 1) - 1 = x
          BY <2>1
        <4>2. s[x - a + 1] = x
          BY <4>1
        <4>3. QED BY <4>1, <4>2, Members
      <3>2. \A i \in 1..Len(s) : s[i] \in a..(a + Len(s) - 1)
        BY <2>1
      <3>3. Range(s) \subseteq a..(a + Len(s) - 1)
        BY <3>2, Members
      <3>4. QED BY <3>1, <3>3
    <2>3. QED BY <2>1, <2>2, FS_Interval
  <1>3. QED BY <1>1, <1>2

-----------------------------------------------------------------------------
(* The queue for the lock *)

\* A writer without a write in the queue may join it.
LEMMA Joined ==
  ASSUME NEW j \in Jobs, StoreTypeOK, Locking, ~Waiting(j.by), jobs' = Append(jobs, j)
  PROVE  /\ jobs' \in Seq(Jobs) /\ Len(jobs') = Len(jobs) + 1 /\ jobs' # <<>>
         /\ \A m, n \in 1..Len(jobs') : jobs'[m].by = jobs'[n].by => m = n
         /\ Waiting("flush")' <=> Waiting("flush") \/ j.by = "flush"
  <1>1. /\ jobs' \in Seq(Jobs) /\ Len(jobs') = Len(jobs) + 1 /\ Len(jobs) \in Nat /\ jobs' # <<>>
        /\ \A i \in 1..Len(jobs) : jobs'[i] = jobs[i]
        /\ jobs'[Len(jobs) + 1] = j
    BY AppendProperties, LenProperties DEF StoreTypeOK
  <1>2. \A m, n \in 1..Len(jobs') : jobs'[m].by = jobs'[n].by => m = n
    BY <1>1 DEF Waiting, Locking
  <1>3. Waiting("flush")' <=> Waiting("flush") \/ j.by = "flush"
    BY <1>1 DEF Waiting
  <1>4. QED BY <1>1, <1>2, <1>3

\* The holder of the lock leaves it.
LEMMA Left ==
  ASSUME StoreTypeOK, Locking, jobs # <<>>, jobs' = Tail(jobs)
  PROVE  /\ jobs' \in Seq(Jobs) /\ Len(jobs') = Len(jobs) - 1 /\ Len(jobs) \in Nat \ {0}
         /\ jobs[1] \in Jobs
         /\ \A m, n \in 1..Len(jobs') : jobs'[m].by = jobs'[n].by => m = n
         /\ Waiting("flush")' <=> Waiting("flush") /\ jobs[1].by # "flush"
         /\ jobs[1].by = "flush" => Waiting("flush")
  <1>1. /\ jobs' \in Seq(Jobs) /\ Len(jobs') = Len(jobs) - 1 /\ Len(jobs) \in Nat \ {0}
        /\ \A i \in 1..Len(jobs') : jobs'[i] = jobs[i + 1]
    BY HeadTailProperties, EmptySeq DEF StoreTypeOK
  <1>2. jobs[1] \in Jobs
    BY <1>1, ElementOfSeq DEF StoreTypeOK
  <1>3. \A m, n \in 1..Len(jobs') : jobs'[m].by = jobs'[n].by => m = n
    <2> SUFFICES ASSUME NEW m \in 1..Len(jobs'), NEW n \in 1..Len(jobs'),
                        jobs'[m].by = jobs'[n].by
                 PROVE  m = n
      OBVIOUS
    <2>1. m + 1 \in 1..Len(jobs) /\ n + 1 \in 1..Len(jobs) /\ jobs[m + 1].by = jobs[n + 1].by
      BY <1>1
    <2>2. m + 1 = n + 1
      BY <2>1 DEF Locking
    <2>3. QED BY <2>2, <1>1
  <1>4. Waiting("flush")' => Waiting("flush") /\ jobs[1].by # "flush"
    <2> SUFFICES ASSUME NEW i \in 1..Len(jobs'), jobs'[i].by = "flush"
                 PROVE  Waiting("flush") /\ jobs[1].by # "flush"
      BY DEF Waiting
    <2>1. i + 1 \in 1..Len(jobs) /\ 1 \in 1..Len(jobs) /\ i + 1 # 1 /\ jobs[i + 1].by = "flush"
      BY <1>1
    <2>2. QED BY <2>1 DEF Locking, Waiting
  <1>5. Waiting("flush") /\ jobs[1].by # "flush" => Waiting("flush")'
    <2> SUFFICES ASSUME NEW i \in 1..Len(jobs), jobs[i].by = "flush", jobs[1].by # "flush"
                 PROVE  \E k \in 1..Len(jobs') : jobs'[k].by = "flush"
      BY DEF Waiting
    <2>1. i - 1 \in 1..Len(jobs') /\ jobs'[i - 1] = jobs[i]
      BY <1>1
    <2>2. QED BY <2>1
  <1>6. jobs[1].by = "flush" => Waiting("flush")
    BY <1>1 DEF Waiting
  <1>7. QED BY <1>1, <1>2, <1>3, <1>4, <1>5, <1>6

\* The kind of a write says whose it is.
LEMMA JobKinds ==
  \A j \in Jobs : /\ j.kind \in {"flush", "prune", "server", "history"}
                  /\ j.kind = "flush" <=> j.by = "flush"
                  /\ j.kind = "prune" => j.cutoff \in Nat
                  /\ j.kind = "server" => j.value \in BOOLEAN
  BY StoreWriters DEF Jobs

-----------------------------------------------------------------------------
(* The rows *)

\* A flush adds a row for each record of its batch, and none twice.
LEMMA FlushAdds ==
  ASSUME StoreInv, logged' = logged \cup Range(batch)
  PROVE  /\ logged' \subseteq Nat /\ IsFiniteSet(logged')
         /\ Cardinality(logged') = Cardinality(logged) + Len(batch)
  <1>1. batch \in Seq(Nat) /\ logged \subseteq Nat /\ IsFiniteSet(logged)
    BY DEF StoreInv, StoreTypeOK, Recorded
  <1>2. IsFiniteSet(Range(batch)) /\ Cardinality(Range(batch)) = Len(batch)
    <2>1. batch # <<>> => batch[1] \in Int
      BY <1>1, EmptySeq, ElementOfSeq
    <2>2. \A i \in 1..Len(batch) : batch[i] = batch[1] + i - 1
      BY DEF StoreInv, NewestStaged
    <2>3. QED BY <1>1, <2>1, <2>2, ContiguousCount
  <1>3. Range(batch) \subseteq Nat
    BY <1>1, Members
  <1>4. logged \cap Range(batch) = {}
    <2>1. \A r \in logged, q \in Range(batch) : r < q /\ r \in Nat
      BY <1>1 DEF StoreInv, NewestStaged
    <2>2. QED BY <2>1
  <1>5. Cardinality(logged \cap Range(batch)) = 0
    BY <1>4, FS_EmptySet
  <1>6. Cardinality(logged) \in Nat /\ Len(batch) \in Nat
    BY <1>1, FS_CardinalityType, Members
  <1>7. /\ IsFiniteSet(logged \cup Range(batch))
        /\ Cardinality(logged \cup Range(batch))
             = Cardinality(logged) + Cardinality(Range(batch)) - Cardinality(logged \cap Range(batch))
    BY <1>1, <1>2, FS_Union
  <1>8. Cardinality(logged \cup Range(batch)) = Cardinality(logged) + Len(batch)
    BY <1>2, <1>5, <1>6, <1>7
  <1>9. logged' \subseteq Nat
    BY <1>1, <1>3
  <1>10. QED BY <1>7, <1>8, <1>9, Zenon

\* What retention deletes is as much as the table shrinks.
LEMMA PruneRemoves ==
  ASSUME StoreInv, NEW c, logged' = {r \in logged : r > c}
  PROVE  /\ logged' \subseteq logged /\ IsFiniteSet(logged')
         /\ Cardinality(logged) = Cardinality(logged') + Cardinality(logged \ logged')
         /\ Cardinality(logged) \in Nat /\ Cardinality(logged') \in Nat
         /\ Cardinality(logged \ logged') \in Nat
  <1>1. IsFiniteSet(logged) /\ logged' \subseteq logged /\ logged \ logged' \subseteq logged
    BY DEF StoreInv, Recorded
  <1>2. IsFiniteSet(logged') /\ IsFiniteSet(logged \ logged')
    BY <1>1, FS_Subset
  <1>3. logged = logged' \cup (logged \ logged') /\ logged' \cap (logged \ logged') = {}
    BY <1>1
  <1>4. Cardinality(logged' \cap (logged \ logged')) = 0
    BY <1>3, FS_EmptySet
  <1>5. /\ Cardinality(logged) \in Nat /\ Cardinality(logged') \in Nat
        /\ Cardinality(logged \ logged') \in Nat
    BY <1>1, <1>2, FS_CardinalityType
  <1>6. Cardinality(logged' \cup (logged \ logged'))
          = Cardinality(logged') + Cardinality(logged \ logged')
            - Cardinality(logged' \cap (logged \ logged'))
    BY <1>2, FS_Union
  <1>7. QED BY <1>1, <1>2, <1>3, <1>4, <1>5, <1>6

-----------------------------------------------------------------------------
(* The steps *)

\* The terms of the accounting, with what staging changes put first.
LEMMA Regroup ==
  ASSUME NEW a \in Nat, NEW b \in Nat, NEW c \in Nat, NEW d \in Nat, NEW e \in Nat, NEW f \in Nat
  PROVE  /\ a + b + c + d + e + f = (a + e) + (b + c + d + f)
         /\ b + c + d + f \in Nat
  OBVIOUS

\* A batch that is written, dropped or cancelled, and rows that are pruned,
\* move from one term of the accounting to another.
LEMMA Moves ==
  ASSUME NEW a \in Nat, NEW b \in Nat, NEW c \in Nat, NEW d \in Nat, NEW e \in Nat, NEW f \in Nat
  PROVE  /\ a + 0 + (c + b) + d + e + f = a + b + c + d + e + f
         /\ a + 0 + c + d + (e + b) + f = a + b + c + d + e + f
         /\ a + 0 + c + d + e + b = a + b + c + d + e + 0
  OBVIOUS

LEMMA Deletes ==
  ASSUME NEW a \in Nat, NEW b \in Nat, NEW c \in Nat, NEW d \in Nat, NEW e \in Nat, NEW f \in Nat,
         NEW x \in Nat
  PROVE  a + b + c + (d + x) + e + f = a + b + (c + x) + d + e + f
  OBVIOUS

LEMMA DeletesAndCancels ==
  ASSUME NEW a \in Nat, NEW b \in Nat, NEW c \in Nat, NEW d \in Nat, NEW e \in Nat, NEW x \in Nat
  PROVE  a + 0 + c + (d + x) + e + b = a + b + (c + x) + d + e + 0
  OBVIOUS

\* The numbers the accounting adds up.
LEMMA Counts ==
  ASSUME StoreInv
  PROVE  /\ Len(buffer) \in Nat /\ Len(batch) \in Nat /\ Cardinality(logged) \in Nat
         /\ dropped \in Nat /\ pruned \in Nat /\ cancelled \in Nat /\ completed \in Nat
  BY FS_CardinalityType, LenProperties DEF StoreInv, StoreTypeOK, Recorded

\* When the store closes there is nothing staged left to account for.
LEMMA ClosedAccounts ==
  ASSUME StoreTypeOK', Locking', IsFiniteSet(logged'),
         (completed = Len(buffer) + Len(batch) + Cardinality(logged) + pruned + dropped + cancelled)',
         (cancelled # 0 => phase \in {"stopping", "draining", "closed"})'
  PROVE  Accounts'
  <1>1. SUFFICES ASSUME phase' = "closed"
                 PROVE  (completed = Cardinality(logged) + pruned + dropped + cancelled)'
    BY DEF Accounts
  <1>2. jobs' = <<>> /\ buffer' = <<>> /\ Len(jobs') = 0
    BY <1>1, EmptySeq DEF Locking
  <1>3. batch' = <<>>
    BY <1>2 DEF StoreTypeOK, Waiting
  <1>4. Len(buffer') = 0 /\ Len(batch') = 0 /\ Cardinality(logged') \in Nat
    BY <1>2, <1>3, NoMembers, FS_CardinalityType
  <1>5. QED BY <1>4 DEF StoreTypeOK

LEMMA StoreInit == Init => StoreInv
  <1> SUFFICES ASSUME Init PROVE StoreInv
    OBVIOUS
  <1>1. /\ buffer = <<>> /\ batch = <<>> /\ jobs = <<>> /\ logged = {}
        /\ Len(buffer) = 0 /\ Len(batch) = 0 /\ Len(jobs) = 0
        /\ Range(buffer) = {} /\ Range(batch) = {}
        /\ buffer \in Seq(Nat) /\ jobs \in Seq(Jobs)
        /\ IsFiniteSet(logged) /\ Cardinality(logged) = 0
    BY NoMembers, FS_EmptySet, EmptySeq DEF Init
  <1>2. /\ phase = "opening" /\ disk \in {"ok", "full"} /\ degraded \in BOOLEAN /\ owned \in BOOLEAN
        /\ hasRow \in BOOLEAN /\ row \in BOOLEAN
    BY Zenon DEF Init
  <1>3. StoreTypeOK
    <2>1. ~(batch # <<>>) /\ ~Waiting("flush")
      BY <1>1 DEF Waiting
    <2>2. /\ dropped \in Nat /\ completed \in Nat /\ expired \in Nat /\ pruned \in Nat
          /\ cancelled \in Nat /\ logged \subseteq Nat
          /\ Len(buffer) <= BufferMax /\ Len(batch) <= BufferMax
          /\ buffer \in Seq(Nat) /\ batch \in Seq(Nat) /\ jobs \in Seq(Jobs)
      BY <1>1, StoreBounds DEF Init
    <2>3. QED BY <1>2, <2>1, <2>2, Zenon DEF StoreTypeOK
  <1>4. Locking /\ Recorded
    BY <1>1 DEF Init, Locking, Recorded
  <1>5. Accounts /\ NewestStaged
    BY <1>1 DEF Init, Accounts, NewestStaged
  <1>6. QED BY <1>3, <1>4, <1>5 DEF StoreInv

\* Steps that touch no record and no queue: startup, and the world.
LEMMA Aside ==
  ASSUME StoreInv, UNCHANGED <<staging, jobs, logged, completed, pruned, cancelled>>,
         phase' = phase \/ (phase # "running" /\ phase' \in {"reconciling", "running"}),
         phase # "draining" \/ phase' = phase, phase # "stopping" \/ phase' = phase,
         phase # "closed" \/ phase' = phase,
         disk' \in {"ok", "full"}, degraded' \in BOOLEAN, owned' \in BOOLEAN,
         hasRow' \in BOOLEAN, row' \in BOOLEAN, expired' \in Nat
  PROVE  StoreInv'
  <1>1. StoreTypeOK'
    BY DEF StoreInv, StoreTypeOK, Waiting, staging
  <1>2. Locking' /\ Recorded'
    BY DEF StoreInv, StoreTypeOK, Locking, Recorded, staging
  <1>3. Accounts' /\ NewestStaged'
    BY DEF StoreInv, StoreTypeOK, Accounts, NewestStaged, staging
  <1>4. QED BY <1>1, <1>2, <1>3 DEF StoreInv

\* A writer other than the flusher joins the queue for the lock.
LEMMA Queues ==
  ASSUME StoreInv, NEW j \in Jobs, j.by # "flush", ~Waiting(j.by), phase = "running",
         jobs' = Append(jobs, j), owned' \in BOOLEAN,
         UNCHANGED <<phase, disk, staging, degraded, tables, history>>
  PROVE  StoreInv'
  <1>1. /\ jobs' \in Seq(Jobs) /\ Waiting("flush")' <=> Waiting("flush")
        /\ \A m, n \in 1..Len(jobs') : jobs'[m].by = jobs'[n].by => m = n
    BY Joined DEF StoreInv
  <1>2. StoreTypeOK'
    BY <1>1 DEF StoreInv, StoreTypeOK, staging, tables, history
  <1>3. Locking' /\ Recorded'
    BY <1>1 DEF StoreInv, Locking, Recorded, staging, tables, history
  <1>4. Accounts' /\ NewestStaged'
    BY DEF StoreInv, Accounts, NewestStaged, staging, tables, history
  <1>5. QED BY <1>2, <1>3, <1>4 DEF StoreInv

\* A completed request is staged; the oldest staged record makes room for it.
LEMMA EnqueueStep == StoreInv /\ EnqueueRequest => StoreInv'
  <1> SUFFICES ASSUME StoreInv, EnqueueRequest PROVE StoreInv'
    OBVIOUS
  <1> DEFINE kept == IF Len(buffer) >= BufferMax THEN Tail(buffer) ELSE buffer
  <1>1. /\ buffer \in Seq(Nat) /\ Len(buffer) <= BufferMax /\ completed' = completed + 1
        /\ completed' \in Nat /\ BufferMax \in Nat \ {0}
    BY Counts, StoreBounds DEF StoreInv, StoreTypeOK, EnqueueRequest
  <1>2. /\ kept \in Seq(Nat) /\ Len(kept) \in Nat /\ Len(kept) < BufferMax
        /\ \A i \in 1..Len(kept) : kept[i] = completed - Len(kept) + i
        /\ Len(kept) + dropped' = Len(buffer) + dropped /\ dropped' \in Nat
    <2>1. CASE Len(buffer) >= BufferMax
      <3>1. buffer # <<>> /\ kept = Tail(buffer)
        BY <1>1, <2>1, NonEmpty
      <3>2. /\ kept \in Seq(Nat) /\ Len(kept) = Len(buffer) - 1
            /\ \A i \in 1..Len(kept) : kept[i] = buffer[i + 1]
        BY <1>1, <3>1, HeadTailProperties
      <3>3. \A i \in 1..Len(kept) : i + 1 \in 1..Len(buffer)
        BY <3>2, Counts
      <3>4. \A i \in 1..Len(kept) : kept[i] = completed - Len(kept) + i
        BY <3>2, <3>3, Counts DEF StoreInv, NewestStaged
      <3>5. dropped' = dropped + 1
        BY <2>1 DEF EnqueueRequest
      <3>6. Len(buffer) \in Nat \ {0}
        BY <1>1, <3>1, EmptySeq
      <3>7. /\ Len(kept) \in Nat /\ Len(kept) < BufferMax
            /\ Len(kept) + dropped' = Len(buffer) + dropped /\ dropped' \in Nat
        BY <1>1, <3>2, <3>5, <3>6, Counts
      <3>8. QED BY <3>2, <3>4, <3>7
    <2>2. CASE ~(Len(buffer) >= BufferMax)
      <3>1. kept = buffer /\ dropped' = dropped
        BY <2>2 DEF EnqueueRequest
      <3>2. \A i \in 1..Len(kept) : kept[i] = completed - Len(kept) + i
        BY <3>1 DEF StoreInv, NewestStaged
      <3>3. QED BY <1>1, <2>2, <3>1, <3>2, Counts
    <2>3. QED BY <2>1, <2>2
  <1>3. buffer' = Append(kept, completed')
    BY DEF EnqueueRequest
  <1> HIDE DEF kept
  <1>4. /\ buffer' \in Seq(Nat) /\ Len(buffer') = Len(kept) + 1
        /\ \A i \in 1..Len(kept) : buffer'[i] = kept[i]
        /\ buffer'[Len(kept) + 1] = completed'
    BY <1>1, <1>2, <1>3, AppendProperties
  <1>5. \A i \in 1..Len(buffer') : buffer'[i] = completed' - Len(buffer') + i
    <2> TAKE i \in 1..Len(buffer')
    <2>1. CASE i \in 1..Len(kept)
      <3>1. buffer'[i] = completed - Len(kept) + i
        BY <1>2, <1>4, <2>1
      <3>2. /\ completed \in Nat /\ completed' = completed + 1 /\ Len(kept) \in Nat
            /\ Len(buffer') = Len(kept) + 1
        BY <1>1, <1>2, <1>4, Counts
      <3>3. QED BY <3>1, <3>2
    <2>2. CASE i = Len(kept) + 1
      BY <1>1, <1>2, <1>4, <2>2
    <2>3. QED BY <1>2, <1>4, <2>1, <2>2
  <1>6. \A q \in Range(buffer') : q \in Range(buffer) \/ q = completed'
    <2> SUFFICES ASSUME NEW i \in 1..Len(buffer')
                 PROVE  buffer'[i] \in Range(buffer) \/ buffer'[i] = completed'
      BY <1>4, Members
    <2>1. CASE i \in 1..Len(kept)
      <3>1. kept[i] \in Range(kept)
        BY <1>2, <2>1, Members
      <3>2. Range(kept) \subseteq Range(buffer)
        <4>1. CASE Len(buffer) >= BufferMax
          <5>1. buffer # <<>> /\ kept = Tail(buffer)
            BY <1>1, <4>1, NonEmpty DEF kept
          <5>2. /\ Len(kept) = Len(buffer) - 1
                /\ \A k \in 1..Len(kept) : kept[k] = buffer[k + 1] /\ k + 1 \in 1..Len(buffer)
            BY <1>1, <5>1, HeadTailProperties, Counts
          <5>3. \A x \in Range(kept) : \E k \in 1..Len(kept) : x = kept[k]
            BY <1>2, Members
          <5>4. \A k \in 1..Len(buffer) : buffer[k] \in Range(buffer)
            BY <1>1, Members
          <5>5. QED BY <5>2, <5>3, <5>4
        <4>2. CASE ~(Len(buffer) >= BufferMax)
          BY <4>2 DEF kept
        <4>3. QED BY <4>1, <4>2
      <3>3. QED BY <1>4, <2>1, <3>1, <3>2
    <2>2. CASE i = Len(kept) + 1
      BY <1>4, <2>2
    <2>3. QED BY <1>2, <1>4, <2>1, <2>2
  <1>7. /\ UNCHANGED <<phase, disk, batch, degraded, owned, jobs, logged, hasRow, row>>
        /\ UNCHANGED <<expired, pruned, cancelled>>
    BY DEF EnqueueRequest, tables
  <1>8. StoreTypeOK'
    <2>1. /\ phase \in {"opening", "reconciling", "running", "stopping", "draining", "closed"}
          /\ disk \in {"ok", "full"} /\ degraded \in BOOLEAN /\ owned \in BOOLEAN
          /\ hasRow \in BOOLEAN /\ row \in BOOLEAN /\ logged \subseteq Nat
          /\ batch \in Seq(Nat) /\ Len(batch) <= BufferMax /\ jobs \in Seq(Jobs)
          /\ expired \in Nat /\ pruned \in Nat /\ cancelled \in Nat
          /\ batch # <<>> <=> Waiting("flush")
      BY DEF StoreInv, StoreTypeOK
    <2>2. Waiting("flush")' <=> Waiting("flush")
      BY <1>7 DEF Waiting
    <2>3. Len(buffer') <= BufferMax
      BY <1>1, <1>2, <1>4
    <2>4. QED BY <1>1, <1>2, <1>4, <1>7, <2>1, <2>2, <2>3, Zenon DEF StoreTypeOK
  <1>9. Locking'
    BY <1>7 DEF StoreInv, Locking, EnqueueRequest
  <1>10. Recorded' /\ \A r \in logged \cup Range(batch) : r < completed'
    BY <1>1, <1>7, Counts, Members DEF StoreInv, StoreTypeOK, Recorded
  <1>11. Accounts'
    <2>1. phase = "running" /\ cancelled = 0
          /\ completed = Len(buffer) + Len(batch) + Cardinality(logged) + pruned + dropped + cancelled
      BY DEF StoreInv, Accounts, EnqueueRequest
    <2>2. completed' = Len(buffer') + Len(batch') + Cardinality(logged') + pruned' + dropped' + cancelled'
      <3>1. /\ Len(kept) \in Nat /\ Len(kept) + dropped' = Len(buffer) + dropped /\ dropped' \in Nat
            /\ completed' = completed + 1 /\ Len(buffer') = Len(kept) + 1
        BY <1>1, <1>2, <1>4
      <3>2. /\ Len(batch') = Len(batch) /\ Cardinality(logged') = Cardinality(logged)
            /\ pruned' = pruned /\ cancelled' = cancelled
        BY <1>7
      <3>3. /\ completed = Len(buffer) + Len(batch) + Cardinality(logged) + pruned + dropped + cancelled
            /\ Len(buffer) \in Nat /\ Len(batch) \in Nat /\ Cardinality(logged) \in Nat
            /\ dropped \in Nat /\ pruned \in Nat /\ cancelled \in Nat
        BY <2>1, Counts
      <3>4. completed' = Len(buffer') + Len(batch) + Cardinality(logged) + pruned + dropped' + cancelled
        <4> DEFINE rest == Len(batch) + Cardinality(logged) + pruned + cancelled
        <4>1. rest \in Nat /\ completed = (Len(buffer) + dropped) + rest
          BY <3>3, Regroup
        <4>2. /\ Len(buffer') \in Nat /\ dropped' \in Nat /\ Len(buffer) \in Nat /\ dropped \in Nat
              /\ Len(batch) \in Nat /\ Cardinality(logged) \in Nat /\ pruned \in Nat /\ cancelled \in Nat
          BY <3>1, <3>3
        <4>3. Len(buffer') + Len(batch) + Cardinality(logged) + pruned + dropped' + cancelled
                = (Len(buffer') + dropped') + rest
          BY ONLY <4>2, Regroup
        <4> HIDE DEF rest
        <4>4. completed' = (Len(buffer') + dropped') + rest
          <5>1. Len(buffer') + dropped' = (Len(kept) + dropped') + 1
            BY ONLY <3>1, <4>2
          <5>2. (Len(kept) + dropped') + rest + 1 = ((Len(kept) + dropped') + 1) + rest
            BY ONLY <3>1, <4>1, <4>2
          <5>3. completed' = (Len(kept) + dropped') + rest + 1
            BY ONLY <3>1, <4>1, <4>2
          <5>4. QED BY ONLY <5>1, <5>2, <5>3
        <4>5. QED BY <4>3, <4>4
      <3>5. QED BY <3>2, <3>4
    <2>3. QED BY <1>7, <2>1, <2>2 DEF Accounts
  <1>12. NewestStaged'
    BY <1>5, <1>6, <1>7, <1>10 DEF StoreInv, NewestStaged
  <1>13. QED BY <1>8, <1>9, <1>10, <1>11, <1>12 DEF StoreInv

\* flush_requests swaps the buffer: the batch is what was the buffer.
LEMMA TakeStep ==
  ASSUME StoreInv, TakeBatch, ~Waiting("flush"), buffer # <<>>,
         phase = "running" \/ jobs = <<>>,
         \/ phase' = "running" /\ phase = "running"
         \/ phase' = "draining" /\ phase = "stopping",
         UNCHANGED <<disk, dropped, degraded, owned, tables, history>>
  PROVE  StoreInv'
  <1> DEFINE j == [by |-> "flush", kind |-> "flush"]
  <1>1. j \in Jobs /\ j.by = "flush" /\ j.kind = "flush"
    BY DEF Jobs
  <1>2. jobs' = Append(jobs, j) /\ batch' = buffer /\ buffer' = <<>>
    BY DEF TakeBatch
  <1>3. /\ jobs' \in Seq(Jobs) /\ Len(jobs') = Len(jobs) + 1 /\ jobs' # <<>>
        /\ \A m, n \in 1..Len(jobs') : jobs'[m].by = jobs'[n].by => m = n
        /\ Waiting("flush")'
    BY <1>1, <1>2, Joined DEF StoreInv
  <1>4. batch = <<>> /\ Len(batch) = 0 /\ Len(buffer') = 0 /\ Range(buffer') = {}
        /\ buffer' \in Seq(Nat)
    BY <1>2, NoMembers DEF StoreInv, StoreTypeOK
  <1>5. /\ UNCHANGED <<disk, dropped, degraded, owned, logged, hasRow, row>>
        /\ UNCHANGED <<completed, expired, pruned, cancelled>>
    BY DEF tables, history
  <1>6. /\ buffer \in Seq(Nat) /\ Len(buffer) \in Nat \ {0}
        /\ \A i \in 1..Len(buffer) : buffer[i] = completed - Len(buffer) + i
    BY EmptySeq DEF StoreInv, StoreTypeOK, NewestStaged
  <1>7. phase' \in {"running", "draining"} /\ (phase' = "draining" => jobs = <<>>)
    OBVIOUS
  <1>8. StoreTypeOK'
    BY <1>2, <1>3, <1>4, <1>5, <1>6, <1>7, StoreBounds DEF StoreInv, StoreTypeOK
  <1>9. Locking'
    <2>1. ASSUME jobs = <<>> PROVE Len(jobs') = 1 /\ jobs'[1].kind = "flush"
      <3>1. Len(jobs) = 0
        BY <2>1, EmptySeq
      <3>2. jobs'[Len(jobs) + 1] = j
        BY <1>1, <1>2, AppendProperties DEF StoreInv, StoreTypeOK
      <3>3. QED BY <1>1, <1>3, <3>1, <3>2
    <2>2. QED BY <1>2, <1>3, <1>7, <2>1 DEF Locking
  <1>10. \A r \in Range(buffer) : r <= completed
    <2>1. \A i \in 1..Len(buffer) : buffer[i] <= completed
      BY <1>6, Counts
    <2>2. QED BY <1>6, <2>1, Members
  <1>11. Recorded'
    BY <1>2, <1>5, <1>10 DEF StoreInv, Recorded
  <1>12. Accounts'
    BY <1>2, <1>4, <1>5, <1>6, <1>7, Counts DEF StoreInv, Accounts
  <1>13. NewestStaged'
    <2>1. \A i \in 1..Len(batch') : batch'[i] = batch'[1] + i - 1
      <3>1. buffer[1] = completed - Len(buffer) + 1
        BY <1>6
      <3>2. completed \in Nat /\ Len(buffer) \in Nat
        BY Counts
      <3>3. ASSUME NEW i \in 1..Len(buffer) PROVE buffer[i] = buffer[1] + i - 1
        <4>1. buffer[i] = completed - Len(buffer) + i
          BY <1>6
        <4>2. QED BY <3>1, <3>2, <4>1
      <3>4. QED BY <1>2, <3>3
    <2>2. QED BY <1>2, <1>4, <1>5, <2>1 DEF StoreInv, NewestStaged
  <1>14. QED BY <1>8, <1>9, <1>11, <1>12, <1>13 DEF StoreInv

LEMMA FlushStep == StoreInv /\ Flush => StoreInv'
  BY TakeStep DEF Flush

\* The end of a write: the queue moves up, and the flusher's batch is gone.
LEMMA UnlockFacts ==
  ASSUME StoreInv, jobs # <<>>, Unlock, UNCHANGED <<disk, buffer, completed, expired, cancelled, hasRow>>
  PROVE  /\ Locking' /\ jobs[1] \in Jobs /\ jobs' \in Seq(Jobs)
         /\ jobs[1].kind = "flush" => batch' = <<>>
         /\ jobs[1].kind # "flush" => batch' = batch /\ phase' = phase
         /\ phase' = phase \/ (phase' = "closed" /\ phase = "draining" /\ buffer = <<>>)
         /\ phase \in {"running", "draining"} /\ phase' \in {"running", "draining", "closed"}
         /\ batch' \in Seq(Nat) /\ Len(batch') <= BufferMax
         /\ batch' # <<>> <=> Waiting("flush")'
  <1>1. /\ jobs' \in Seq(Jobs) /\ Len(jobs') = Len(jobs) - 1 /\ Len(jobs) \in Nat \ {0}
        /\ jobs[1] \in Jobs
        /\ \A m, n \in 1..Len(jobs') : jobs'[m].by = jobs'[n].by => m = n
        /\ Waiting("flush")' <=> Waiting("flush") /\ jobs[1].by # "flush"
        /\ jobs[1].by = "flush" => Waiting("flush")
    BY Left DEF StoreInv, Unlock
  <1>2. phase \in {"running", "draining"}
    BY DEF StoreInv, StoreTypeOK, Locking
  <1>3. /\ jobs[1].kind = "flush" => batch' = <<>>
        /\ jobs[1].kind # "flush" => batch' = batch /\ phase' = phase
        /\ phase' = phase \/ (phase' = "closed" /\ phase = "draining" /\ buffer = <<>>)
        /\ phase' = "draining" => phase = "draining" /\ jobs[1].kind # "flush"
    BY DEF StoreInv, Locking, Unlock
  <1>4. phase' # "draining"
    BY <1>3 DEF StoreInv, Locking
  <1>5. phase' = "closed" => jobs' = <<>>
    <2>1. phase' = "closed" => Len(jobs') = 0
      BY <1>1, <1>2, <1>3 DEF StoreInv, Locking
    <2>2. QED BY <1>1, <2>1, EmptySeq
  <1>6. Locking'
    BY <1>1, <1>2, <1>3, <1>4, <1>5 DEF Locking
  <1>7. batch' \in Seq(Nat) /\ Len(batch') <= BufferMax
    <2>1. batch' = batch \/ batch' = <<>>
      BY <1>3
    <2>2. batch \in Seq(Nat) /\ Len(batch) <= BufferMax /\ 0 <= BufferMax
      BY StoreBounds DEF StoreInv, StoreTypeOK
    <2>3. QED BY <2>1, <2>2, NoMembers
  <1>8. jobs[1].kind = "flush" <=> jobs[1].by = "flush"
    BY <1>1, JobKinds
  <1>9. batch' # <<>> <=> Waiting("flush")'
    BY <1>1, <1>3, <1>8 DEF StoreInv, StoreTypeOK
  <1>10. QED BY <1>1, <1>2, <1>3, <1>6, <1>7, <1>9

\* The order of the records survives a step that takes rows or the batch away.
LEMMA OrderKept ==
  ASSUME StoreInv, logged' \subseteq logged, batch' = batch \/ batch' = <<>>,
         UNCHANGED <<buffer, completed>>
  PROVE  Recorded' /\ NewestStaged'
  <1>1. Range(batch') \subseteq Range(batch)
    BY NoMembers
  <1>2. \A i \in 1..Len(batch') : batch'[i] = batch'[1] + i - 1
    BY NoMembers DEF StoreInv, NewestStaged
  <1>3. IsFiniteSet(logged')
    BY FS_Subset DEF StoreInv, Recorded
  <1>4. Recorded'
    BY <1>1, <1>3 DEF StoreInv, Recorded
  <1>5. NewestStaged'
    BY <1>1, <1>2 DEF StoreInv, NewestStaged
  <1>6. QED BY <1>4, <1>5

\* The order of the records when the batch is written.
LEMMA OrderFlushed ==
  ASSUME StoreInv, logged' = logged \cup Range(batch), batch' = <<>>, UNCHANGED <<buffer, completed>>
  PROVE  Recorded' /\ NewestStaged'
  <1>1. Range(batch') = {} /\ Len(batch') = 0
    BY NoMembers
  <1>2. IsFiniteSet(logged')
    BY FlushAdds
  <1>3. Recorded'
    BY <1>1, <1>2 DEF StoreInv, Recorded
  <1>4. NewestStaged'
    BY <1>1 DEF StoreInv, NewestStaged
  <1>5. QED BY <1>3, <1>4

LEMMA FailStep == StoreInv /\ Fail => StoreInv'
  <1> SUFFICES ASSUME StoreInv, Fail PROVE StoreInv'
    OBVIOUS
  <1>1. /\ jobs # <<>> /\ Unlock /\ degraded' = TRUE
        /\ dropped' = dropped + (IF jobs[1].kind = "flush" THEN Len(batch) ELSE 0)
        /\ UNCHANGED <<disk, buffer, owned, logged, hasRow, row>>
        /\ UNCHANGED <<completed, expired, pruned, cancelled>>
    BY DEF Fail, tables, history
  <1>2. /\ Locking' /\ jobs' \in Seq(Jobs)
        /\ jobs[1].kind = "flush" => batch' = <<>>
        /\ jobs[1].kind # "flush" => batch' = batch /\ phase' = phase
        /\ phase \in {"running", "draining"} /\ phase' \in {"running", "draining", "closed"}
        /\ phase' = phase \/ phase' = "closed"
        /\ batch' \in Seq(Nat) /\ Len(batch') <= BufferMax
        /\ batch' # <<>> <=> Waiting("flush")'
    BY <1>1, UnlockFacts
  <1>3. dropped' \in Nat
    BY <1>1, Counts
  <1>4. StoreTypeOK'
    BY <1>1, <1>2, <1>3 DEF StoreInv, StoreTypeOK
  <1>5. Recorded' /\ NewestStaged'
    BY <1>1, <1>2, OrderKept
  <1>6. completed = Len(buffer) + Len(batch') + Cardinality(logged) + pruned + dropped' + cancelled
    <2>1. completed = Len(buffer) + Len(batch) + Cardinality(logged) + pruned + dropped + cancelled
      BY DEF StoreInv, Accounts
    <2>2. CASE jobs[1].kind = "flush"
      <3>1. Len(batch') = 0 /\ dropped' = dropped + Len(batch)
        BY <1>1, <1>2, <2>2, NoMembers
      <3>2. QED BY <2>1, <3>1, Counts, Moves
    <2>3. CASE jobs[1].kind # "flush"
      <3>1. batch' = batch /\ dropped' = dropped
        BY <1>1, <1>2, <2>3, Counts
      <3>2. QED BY <2>1, <3>1, Zenon
    <2>4. QED BY <2>2, <2>3
  <1>7. Accounts'
    <2>1. cancelled # 0 => phase \in {"stopping", "draining", "closed"}
      BY DEF StoreInv, Accounts
    <2>2. IsFiniteSet(logged') /\ (cancelled' # 0 => phase' \in {"stopping", "draining", "closed"})
      BY <1>1, <1>2, <2>1 DEF StoreInv, Recorded
    <2>3. QED BY <1>1, <1>2, <1>4, <1>6, <2>2, ClosedAccounts
  <1>8. QED BY <1>2, <1>4, <1>5, <1>7 DEF StoreInv

\* What the transaction of the lock holder does to the rows, and to the count.
LEMMA CommitFacts ==
  ASSUME StoreInv, CommitRows, UNCHANGED <<hasRow>>
  PROVE  /\ logged' \subseteq Nat /\ IsFiniteSet(logged') /\ pruned' \in Nat /\ row' \in BOOLEAN
         /\ jobs # <<>>
         /\ \/ /\ jobs[1].kind = "flush" /\ logged' = logged \cup Range(batch) /\ pruned' = pruned
               /\ Cardinality(logged') = Cardinality(logged) + Len(batch)
            \/ /\ jobs[1].kind # "flush" /\ logged' \subseteq logged
               /\ \E x \in Nat : /\ Cardinality(logged) = Cardinality(logged') + x
                                 /\ Cardinality(logged') \in Nat
                                 /\ pruned' = pruned + x
  <1>1. jobs # <<>> /\ (FlushRows \/ PruneRows \/ StateRows)
    BY DEF CommitRows
  <1>2. jobs[1] \in Jobs
    <2>1. Len(jobs) \in Nat \ {0}
      BY <1>1, EmptySeq DEF StoreInv, StoreTypeOK
    <2>2. 1 \in 1..Len(jobs)
      BY <2>1
    <2>3. QED BY <2>2, ElementOfSeq DEF StoreInv, StoreTypeOK
  <1>3. logged \subseteq Nat /\ IsFiniteSet(logged) /\ pruned \in Nat /\ row \in BOOLEAN
    BY DEF StoreInv, StoreTypeOK, Recorded
  <1>4. CASE FlushRows
    BY <1>1, <1>3, <1>4, FlushAdds DEF FlushRows
  <1>5. CASE PruneRows
    <2>1. /\ logged' = {r \in logged : r > jobs[1].cutoff} /\ row' = row
          /\ pruned' = pruned + Cardinality(logged \ logged') /\ jobs[1].kind # "flush"
      BY <1>5 DEF PruneRows
    <2>2. /\ logged' \subseteq logged /\ IsFiniteSet(logged')
          /\ Cardinality(logged) = Cardinality(logged') + Cardinality(logged \ logged')
          /\ Cardinality(logged') \in Nat /\ Cardinality(logged \ logged') \in Nat
      BY <2>1, PruneRemoves
    <2>3. logged' \subseteq Nat /\ pruned' \in Nat /\ row' \in BOOLEAN
      <3>1. row' \in BOOLEAN
        BY <1>3, <2>1, Zenon
      <3>2. pruned' \in Nat
        BY <1>3, <2>1, <2>2
      <3>3. logged' \subseteq Nat
        BY <1>3, <2>2
      <3>4. QED BY <3>1, <3>2, <3>3
    <2>4. QED BY <1>1, <2>1, <2>2, <2>3
  <1>6. CASE StateRows
    <2>1. logged' = logged /\ pruned' = pruned /\ jobs[1].kind # "flush"
      BY <1>6 DEF StateRows
    <2>2. row' \in BOOLEAN
      <3>1. jobs[1].kind = "server" => jobs[1].value \in BOOLEAN
        BY <1>2, JobKinds
      <3>2. QED BY <1>3, <1>6, <3>1, Zenon DEF StateRows
    <2>3. Cardinality(logged) \in Nat /\ Cardinality(logged) = Cardinality(logged) + 0
          /\ pruned = pruned + 0
      BY <1>3, FS_CardinalityType
    <2>4. QED BY <1>1, <1>3, <2>1, <2>2, <2>3
  <1>7. QED BY <1>1, <1>4, <1>5, <1>6

LEMMA CommitStep == StoreInv /\ Commit => StoreInv'
  <1> SUFFICES ASSUME StoreInv, Commit PROVE StoreInv'
    OBVIOUS
  <1>1. /\ CommitRows /\ Unlock /\ degraded' = FALSE
        /\ UNCHANGED <<disk, buffer, dropped, owned, hasRow, completed, expired, cancelled>>
    BY DEF Commit
  <1>2. /\ logged' \subseteq Nat /\ IsFiniteSet(logged') /\ pruned' \in Nat /\ row' \in BOOLEAN
        /\ jobs # <<>>
    BY <1>1, CommitFacts
  <1>3. /\ Locking' /\ jobs' \in Seq(Jobs)
        /\ jobs[1].kind = "flush" => batch' = <<>>
        /\ jobs[1].kind # "flush" => batch' = batch /\ phase' = phase
        /\ phase \in {"running", "draining"} /\ phase' \in {"running", "draining", "closed"}
        /\ phase' = phase \/ phase' = "closed"
        /\ batch' \in Seq(Nat) /\ Len(batch') <= BufferMax
        /\ batch' # <<>> <=> Waiting("flush")'
    BY <1>1, <1>2, UnlockFacts
  <1>4. StoreTypeOK'
    BY <1>1, <1>2, <1>3 DEF StoreInv, StoreTypeOK
  <1>5. completed = Len(buffer) + Len(batch) + Cardinality(logged) + pruned + dropped + cancelled
    BY DEF StoreInv, Accounts
  <1>6. /\ Recorded' /\ NewestStaged'
        /\ completed = Len(buffer) + Len(batch') + Cardinality(logged') + pruned' + dropped + cancelled
    <2>1. CASE /\ jobs[1].kind = "flush" /\ logged' = logged \cup Range(batch) /\ pruned' = pruned
               /\ Cardinality(logged') = Cardinality(logged) + Len(batch)
      <3>1. batch' = <<>> /\ Len(batch') = 0
        BY <1>3, <2>1, NoMembers
      <3>2. Recorded' /\ NewestStaged'
        BY <1>1, <2>1, <3>1, OrderFlushed
      <3>3. completed = Len(buffer) + Len(batch') + Cardinality(logged') + pruned' + dropped + cancelled
        BY <1>5, <2>1, <3>1, Counts, Moves
      <3>4. QED BY <3>2, <3>3
    <2>2. CASE /\ jobs[1].kind # "flush" /\ logged' \subseteq logged
               /\ \E x \in Nat : /\ Cardinality(logged) = Cardinality(logged') + x
                                 /\ Cardinality(logged') \in Nat
                                 /\ pruned' = pruned + x
      <3>1. Recorded' /\ NewestStaged'
        BY <1>1, <1>3, <2>2, OrderKept
      <3>2. PICK x \in Nat : /\ Cardinality(logged) = Cardinality(logged') + x
                             /\ Cardinality(logged') \in Nat
                             /\ pruned' = pruned + x
        BY <2>2
      <3>3. completed = Len(buffer) + Len(batch) + Cardinality(logged') + (pruned + x) + dropped + cancelled
        BY <1>5, <3>2, Counts, Deletes
      <3>4. QED BY <1>3, <2>2, <3>1, <3>2, <3>3
    <2>3. QED BY <1>1, <2>1, <2>2, CommitFacts
  <1>7. Accounts'
    <2>1. cancelled # 0 => phase \in {"stopping", "draining", "closed"}
      BY DEF StoreInv, Accounts
    <2>2. cancelled' # 0 => phase' \in {"stopping", "draining", "closed"}
      BY <1>1, <1>3, <2>1
    <2>3. QED BY <1>1, <1>2, <1>3, <1>4, <1>6, <2>2, ClosedAccounts
  <1>8. QED BY <1>3, <1>4, <1>6, <1>7 DEF StoreInv

\* A cancelled flush is counted, unless its batch is empty or already written.
LEMMA StopStep == StoreInv /\ Stop => StoreInv'
  <1> SUFFICES ASSUME StoreInv, Stop PROVE StoreInv'
    OBVIOUS
  <1>1. /\ phase = "running" /\ phase' = "stopping" /\ jobs' = <<>> /\ batch' = <<>>
        /\ cancelled' = IF Range(batch) \subseteq logged' THEN 0 ELSE Len(batch)
        /\ UNCHANGED <<disk, buffer, dropped, degraded, owned, hasRow, completed, expired>>
        /\ CommitRows \/ UNCHANGED <<logged, row, pruned>>
    BY DEF Stop
  <1>2. /\ Len(jobs') = 0 /\ jobs' \in Seq(Jobs) /\ Len(batch') = 0 /\ batch' \in Seq(Nat)
    BY <1>1, NoMembers, EmptySeq
  <1>3. Locking'
    BY <1>1, <1>2 DEF Locking
  <1>4. /\ cancelled = 0
        /\ completed = Len(buffer) + Len(batch) + Cardinality(logged) + pruned + dropped + cancelled
    BY <1>1 DEF StoreInv, Accounts
  <1>5. logged' \subseteq logged => cancelled' = Len(batch)
    <2> SUFFICES ASSUME logged' \subseteq logged, Range(batch) \subseteq logged'
                 PROVE  Len(batch) = 0
      BY <1>1
    <2>1. batch \in Seq(Nat) /\ \A r \in logged, q \in Range(batch) : r < q
      BY DEF StoreInv, StoreTypeOK, NewestStaged
    <2>2. \A i \in 1..Len(batch) : batch[i] \in Nat /\ batch[i] \in Range(batch)
      BY <2>1, Members
    <2>3. \A i \in 1..Len(batch) : batch[i] < batch[i]
      BY <2>1, <2>2
    <2>4. QED BY <2>2, <2>3, Counts
  <1>6. /\ logged' \subseteq Nat /\ pruned' \in Nat /\ row' \in BOOLEAN /\ cancelled' \in Nat
        /\ Recorded' /\ NewestStaged'
        /\ completed = Len(buffer) + Len(batch') + Cardinality(logged') + pruned' + dropped + cancelled'
    <2>1. cancelled' \in Nat
      BY <1>1, Counts
    <2>2. CASE UNCHANGED <<logged, row, pruned>>
      <3>1. logged' \subseteq Nat /\ pruned' \in Nat /\ row' \in BOOLEAN
        BY <2>2 DEF StoreInv, StoreTypeOK
      <3>2. Recorded' /\ NewestStaged'
        BY <1>1, <2>2, OrderKept
      <3>3. cancelled' = Len(batch)
        BY <1>5, <2>2
      <3>4. completed = Len(buffer) + 0 + Cardinality(logged) + pruned + dropped + Len(batch)
        BY <1>4, Counts, Moves
      <3>5. QED BY <1>2, <2>1, <2>2, <3>1, <3>2, <3>3, <3>4
    <2>3. CASE CommitRows
      <3>1. logged' \subseteq Nat /\ pruned' \in Nat /\ row' \in BOOLEAN
        BY <1>1, <2>3, CommitFacts
      <3>2. CASE /\ jobs[1].kind = "flush" /\ logged' = logged \cup Range(batch) /\ pruned' = pruned
                 /\ Cardinality(logged') = Cardinality(logged) + Len(batch)
        <4>1. Recorded' /\ NewestStaged'
          BY <1>1, <3>2, OrderFlushed
        <4>2. cancelled' = 0
          BY <1>1, <3>2
        <4>3. completed = Len(buffer) + 0 + (Cardinality(logged) + Len(batch)) + pruned + dropped + cancelled
          BY <1>4, Counts, Moves
        <4>4. completed = Len(buffer) + Len(batch') + Cardinality(logged') + pruned' + dropped + cancelled'
          BY <1>2, <1>4, <3>2, <4>2, <4>3
        <4>5. QED BY <2>1, <3>1, <4>1, <4>4
      <3>3. CASE /\ jobs[1].kind # "flush" /\ logged' \subseteq logged
                 /\ \E x \in Nat : /\ Cardinality(logged) = Cardinality(logged') + x
                                   /\ Cardinality(logged') \in Nat
                                   /\ pruned' = pruned + x
        <4>1. Recorded' /\ NewestStaged'
          BY <1>1, <3>3, OrderKept
        <4>2. cancelled' = Len(batch)
          BY <1>5, <3>3
        <4>3. PICK x \in Nat : /\ Cardinality(logged) = Cardinality(logged') + x
                               /\ Cardinality(logged') \in Nat
                               /\ pruned' = pruned + x
          BY <3>3
        <4>4. completed = Len(buffer) + 0 + Cardinality(logged') + (pruned + x) + dropped + Len(batch)
          <5>1. completed = Len(buffer) + Len(batch) + (Cardinality(logged') + x) + pruned + dropped + 0
            BY <1>4, <4>3
          <5>2. /\ Len(buffer) \in Nat /\ Len(batch) \in Nat /\ Cardinality(logged') \in Nat
                /\ pruned \in Nat /\ dropped \in Nat
            BY <4>3, Counts
          <5>3. Len(buffer) + 0 + Cardinality(logged') + (pruned + x) + dropped + Len(batch)
                  = Len(buffer) + Len(batch) + (Cardinality(logged') + x) + pruned + dropped + 0
            BY ONLY <5>2, x \in Nat, DeletesAndCancels
          <5>4. QED BY ONLY <5>1, <5>3
        <4>5. QED BY <1>2, <2>1, <3>1, <4>1, <4>2, <4>3, <4>4
      <3>4. QED BY <1>1, <2>3, <3>2, <3>3, CommitFacts
    <2>4. QED BY <1>1, <2>2, <2>3
  <1>7. StoreTypeOK'
    <2>1. ~(batch' # <<>>) /\ ~Waiting("flush")'
      BY <1>1, <1>2 DEF Waiting
    <2>2. 0 <= BufferMax
      BY StoreBounds
    <2>3. QED BY <1>1, <1>2, <1>6, <2>1, <2>2 DEF StoreInv, StoreTypeOK
  <1>8. Accounts'
    BY <1>1, <1>6 DEF Accounts
  <1>9. QED BY <1>3, <1>6, <1>7, <1>8 DEF StoreInv

LEMMA DrainStep == StoreInv /\ Drain => StoreInv'
  <1> SUFFICES ASSUME StoreInv, Drain PROVE StoreInv'
    OBVIOUS
  <1>1. /\ phase = "stopping" /\ jobs = <<>> /\ Len(jobs) = 0
        /\ UNCHANGED <<disk, dropped, degraded, owned, tables, history>>
    BY EmptySeq DEF StoreInv, Locking, Drain
  <1>2. ~Waiting("flush") /\ batch = <<>>
    BY <1>1 DEF StoreInv, StoreTypeOK, Waiting
  <1>3. CASE buffer # <<>>
    <2>1. phase' = "draining" /\ TakeBatch
      BY <1>3 DEF Drain
    <2>2. QED BY <1>1, <1>2, <1>3, <2>1, TakeStep
  <1>4. CASE buffer = <<>>
    <2>1. phase' = "closed" /\ UNCHANGED <<buffer, batch, jobs>>
      BY <1>4 DEF Drain
    <2>2. /\ UNCHANGED <<disk, dropped, degraded, owned, logged, hasRow, row>>
          /\ UNCHANGED <<completed, expired, pruned, cancelled>>
      BY <1>1 DEF tables, history
    <2>3. StoreTypeOK'
      BY <2>1, <2>2 DEF StoreInv, StoreTypeOK, Waiting
    <2>4. Locking' /\ Recorded' /\ NewestStaged'
      BY <1>1, <1>4, <2>1, <2>2 DEF StoreInv, Locking, Recorded, NewestStaged
    <2>5. Accounts'
      <3>1. IsFiniteSet(logged')
        BY <2>4 DEF Recorded
      <3>2. completed = Len(buffer) + Len(batch) + Cardinality(logged) + pruned + dropped + cancelled
        BY DEF StoreInv, Accounts
      <3>3. (completed = Len(buffer) + Len(batch) + Cardinality(logged) + pruned + dropped + cancelled)'
        BY <2>1, <2>2, <3>2
      <3>4. QED BY <2>1, <2>3, <2>4, <3>1, <3>3, ClosedAccounts
    <2>6. QED BY <2>3, <2>4, <2>5 DEF StoreInv
  <1>5. QED BY <1>3, <1>4

\* A new run of the proxy starts with nothing staged, queued or counted.
LEMMA RestartStep == StoreInv /\ Restart => StoreInv'
  <1> SUFFICES ASSUME StoreInv, Restart PROVE StoreInv'
    OBVIOUS
  <1>1. /\ buffer' = <<>> /\ batch' = <<>> /\ jobs' = <<>> /\ logged' = {} /\ phase' = "opening"
        /\ dropped' = 0 /\ completed' = 0 /\ expired' = 0 /\ pruned' = 0 /\ cancelled' = 0
        /\ degraded' = FALSE /\ owned' = FALSE /\ UNCHANGED <<disk, hasRow, row>>
    BY DEF Restart
  <1>2. /\ Len(buffer') = 0 /\ Len(batch') = 0 /\ Len(jobs') = 0
        /\ Range(buffer') = {} /\ Range(batch') = {}
        /\ buffer' \in Seq(Nat) /\ batch' \in Seq(Nat) /\ jobs' \in Seq(Jobs)
        /\ IsFiniteSet(logged') /\ Cardinality(logged') = 0
    BY <1>1, NoMembers, FS_EmptySet, EmptySeq
  <1>3. StoreTypeOK'
    <2>1. ~(batch' # <<>>) /\ ~Waiting("flush")'
      BY <1>1, <1>2 DEF Waiting
    <2>2. 0 <= BufferMax
      BY StoreBounds
    <2>3. QED BY <1>1, <1>2, <2>1, <2>2 DEF StoreInv, StoreTypeOK
  <1>4. Locking' /\ Recorded'
    BY <1>1, <1>2 DEF Locking, Recorded
  <1>5. Accounts' /\ NewestStaged'
    BY <1>1, <1>2 DEF Accounts, NewestStaged
  <1>6. QED BY <1>3, <1>4, <1>5 DEF StoreInv

-----------------------------------------------------------------------------
(* The theorems *)

LEMMA StoreNext == StoreInv /\ [Next]_vars => StoreInv'
  <1> SUFFICES ASSUME StoreInv, [Next]_vars PROVE StoreInv'
    OBVIOUS
  <1>0. /\ disk \in {"ok", "full"} /\ degraded \in BOOLEAN /\ owned \in BOOLEAN
        /\ hasRow \in BOOLEAN /\ row \in BOOLEAN /\ expired \in Nat
    BY DEF StoreInv, StoreTypeOK
  <1>1. CASE Open
    BY <1>0, <1>1, Aside DEF Open, tables, history
  <1>2. CASE Reconcile
    <2>1. /\ UNCHANGED <<disk, row, expired, staging, jobs, logged, completed, pruned, cancelled>>
          /\ phase = "reconciling" /\ phase' = "running"
      BY <1>2 DEF Reconcile, history
    <2>2. degraded' \in BOOLEAN /\ owned' \in BOOLEAN /\ hasRow' \in BOOLEAN
      BY <1>0, <1>2, Zenon DEF Reconcile
    <2>3. QED BY <1>0, <2>1, <2>2, Aside
  <1>3. CASE Prune
    <2>1. [by |-> "prune", kind |-> "prune", cutoff |-> expired] \in Jobs
      BY <1>0 DEF Jobs
    <2>2. QED BY <1>0, <1>3, <2>1, Queues DEF Prune
  <1>4. ASSUME NEW w \in Writers, WriteHistory(w) PROVE StoreInv'
    <2>1. [by |-> w, kind |-> "history"] \in Jobs /\ w # "flush"
      BY StoreWriters DEF Jobs
    <2>2. QED BY <1>0, <1>4, <2>1, Queues DEF WriteHistory
  <1>5. ASSUME NEW w \in Writers, NEW v \in BOOLEAN, SetServerRuntime(w, v) PROVE StoreInv'
    <2>1. [by |-> w, kind |-> "server", value |-> v] \in Jobs /\ w # "flush"
      BY StoreWriters DEF Jobs
    <2>2. QED BY <1>5, <2>1, Queues DEF SetServerRuntime
  <1>6. CASE DiskChanges
    BY <1>0, <1>6, Aside DEF DiskChanges, tables, history
  <1>7. CASE Expire
    BY <1>0, <1>7, Aside DEF Expire, tables
  <1>8. CASE UNCHANGED vars
    BY <1>0, <1>8, Aside DEF vars, tables, history
  <1>9. QED
    BY <1>1, <1>2, <1>3, <1>4, <1>5, <1>6, <1>7, <1>8, EnqueueStep, FlushStep, CommitStep, FailStep,
       StopStep, DrainStep, RestartStep DEF Next, Write

\* The inductive invariant of the store: the types, who may hold the lock of
\* store.py in which phase of RelayApp, and what the records add up to.
THEOREM StoreInvariant == Spec => []StoreInv
  BY StoreInit, StoreNext, PTL DEF Spec

\* Type correctness of the store: the staged buffer and the batch stay within
\* REQUEST_BUFFER_MAX whatever the disk does, and a batch is held exactly
\* while flush_requests waits for the lock or writes.
THEOREM StoreTyped == Spec => []StoreTypeOK
  <1>1. StoreInv => StoreTypeOK
    BY DEF StoreInv
  <1>2. QED BY <1>1, StoreInvariant, PTL

\* D33: until the shutdown every completed request is staged, being written, in
\* the requests table, pruned from it, or counted as dropped, through degraded
\* mode, pruning and restart; and at no time is one counted twice.
THEOREM RequestsAlwaysAccounted == Spec => []RequestsAccounted
  <1>1. StoreInv => RequestsAccounted
    <2> SUFFICES ASSUME StoreInv PROVE RequestsAccounted
      OBVIOUS
    <2> DEFINE accounted == Len(buffer) + Len(batch) + Cardinality(logged) + pruned + dropped
    <2>1. /\ Len(buffer) \in Nat /\ Len(batch) \in Nat /\ pruned \in Nat /\ dropped \in Nat
          /\ cancelled \in Nat /\ Cardinality(logged) \in Nat
      BY LenProperties, FS_CardinalityType DEF StoreInv, StoreTypeOK, Recorded
    <2>2. accounted \in Nat
      BY <2>1
    <2>3. completed = accounted + cancelled
      BY DEF StoreInv, Accounts
    <2>4. phase \notin {"stopping", "draining", "closed"} => cancelled = 0
      BY DEF StoreInv, Accounts
    <2>5. RequestsAccounted <=>
            /\ accounted <= completed
            /\ phase \notin {"stopping", "draining", "closed"} => accounted = completed
      BY DEF RequestsAccounted
    <2> HIDE DEF accounted
    <2> QED
      BY <2>1, <2>2, <2>3, <2>4, <2>5
  <1>2. QED BY <1>1, StoreInvariant, PTL

\* enqueue_request sheds the oldest records and flush_requests writes in the
\* order of completion: what is staged is always the newest, without a gap.
THEOREM NewestAlwaysStaged == Spec => []NewestStaged
  <1>1. StoreInv => NewestStaged
    BY DEF StoreInv
  <1>2. QED BY <1>1, StoreInvariant, PTL

-----------------------------------------------------------------------------
(* No record goes astray *)

\* The cutoff of a prune was right when it was computed, and what has expired
\* by then has expired for good.
Cutoffs == \A i \in 1..Len(jobs) : jobs[i].kind = "prune" => jobs[i].cutoff <= expired

\* What leaves memory in a step without a row.
Lost == Staged \ (Staged' \cup logged')

\* What NoSilentLoss says of a step.
Accounted ==
  /\ \A r \in logged \ logged' : r <= expired
  /\ logged' \ logged \subseteq Range(batch)
  /\ Cardinality(Lost) = (dropped' - dropped) + (cancelled' - cancelled)

LEMMA CutoffsJoined ==
  ASSUME StoreInv, Cutoffs, NEW j \in Jobs, jobs' = Append(jobs, j), expired' = expired,
         j.kind = "prune" => j.cutoff <= expired
  PROVE  Cutoffs'
  <1>1. /\ Len(jobs') = Len(jobs) + 1 /\ Len(jobs) \in Nat
        /\ \A i \in 1..Len(jobs) : jobs'[i] = jobs[i]
        /\ jobs'[Len(jobs) + 1] = j
    BY AppendProperties, LenProperties DEF StoreInv, StoreTypeOK
  <1>2. QED BY <1>1 DEF Cutoffs

LEMMA CutoffsLeft ==
  ASSUME StoreInv, Cutoffs, jobs # <<>>, jobs' = Tail(jobs), expired' = expired
  PROVE  Cutoffs'
  <1>1. /\ Len(jobs') = Len(jobs) - 1 /\ Len(jobs) \in Nat \ {0}
        /\ \A i \in 1..Len(jobs') : jobs'[i] = jobs[i + 1]
    BY HeadTailProperties, EmptySeq DEF StoreInv, StoreTypeOK
  <1>2. \A i \in 1..Len(jobs') : i + 1 \in 1..Len(jobs)
    BY <1>1
  <1>3. QED BY <1>1, <1>2 DEF Cutoffs

LEMMA CutoffsEmptied ==
  ASSUME jobs' = <<>> PROVE Cutoffs'
  BY NoMembers DEF Cutoffs

LEMMA CutoffsStep == StoreInv /\ Cutoffs /\ [Next]_vars => Cutoffs'
  <1> SUFFICES ASSUME StoreInv, Cutoffs, [Next]_vars PROVE Cutoffs'
    OBVIOUS
  <1>1. CASE jobs' = jobs /\ (expired' = expired \/ expired' = expired + 1)
    <2>1. \A i \in 1..Len(jobs) : jobs[i] \in Jobs
      BY ElementOfSeq DEF StoreInv, StoreTypeOK
    <2>2. \A i \in 1..Len(jobs) : jobs[i].kind = "prune" => jobs[i].cutoff \in Nat
      BY <2>1, JobKinds
    <2>3. expired \in Nat
      BY DEF StoreInv, StoreTypeOK
    <2>4. QED BY <1>1, <2>2, <2>3 DEF Cutoffs
  <1>2. CASE Open \/ Reconcile \/ EnqueueRequest \/ DiskChanges \/ Expire \/ UNCHANGED vars
    BY <1>1, <1>2 DEF Open, Reconcile, EnqueueRequest, DiskChanges, Expire, vars, history
  <1>3. CASE TakeBatch /\ expired' = expired
    <2>1. [by |-> "flush", kind |-> "flush"] \in Jobs
      BY DEF Jobs
    <2>2. QED BY <1>3, <2>1, CutoffsJoined DEF TakeBatch
  <1>4. CASE Prune
    <2>1. [by |-> "prune", kind |-> "prune", cutoff |-> expired] \in Jobs /\ expired <= expired
      BY DEF Jobs, StoreInv, StoreTypeOK
    <2>2. QED BY <1>4, <2>1, CutoffsJoined DEF Prune, history
  <1>5. ASSUME NEW w \in Writers, WriteHistory(w) PROVE Cutoffs'
    <2>1. [by |-> w, kind |-> "history"] \in Jobs
      BY DEF Jobs
    <2>2. QED BY <1>5, <2>1, CutoffsJoined DEF WriteHistory, history
  <1>6. ASSUME NEW w \in Writers, NEW v \in BOOLEAN, SetServerRuntime(w, v) PROVE Cutoffs'
    <2>1. [by |-> w, kind |-> "server", value |-> v] \in Jobs
      BY DEF Jobs
    <2>2. QED BY <1>6, <2>1, CutoffsJoined DEF SetServerRuntime, history
  <1>7. CASE Commit \/ Fail
    <2>1. jobs # <<>> /\ jobs' = Tail(jobs) /\ expired' = expired
      BY <1>7 DEF Commit, Fail, CommitRows, Unlock, history
    <2>2. QED BY <2>1, CutoffsLeft
  <1>8. CASE Flush
    BY <1>3, <1>8 DEF Flush, history
  <1>9. CASE Drain
    BY <1>1, <1>3, <1>9 DEF Drain, history
  <1>10. CASE Stop \/ Restart
    BY <1>10, CutoffsEmptied DEF Stop, Restart
  <1>11. QED
    BY <1>2, <1>4, <1>5, <1>6, <1>7, <1>8, <1>9, <1>10 DEF Next, Write

\* A step that takes no record out of memory has none to count.
LEMMA NothingLost ==
  ASSUME StoreInv, Staged \subseteq Staged' \cup logged', dropped' = dropped, cancelled' = cancelled
  PROVE  Cardinality(Lost) = (dropped' - dropped) + (cancelled' - cancelled)
  <1>1. Lost = {}
    BY DEF Lost
  <1>2. QED BY <1>1, FS_EmptySet, Counts

\* The batch leaves memory and has no row: as many records are lost as it has.
LEMMA BatchLost ==
  ASSUME StoreInv, batch' = <<>>, UNCHANGED buffer, logged' \subseteq logged
  PROVE  Cardinality(Lost) = Len(batch)
  <1>1. batch \in Seq(Nat) /\ buffer \in Seq(Nat) /\ logged \subseteq Nat
    BY DEF StoreInv, StoreTypeOK
  <1>2. Range(batch') = {}
    BY NoMembers
  <1>3. \A r \in Range(batch) : r \in Nat /\ r \notin Range(buffer) /\ r \notin logged
    <2> TAKE r \in Range(batch)
    <2>1. r \in Nat
      BY <1>1, Members
    <2>2. ~(r < r)
      BY <2>1
    <2>3. QED BY <2>1, <2>2 DEF StoreInv, NewestStaged
  <1>4. Lost = Range(batch)
    BY <1>2, <1>3 DEF Lost, Staged
  <1>5. \A i \in 1..Len(batch) : batch[i] = batch[1] + i - 1
    BY DEF StoreInv, NewestStaged
  <1>6. batch # <<>> => batch[1] \in Int
    BY <1>1, EmptySeq, ElementOfSeq
  <1>7. QED BY <1>1, <1>4, <1>5, <1>6, ContiguousCount

\* Over capacity exactly one record leaves memory, and one is counted.
LEMMA EnqueueLoses ==
  ASSUME StoreInv, EnqueueRequest
  PROVE  Cardinality(Lost) = (dropped' - dropped) + (cancelled' - cancelled)
  <1>1. /\ completed' = completed + 1 /\ UNCHANGED <<batch, logged, cancelled>>
        /\ dropped' = IF Len(buffer) >= BufferMax THEN dropped + 1 ELSE dropped
        /\ buffer' = Append(IF Len(buffer) >= BufferMax THEN Tail(buffer) ELSE buffer, completed')
    BY DEF EnqueueRequest, tables
  <1>2. /\ buffer \in Seq(Nat) /\ completed \in Nat /\ completed' \in Nat /\ Len(buffer) \in Nat
        /\ BufferMax \in Nat \ {0} /\ dropped \in Nat /\ cancelled \in Nat
    BY <1>1, Counts, StoreBounds DEF StoreInv, StoreTypeOK
  <1>3. CASE Len(buffer) >= BufferMax
    <2>1. buffer # <<>> /\ buffer' = Append(Tail(buffer), completed') /\ dropped' = dropped + 1
      BY <1>1, <1>2, <1>3, NonEmpty
    <2>2. /\ Tail(buffer) \in Seq(Nat) /\ Len(Tail(buffer)) = Len(buffer) - 1
          /\ Len(buffer) \in Nat \ {0}
          /\ \A i \in 1..Len(Tail(buffer)) : Tail(buffer)[i] = buffer[i + 1]
      BY <1>2, <2>1, HeadTailProperties, EmptySeq
    <2>3. /\ buffer' \in Seq(Nat) /\ Len(buffer') = Len(buffer)
          /\ \A i \in 1..(Len(buffer) - 1) : buffer'[i] = Tail(buffer)[i]
          /\ buffer'[Len(buffer)] = completed'
      BY <1>2, <2>1, <2>2, AppendProperties
    <2>4. \A i \in 1..(Len(buffer) - 1) : buffer'[i] = buffer[i + 1]
      BY <2>2, <2>3
    <2>5. \A i \in 2..Len(buffer) : buffer[i] \in Range(buffer')
      <3> TAKE i \in 2..Len(buffer)
      <3>1. i - 1 \in 1..(Len(buffer) - 1) /\ i - 1 \in 1..Len(buffer') /\ (i - 1) + 1 = i
        BY <2>2, <2>3
      <3>2. buffer'[i - 1] = buffer[i]
        BY <2>4, <3>1
      <3>3. QED BY <2>3, <3>1, <3>2, Members
    <2>6. \A i \in 1..Len(buffer) : buffer[i] = completed - Len(buffer) + i
      BY DEF StoreInv, NewestStaged
    <2>7. buffer[1] \notin Range(buffer')
      <3> SUFFICES ASSUME NEW k \in 1..Len(buffer'), buffer'[k] = buffer[1]
                   PROVE  FALSE
        BY <2>3, Members
      <3>1. buffer[1] = completed - Len(buffer) + 1
        BY <2>2, <2>6
      <3>2. CASE k = Len(buffer)
        <4>1. completed + 1 = completed - Len(buffer) + 1
          BY <1>1, <2>3, <3>1, <3>2
        <4>2. QED BY <1>2, <2>2, <4>1
      <3>3. CASE k \in 1..(Len(buffer) - 1)
        <4>1. k + 1 \in 1..Len(buffer) /\ buffer'[k] = buffer[k + 1]
          BY <2>2, <2>4, <3>3
        <4>2. buffer[k + 1] = completed - Len(buffer) + (k + 1)
          BY <2>6, <4>1
        <4>3. completed - Len(buffer) + (k + 1) = completed - Len(buffer) + 1
          BY <3>1, <4>1, <4>2
        <4>4. k \in Nat \ {0} /\ Len(buffer) \in Nat /\ completed \in Nat
          BY <1>2, <3>3
        <4>5. QED BY ONLY <4>3, <4>4
      <3>4. Len(buffer) \in Nat \ {0} /\ k \in 1..Len(buffer)
        BY <2>2, <2>3
      <3>5. k = Len(buffer) \/ k \in 1..(Len(buffer) - 1)
        BY ONLY <3>4
      <3>6. QED BY <3>2, <3>3, <3>5
    <2>8. buffer[1] \in Range(buffer) /\ buffer[1] \in Nat
      <3>1. 1 \in 1..Len(buffer)
        BY <2>2
      <3>2. QED BY <1>2, <3>1, Members
    <2>9. buffer[1] \notin Range(batch) /\ buffer[1] \notin logged
      <3>1. ~(buffer[1] < buffer[1])
        BY <2>8
      <3>2. QED BY <2>8, <3>1 DEF StoreInv, NewestStaged
    <2>10. \A x \in Range(buffer) : x = buffer[1] \/ x \in Range(buffer')
      <3> SUFFICES ASSUME NEW i \in 1..Len(buffer)
                   PROVE  buffer[i] = buffer[1] \/ buffer[i] \in Range(buffer')
        BY <1>2, Members
      <3>1. i = 1 \/ i \in 2..Len(buffer)
        BY <1>2
      <3>2. QED BY <2>5, <3>1
    <2>11. Lost = {buffer[1]}
      BY <1>1, <2>7, <2>8, <2>9, <2>10 DEF Lost, Staged
    <2>12. Cardinality(Lost) = 1
      BY <2>11, FS_Singleton
    <2>13. QED BY <1>1, <1>2, <2>1, <2>12
  <1>4. CASE ~(Len(buffer) >= BufferMax)
    <2>1. buffer' = Append(buffer, completed') /\ dropped' = dropped
      BY <1>1, <1>4
    <2>2. /\ buffer' \in Seq(Nat) /\ Len(buffer') = Len(buffer) + 1
          /\ \A i \in 1..Len(buffer) : buffer'[i] = buffer[i]
      BY <1>2, <2>1, AppendProperties
    <2>3. \A i \in 1..Len(buffer) : buffer[i] \in Range(buffer')
      <3> TAKE i \in 1..Len(buffer)
      <3>1. i \in 1..Len(buffer')
        BY <1>2, <2>2
      <3>2. QED BY <2>2, <3>1, Members
    <2>4. Range(buffer) \subseteq Range(buffer')
      BY <1>2, <2>3, Members
    <2>5. Staged \subseteq Staged' \cup logged'
      BY <1>1, <2>4 DEF Staged
    <2>6. QED BY <1>1, <2>1, <2>5, NothingLost
  <1>5. QED BY <1>3, <1>4

\* What a transaction deletes has expired, and what it adds is the batch.
LEMMA CommitAccounted ==
  ASSUME StoreInv, Cutoffs, CommitRows, UNCHANGED <<hasRow>>
  PROVE  /\ \A r \in logged \ logged' : r <= expired
         /\ logged' \ logged \subseteq Range(batch)
  <1>1. jobs # <<>> /\ (FlushRows \/ PruneRows \/ StateRows)
    BY DEF CommitRows
  <1>2. CASE PruneRows
    <2>1. 1 \in 1..Len(jobs)
      <3>1. Len(jobs) \in Nat \ {0}
        BY <1>1, EmptySeq DEF StoreInv, StoreTypeOK
      <3>2. QED BY <3>1
    <2>2. jobs[1] \in Jobs
      BY <2>1, ElementOfSeq DEF StoreInv, StoreTypeOK
    <2>3. logged' = {r \in logged : r > jobs[1].cutoff} /\ jobs[1].kind = "prune"
      BY <1>2 DEF PruneRows
    <2>4. jobs[1].cutoff \in Nat /\ jobs[1].cutoff <= expired /\ expired \in Nat
      BY <2>1, <2>2, <2>3, JobKinds DEF Cutoffs, StoreInv, StoreTypeOK
    <2>5. logged \subseteq Nat
      BY DEF StoreInv, StoreTypeOK
    <2>6. \A r \in logged \ logged' : r \in Nat /\ ~(r > jobs[1].cutoff)
      BY <2>3, <2>5
    <2>7. \A r \in logged \ logged' : r <= expired
      BY <2>4, <2>6
    <2>8. logged' \ logged = {}
      BY <2>3
    <2>9. QED BY <2>7, <2>8
  <1>3. CASE FlushRows
    BY <1>3 DEF FlushRows
  <1>4. CASE StateRows
    BY <1>4 DEF StateRows
  <1>5. QED BY <1>1, <1>2, <1>3, <1>4

\* A flush that takes a batch, and every step that moves no record.
LEMMA TakenAccounted ==
  ASSUME StoreInv, TakeBatch, batch = <<>>, UNCHANGED <<logged, dropped, cancelled>>
  PROVE  Accounted
  <1>1. Range(batch) = {}
    BY NoMembers
  <1>2. Staged \subseteq Staged'
    BY <1>1 DEF Staged, TakeBatch
  <1>3. QED BY <1>2, NothingLost DEF Accounted

LEMMA UnmovedAccounted ==
  ASSUME StoreInv, UNCHANGED <<buffer, batch, logged, dropped, cancelled>>
  PROVE  Accounted
  <1>1. Staged' = Staged
    BY DEF Staged
  <1>2. QED BY <1>1, NothingLost DEF Accounted

LEMMA AccountedStep == StoreInv /\ Cutoffs /\ [Next]_vars /\ phase' # "opening" => Accounted
  <1> SUFFICES ASSUME StoreInv, Cutoffs, [Next]_vars, phase' # "opening" PROVE Accounted
    OBVIOUS
  <1>1. CASE UNCHANGED <<staging, tables, cancelled>>
    BY <1>1, UnmovedAccounted DEF staging, tables
  <1>2. CASE \/ Open \/ Prune \/ DiskChanges \/ Expire \/ UNCHANGED vars
             \/ \E w \in Writers : Write(w)
    BY <1>1, <1>2 DEF Open, Prune, DiskChanges, Expire, vars, Write, WriteHistory,
                      SetServerRuntime, history
  <1>3. CASE Reconcile
    BY <1>3, UnmovedAccounted DEF Reconcile, staging, history
  <1>4. CASE EnqueueRequest
    <2>1. logged' = logged
      BY <1>4 DEF EnqueueRequest, tables
    <2>2. QED BY <1>4, <2>1, EnqueueLoses DEF Accounted
  <1>5. CASE Flush
    <2>1. /\ TakeBatch /\ ~Waiting("flush")
          /\ UNCHANGED <<logged, dropped, cancelled>>
      BY <1>5 DEF Flush, tables, history
    <2>2. batch = <<>>
      BY <2>1 DEF StoreInv, StoreTypeOK
    <2>3. QED BY <2>1, <2>2, TakenAccounted
  <1>6. CASE Drain
    <2>1. phase = "stopping" /\ UNCHANGED <<logged, dropped, cancelled>>
      BY <1>6 DEF Drain, tables, history
    <2>2. batch = <<>>
      <3>1. jobs = <<>> /\ Len(jobs) = 0
        BY <2>1, EmptySeq DEF StoreInv, Locking
      <3>2. QED BY <3>1 DEF StoreInv, StoreTypeOK, Waiting
    <2>3. CASE TakeBatch
      BY <2>1, <2>2, <2>3, TakenAccounted
    <2>4. CASE UNCHANGED <<buffer, batch>>
      BY <2>1, <2>4, UnmovedAccounted
    <2>5. QED BY <1>6, <2>3, <2>4 DEF Drain
  <1>7. CASE Commit
    <2>1. CommitRows /\ Unlock /\ UNCHANGED <<buffer, dropped, cancelled, hasRow>>
      BY <1>7 DEF Commit
    <2>2. /\ \A r \in logged \ logged' : r <= expired
          /\ logged' \ logged \subseteq Range(batch)
      BY <2>1, CommitAccounted
    <2>3. Staged \subseteq Staged' \cup logged'
      <3>1. CASE jobs[1].kind = "flush"
        <4>1. logged' = logged \cup Range(batch)
          BY <2>1, <3>1, CommitFacts
        <4>2. QED BY <2>1, <4>1 DEF Staged
      <3>2. CASE jobs[1].kind # "flush"
        <4>1. batch' = batch
          BY <2>1, <3>2 DEF Unlock
        <4>2. QED BY <2>1, <4>1 DEF Staged
      <3>3. QED BY <3>1, <3>2
    <2>4. QED BY <2>1, <2>2, <2>3, NothingLost DEF Accounted
  <1>8. CASE Fail
    <2>1. /\ Unlock /\ UNCHANGED <<buffer, logged, cancelled>>
          /\ dropped' = dropped + (IF jobs[1].kind = "flush" THEN Len(batch) ELSE 0)
      BY <1>8 DEF Fail, tables, history
    <2>2. CASE jobs[1].kind = "flush"
      <3>1. batch' = <<>> /\ dropped' = dropped + Len(batch)
        BY <2>1, <2>2 DEF Unlock
      <3>2. Cardinality(Lost) = Len(batch)
        BY <2>1, <3>1, BatchLost
      <3>3. Cardinality(Lost) = (dropped' - dropped) + (cancelled' - cancelled)
        BY <2>1, <3>1, <3>2, Counts
      <3>4. QED BY <2>1, <3>3 DEF Accounted
    <2>3. CASE jobs[1].kind # "flush"
      <3>1. batch' = batch /\ dropped' = dropped
        BY <2>1, <2>3, Counts DEF Unlock
      <3>2. QED BY <2>1, <3>1, UnmovedAccounted
    <2>4. QED BY <2>2, <2>3
  <1>9. CASE Stop
    <2>1. /\ batch' = <<>> /\ UNCHANGED <<buffer, dropped, hasRow>> /\ cancelled = 0
          /\ cancelled' = IF Range(batch) \subseteq logged' THEN 0 ELSE Len(batch)
          /\ CommitRows \/ UNCHANGED <<logged, row, pruned>>
      BY <1>9 DEF Stop, StoreInv, Accounts
    <2>2. /\ \A r \in logged \ logged' : r <= expired
          /\ logged' \ logged \subseteq Range(batch)
      BY <2>1, CommitAccounted
    <2>3. CASE Range(batch) \subseteq logged'
      <3>1. Staged \subseteq Staged' \cup logged' /\ cancelled' = cancelled
        BY <2>1, <2>3 DEF Staged
      <3>2. QED BY <2>1, <2>2, <3>1, NothingLost DEF Accounted
    <2>4. CASE ~(Range(batch) \subseteq logged')
      <3>1. logged' \subseteq logged
        BY <2>1, <2>4, CommitFacts
      <3>2. Cardinality(Lost) = Len(batch)
        BY <2>1, <3>1, BatchLost
      <3>3. Cardinality(Lost) = (dropped' - dropped) + (cancelled' - cancelled)
        BY <2>1, <2>4, <3>2, Counts
      <3>4. QED BY <2>2, <3>3 DEF Accounted
    <2>5. QED BY <2>3, <2>4
  <1>10. CASE Restart
    BY <1>10 DEF Restart
  <1>11. QED
    BY <1>2, <1>3, <1>4, <1>5, <1>6, <1>7, <1>8, <1>9, <1>10 DEF Next

\* No record is lost in silence, for any number of writers and any capacity:
\* prune deletes only what has expired, although its cutoff is from before it
\* waited for the lock, bulk_log_requests adds only its batch, and whatever
\* leaves memory without a row (shed by enqueue_request, dropped by a failed
\* flush, cancelled by the shutdown) is counted in that step.
THEOREM NothingLostInSilence == Spec => NoSilentLoss
  <1>1. Init => Cutoffs
    BY NoMembers DEF Init, Cutoffs
  <1>2. Spec => [](StoreInv /\ Cutoffs)
    BY <1>1, StoreInit, StoreNext, CutoffsStep, PTL DEF Spec
  <1>3. StoreInv /\ Cutoffs /\ [Next]_vars =>
          [phase' # "opening" =>
             /\ \A r \in logged \ logged' : r <= expired
             /\ logged' \ logged \subseteq Range(batch)
             /\ Cardinality(Staged \ (Staged' \cup logged'))
                  = (dropped' - dropped) + (cancelled' - cancelled)]_vars
    BY AccountedStep, Zenon DEF Accounted, Lost
  <1>4. QED BY <1>2, <1>3, PTL DEF Spec, NoSilentLoss

=============================================================================
