------------------------------ MODULE SlotPool ------------------------------
(***************************************************************************)
(* What an endpoint's queue promises, without the deque, the counters, the *)
(* ages, the promotion loop or the manager: a pool of at most MaxSpots     *)
(* spots held by session keys, and requests that wait, run and end.        *)
(*                                                                         *)
(* Every change is one of five.  A spot is taken only together with the    *)
(* start of a request of its own session, and only while one is free; a    *)
(* request that takes none starts only while some session holds one; in    *)
(* atomic mode nothing starts beside a running request; the end of a       *)
(* request gives no spot back, and a spot given back starts or ends no     *)
(* request.                                                                *)
(***************************************************************************)
EXTENDS Integers

CONSTANTS Requests, Keys, NoKey, MaxSpots, Atomic

VARIABLES phase,    \* "new", "waiting", "running" or "done", of each request
          owner,    \* its session key
          holders,  \* the keys holding a spot
          free      \* the number of spots left

poolVars == <<phase, owner, holders, free>>

PoolInit ==
  /\ phase = [r \in Requests |-> "new"]
  /\ owner = [r \in Requests |-> NoKey]
  /\ holders = {}
  /\ free = MaxSpots

Running == {r \in Requests : phase[r] = "running"}

Moves(r, from, to) == phase[r] = from /\ phase' = [phase EXCEPT ![r] = to]

Arrive(r, k) ==
  /\ Moves(r, "new", "waiting")
  /\ owner' = [owner EXCEPT ![r] = k]
  /\ UNCHANGED <<holders, free>>

TakeSpot(k) ==
  /\ free > 0 /\ free' = free - 1
  /\ k \notin holders
  /\ holders' = holders \cup {k}

Start(r) ==
  /\ Moves(r, "waiting", "running")
  /\ Atomic => Running = {}
  /\ \/ TakeSpot(owner[r])
     \/ holders # {} /\ UNCHANGED <<holders, free>>
  /\ UNCHANGED owner

Leave(r) == Moves(r, "waiting", "done") /\ UNCHANGED <<owner, holders, free>>

End(r) == Moves(r, "running", "done") /\ UNCHANGED <<owner, holders, free>>

Surrender(k) ==
  /\ k \in holders
  /\ holders' = holders \ {k}
  /\ free' = free + 1
  /\ UNCHANGED <<phase, owner>>

PoolNext ==
  \/ \E r \in Requests, k \in Keys : Arrive(r, k)
  \/ \E r \in Requests : Start(r) \/ Leave(r) \/ End(r)
  \/ \E k \in Keys : Surrender(k)

PoolSpec == PoolInit /\ [][PoolNext]_poolVars

=============================================================================
