-------------------------- MODULE MCServerRuntime --------------------------
(* Instances of ServerRuntime for TLC: the loops and one caller.            *)
EXTENDS ServerRuntime
CONSTANT p

\* The auto-off can be switched off, and nothing in the instance switches it on
\* again: from then on nothing reads the idle clock.
SwitchedOff == override = "disabled" /\ Toggles \subseteq {"disabled"}

IdleClock == IF SwitchedOff THEN 0 ELSE idleAge

\* quiet, as far as IdleOffEarned and DeferralEnds can tell.  (When a scheduled
\* off is deferred, quiet is at most the lag of an admission.)
QuietEnough ==
  LET enough == IF deferred THEN IdleTimeout + 1
                ELSE IF SwitchedOff THEN 0 ELSE IdleTimeout - Slack + 1 IN
  IF quiet > enough THEN enough ELSE quiet

\* What the clocks and OffOnlyOwned depend on: neither the display state nor
\* the store's content, which no step but a restart looks at.
EngineView ==
  <<machine, powerState, rules, IdleClock, attemptAge, passAge, lag, load, ready, pc, then, answer,
    [i \in DOMAIN writes |-> writes[i].by], QuietEnough, wakeAge>>

QuietLive == IF SwitchedOff THEN 0 ELSE quiet

\* All but the display state and the history that no guard, and no property of
\* the run but the type invariant, reads.
LiveView ==
  <<machine, powerState, rules, IdleClock, attemptAge, passAge, lag, load, ready, pc, then, answer,
    store, up, QuietLive, dropped>>
=============================================================================
