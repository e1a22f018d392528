----------------------------- MODULE KillState -----------------------------
(***************************************************************************)
(* The kill-rate control loop of the query load manager                    *)
(* (src/src/data/graphql/effort.rs: KillState, update_kill_rate).          *)
(*                                                                         *)
(* This module holds the pure part: the record KillState, its constructor, *)
(* the step of the kill rate and the bookkeeping of log_event.  The        *)
(* module LoadManager keeps a KillState in a variable and drives these     *)
(* operators from the concurrent decide calls.                             *)
(*                                                                         *)
(* Data abstraction:                                                       *)
(*  - kill_rate is an f64 in [0,1]; here it is an integer in 0..KillScale  *)
(*    (the integer KillScale stands for 1.0).  The f64 step up rises       *)
(*    strictly towards 1.0 and reaches it once the step rounds away; here  *)
(*    the step up is rounded up to a whole unit, so the rate keeps rising  *)
(*    and reaches KillScale in finitely many steps too.                    *)
(*  - an Instant is an integer tick of the model clock; Option<Instant>    *)
(*    uses NoInstant for None.                                             *)
(***************************************************************************)
EXTENDS Integers

CONSTANTS
    KillScale,          \* the integer standing for a kill_rate of 1.0
    StepUp,             \* KILL_RATE_STEP_UP (0.1) in units of 1/KillScale
    UpdateInterval,     \* KILL_RATE_UPDATE_INTERVAL (1 s) in clock ticks
    OngoingLogInterval, \* the 30 s throttle on "overload ongoing" logs, in ticks
    LongAgo             \* the 60 s back-offset of KillState::new, in ticks

ASSUME /\ KillScale \in Nat \ {0}
       /\ StepUp \in 1..KillScale
       /\ {UpdateInterval, OngoingLogInterval, LongAgo} \subseteq Nat

\* KILL_RATE_STEP_DOWN = 2.0 * KILL_RATE_STEP_UP
StepDown == 2 * StepUp

NoInstant == -1

KillRates == 0..KillScale

\* Instant::saturating_duration_since: now - earlier, clamped at zero.
SaturatingSince(now, earlier) == IF now >= earlier THEN now - earlier ELSE 0

\* a div b rounded up (b > 0, a >= 0).
CeilDiv(a, b) == (a + b - 1) \div b

KillStates(Instants) ==
    [kill_rate: KillRates, last_update: Instants,
     overload_start: Instants \cup {NoInstant}, last_overload_log: Instants]

(***************************************************************************)
(* KillState::new at clock value now: last_update and last_overload_log    *)
(* are set LongAgo before now, or to now when now - LongAgo would underflow *)
(* (Instant::checked_sub returning None).                                  *)
(***************************************************************************)
KillStateNew(now) ==
    LET before == IF now >= LongAgo THEN now - LongAgo ELSE now
    IN  [kill_rate |-> 0, last_update |-> before,
         overload_start |-> NoInstant, last_overload_log |-> before]

\* Mutant of NextKillRate: the decay is multiplicative like the step up.
NextKillRateGeometricDecay(kill_rate, overloaded) ==
    IF overloaded
    THEN LET up == kill_rate + CeilDiv(StepUp * (KillScale - kill_rate), KillScale)
         IN  IF up < KillScale THEN up ELSE KillScale
    ELSE CeilDiv((KillScale - StepDown) * kill_rate, KillScale)

\* Mutant of NextKillRate: the step down is not floored at 0.0.
NextKillRateUnfloored(kill_rate, overloaded) ==
    IF overloaded
    THEN LET up == kill_rate + CeilDiv(StepUp * (KillScale - kill_rate), KillScale)
         IN  IF up < KillScale THEN up ELSE KillScale
    ELSE kill_rate - StepDown

(***************************************************************************)
(* The new kill rate computed in update_kill_rate: the asymptotic step     *)
(* towards 1.0 when overloaded, the linear step towards 0.0 otherwise.     *)
(***************************************************************************)
NextKillRate(kill_rate, overloaded) ==
    IF overloaded
    THEN LET up == kill_rate + CeilDiv(StepUp * (KillScale - kill_rate), KillScale)
         IN  IF up < KillScale THEN up ELSE KillScale
    ELSE IF kill_rate - StepDown > 0 THEN kill_rate - StepDown ELSE 0

\* update_kill_rate only changes the kill rate when the snapshot of
\* last_update is more than UpdateInterval old.
UpdateDue(now, last_update) == SaturatingSince(now, last_update) > UpdateInterval

(***************************************************************************)
(* KillState::log_event, applied to a state whose kill_rate and            *)
(* last_update were just set: the event it reports, and the state it       *)
(* leaves.                                                                 *)
(***************************************************************************)
LogEvent(s, now, kill_rate, overloaded) ==
    IF s.overload_start # NoInstant
    THEN IF ~overloaded
         THEN IF kill_rate = 0 THEN "Resolved" ELSE "Settling"
         ELSE IF SaturatingSince(now, s.last_overload_log) > OngoingLogInterval
              THEN "Ongoing" ELSE "Skip"
    ELSE IF overloaded THEN "Start" ELSE "Skip"

LogEventState(s, now, kill_rate, overloaded) ==
    CASE LogEvent(s, now, kill_rate, overloaded) = "Resolved" ->
            [s EXCEPT !.overload_start = NoInstant]
      [] LogEvent(s, now, kill_rate, overloaded) = "Ongoing" ->
            [s EXCEPT !.last_overload_log = now]
      [] LogEvent(s, now, kill_rate, overloaded) = "Start" ->
            [s EXCEPT !.overload_start = now, !.last_overload_log = now]
      [] OTHER -> s

\* Mutant of CommitKillRate: the new kill_rate is not stored.
CommitKillRateKeepingRate(s, now, kill_rate, overloaded) ==
    LogEventState([s EXCEPT !.last_update = now], now, kill_rate, overloaded)

(***************************************************************************)
(* The critical section of update_kill_rate under the write lock: commit   *)
(* kill_rate and last_update = now, then log_event.  The log message it    *)
(* selects is written after the lock is released and changes no state.     *)
(***************************************************************************)
CommitKillRate(s, now, kill_rate, overloaded) ==
    LogEventState([s EXCEPT !.kill_rate = kill_rate, !.last_update = now],
                  now, kill_rate, overloaded)
=============================================================================
