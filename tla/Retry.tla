------------------------------- MODULE Retry -------------------------------
(***************************************************************************)
(* The retry helper of src/src/util/futures.rs: the builder returned by    *)
(* retry(), whose properties may each be configured once, and run_retry,   *)
(* which drives tokio_retry::Retry::spawn with an exponential backoff cut  *)
(* to the limit.  Each call of the helper goes through configure, run,     *)
(* attempts, and a final result; after it ends the program may call       *)
(* retry() again.                                                          *)
(*                                                                         *)
(* Data abstraction: an attempt's result is "ok", "err" or "elapsed" (the  *)
(* timeout fired), with whether the condition asks for another attempt.   *)
(* Delays, logging and log_after/warn_after only affect log output.       *)
(***************************************************************************)
EXTENDS Integers

CONSTANTS
    Limits,       \* the values callers pass to limit()
    UsizeMax,     \* usize::MAX (2^64 - 1), the value of 0usize - 1 in release builds
    MaxAttempts   \* the attempt count saturates here (it only feeds logging)

ASSUME Limits \subseteq Nat /\ UsizeMax > MaxAttempts /\ MaxAttempts \in Nat

\* A backoff without end (limit cleared): Retry::spawn never runs out of delays.
Unbounded == -1

NoOutcome == [res |-> "none", retry |-> FALSE]

VARIABLES
    phase,      \* config, ready (timeout chosen), running, done, panicked
    condition,  \* RetryIf: "Error" or "Predicate"
    limit,      \* RetryConfigProperty<usize>
    mode,       \* "unset", "timeout" (RetryConfigWithTimeout) or "none"
    remaining,  \* delays left in the strategy iterator
    attempts,   \* attempt_count
    last,       \* the last attempt's result and the condition's verdict
    sets        \* history: limit()/no_limit() calls on the current builder

vars == <<phase, condition, limit, mode, remaining, attempts, last, sets>>

Larger(a, b) == IF a >= b THEN a ELSE b

\* Mutant of RetryStrategy: the limit is taken as the number of delays.
RetryStrategyOneTooMany(n) == n

\* Mutant of RetryStrategy: one delay too few.
RetryStrategyOneTooFew(n) == IF n >= 2 THEN n - 2 ELSE 0

\* retry_strategy with Some(limit): backoff.take(limit - 1), where the
\* subtraction wraps around in a release build.
RetryStrategy(n) == IF n >= 1 THEN n - 1 ELSE UsizeMax

\* attempt_count += 1.  The count only decides when retries are logged; the
\* model keeps it as a measure and stops it at MaxAttempts, above every
\* limit of the configurations.
CountAttempt(a) == IF a < MaxAttempts THEN a + 1 ELSE a

\* Mutant of NextDelay: an endless backoff is counted down too.
NextDelayCountingDown(r) == r - 1

\* The strategy iterator yields its next delay: the count left shrinks
\* unless the backoff is endless.
NextDelay(r) == IF r = Unbounded THEN Unbounded ELSE r - 1

\* retry(): a fresh builder.
Fresh ==
    /\ phase' = "config"
    /\ condition' = "Error"
    /\ limit' = [kind |-> "Unknown", n |-> 0]
    /\ mode' = "unset"
    /\ remaining' = 0
    /\ attempts' = 0
    /\ last' = NoOutcome
    /\ sets' = 0

Init ==
    /\ phase = "config"
    /\ condition = "Error"
    /\ limit = [kind |-> "Unknown", n |-> 0]
    /\ mode = "unset"
    /\ remaining = 0
    /\ attempts = 0
    /\ last = NoOutcome
    /\ sets = 0

When ==
    /\ phase = "config"
    /\ condition' = "Predicate"
    /\ UNCHANGED <<phase, limit, mode, remaining, attempts, last, sets>>

\* Mutant of SetLimit: the "configured before" test is inverted.
SetLimitInverted(p) ==
    /\ phase = "config"
    /\ IF limit.kind = "Unknown"
       THEN phase' = "panicked" /\ UNCHANGED limit
       ELSE limit' = p /\ UNCHANGED phase
    /\ sets' = sets + 1
    /\ UNCHANGED <<condition, mode, remaining, attempts, last>>

\* limit(n) and no_limit() call RetryConfigProperty::set / clear, which
\* panic when the property was configured before.
SetLimit(p) ==
    /\ phase = "config"
    /\ IF limit.kind # "Unknown"
       THEN phase' = "panicked" /\ UNCHANGED limit
       ELSE limit' = p /\ UNCHANGED phase
    /\ sets' = sets + 1
    /\ UNCHANGED <<condition, mode, remaining, attempts, last>>

Limit(n) == SetLimit([kind |-> "Set", n |-> n])

NoLimit == SetLimit([kind |-> "Clear", n |-> 0])

\* timeout(..) or no_timeout(): the builder turns into the runnable config.
ChooseTimeout(m) ==
    /\ phase = "config"
    /\ phase' = "ready"
    /\ mode' = m
    /\ UNCHANGED <<condition, limit, remaining, attempts, last, sets>>

(***************************************************************************)
(* run: limit.unwrap panics if the limit was never configured; then        *)
(* run_retry builds the strategy.  limit(0) makes 0 - 1 underflow: a debug *)
(* build panics, a release build wraps to usize::MAX.                      *)
(***************************************************************************)
Run ==
    /\ phase = "ready"
    /\ \/ limit.kind = "Unknown" /\ phase' = "panicked" /\ UNCHANGED remaining
       \/ limit.kind = "Clear" /\ phase' = "running" /\ remaining' = Unbounded
       \/ limit.kind = "Set" /\ phase' = "running" /\ remaining' = RetryStrategy(limit.n)
       \/ limit.kind = "Set" /\ limit.n = 0 /\ phase' = "panicked" /\ UNCHANGED remaining
    /\ UNCHANGED <<condition, limit, mode, attempts, last, sets>>

\* RetryIf::check: RetryIf::Error asks for a retry on any Err; the caller's
\* predicate may answer either way.
Check(cond, res) == IF cond = "Predicate" THEN BOOLEAN ELSE {res = "err"}

\* TimeoutError::is_elapsed: the attempt's timeout fired.
IsElapsed(res) == res = "elapsed"

(***************************************************************************)
(* One attempt and its handling in the closure of run_retry: a timeout     *)
(* always asks for a retry; otherwise the condition decides (any error     *)
(* for RetryIf::Error, the caller's predicate for RetryIf::Predicate).     *)
(* Retry::spawn then takes the next delay and tries again, or, with none   *)
(* left or no retry wanted, ends with this result.                         *)
(***************************************************************************)
Attempt ==
    /\ phase = "running"
    /\ \E res \in IF mode = "timeout" THEN {"ok", "err", "elapsed"} ELSE {"ok", "err"} :
       \E verdict \in Check(condition, res) :
         LET retry == IsElapsed(res) \/ verdict IN
         /\ attempts' = CountAttempt(attempts)
         /\ last' = [res |-> res, retry |-> retry]
         /\ IF retry /\ remaining # 0
            THEN /\ remaining' = NextDelay(remaining)
                 /\ UNCHANGED phase
            ELSE phase' = "done" /\ UNCHANGED remaining
    /\ UNCHANGED <<condition, limit, mode, sets>>

\* The program calls retry() again once the last call has ended.
NewCall ==
    /\ phase \in {"done", "panicked"}
    /\ Fresh

Next ==
    \/ When
    \/ \E n \in Limits : Limit(n)
    \/ NoLimit
    \/ \E m \in {"timeout", "none"} : ChooseTimeout(m)
    \/ Run
    \/ Attempt
    \/ NewCall

\* No fairness: the program is not assumed to build, run or finish calls.
Spec == Init /\ [][Next]_vars

-----------------------------------------------------------------------------
TypeOK ==
    /\ phase \in {"config", "ready", "running", "done", "panicked"}
    /\ condition \in {"Error", "Predicate"}
    /\ limit \in [kind: {"Unknown", "Set", "Clear"}, n: Nat]
    /\ mode \in {"unset", "timeout", "none"}
    /\ remaining \in Nat \cup {Unbounded}
    /\ attempts \in Nat
    /\ last \in [res: {"none", "ok", "err", "elapsed"}, retry: BOOLEAN]
    /\ sets \in Nat

(***************************************************************************)
(* limit(n) is a limit on the attempts (doc comment of limit, the comment  *)
(* at retry_strategy, test limit_reached): a call configured with limit(n) *)
(* never makes more than n attempts (at least one is always made).         *)
(***************************************************************************)
AttemptsWithinLimit ==
    (limit.kind = "Set" /\ phase \in {"running", "done"})
        => attempts <= Larger(limit.n, 1)

(***************************************************************************)
(* A call only ends with a result its condition (or a timeout) asked to    *)
(* retry when it ran out of attempts: with limit(n) after exactly n, and   *)
(* never with no_limit().                                                  *)
(***************************************************************************)
GivesUpOnlyAtLimit ==
    (phase = "done" /\ last.retry)
        => limit.kind = "Set" /\ attempts = Larger(limit.n, 1)

(***************************************************************************)
(* The builder panics only when it is misused (RetryConfigProperty::set,  *)
(* clear and unwrap, futures.rs:359-380): a call that configured limit() *)
(* or no_limit() exactly once is never stopped by a panic, except in a    *)
(* debug build through the limit(0) underflow of retry_strategy.          *)
(***************************************************************************)
PanicsOnlyOnMisuse ==
    phase = "panicked" => sets # 1 \/ limit = [kind |-> "Set", n |-> 0]

=============================================================================
