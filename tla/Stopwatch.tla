----------------------------- MODULE Stopwatch -----------------------------
(***************************************************************************)
(* StopwatchMetrics (src/src/components/metrics/stopwatch.rs): named       *)
(* sections on one stack, shared by the tasks that hold a clone of the     *)
(* stopwatch.  Every start or end of a section takes the mutex, adds the   *)
(* time since the last reset to the counter of the section on top of the   *)
(* stack, and pushes or pops.  Each task keeps its Section guards and      *)
(* drops them in scope order (last started, first ended).                  *)
(***************************************************************************)
EXTENDS Integers, Sequences, SequencesExt, Functions

CONSTANTS
    Tasks,        \* tasks sharing one StopwatchMetrics
    Ids,          \* section names the tasks use
    MaxDepth,     \* bound on the guards a task holds at once
    MaxStack,     \* bound on the section stack (mismatched ends leave entries)
    ClockLimit    \* bound of the model clock

\* The base section started by StopwatchMetrics::new.
Base == "unknown"

Sections == Ids \cup {Base}

VARIABLES
    clock,     \* Instant::now()
    disabled,  \* StopwatchMetrics.disabled
    stack,     \* StopwatchInner.section_stack
    timer,     \* StopwatchInner.timer
    counter,   \* deployment_sync_secs{section}
    guards,    \* the Section guards each task holds, innermost last
    onTop      \* history: time each section spent on top while enabled

vars == <<clock, disabled, stack, timer, counter, guards, onTop>>

\* Mutant of Recorded: elapsed is computed as timer - now.
RecordedSwapped ==
    IF stack = <<>> THEN counter
    ELSE [counter EXCEPT ![Last(stack)] = @ + (timer - clock)]

\* record_and_reset: the counter of the top section gains the time since
\* the last reset (nothing when the stack is empty).
Recorded ==
    IF stack = <<>> THEN counter
    ELSE [counter EXCEPT ![Last(stack)] = @ + (clock - timer)]

\* Mutant of RecordAndReset: the timer is reset before elapsed is read.
RecordAndResetTimerFirst ==
    /\ counter' = counter
    /\ timer' = clock

\* record_and_reset, then the timer restarts at now.
RecordAndReset ==
    /\ counter' = Recorded
    /\ timer' = clock

Init ==
    /\ clock = 0
    /\ disabled = FALSE
    /\ stack = <<Base>>
    /\ timer = 0
    /\ counter = [s \in Sections |-> 0]
    /\ guards = [t \in Tasks |-> <<>>]
    /\ onTop = [s \in Sections |-> 0]

\* start_section: unless disabled, record, reset and push; the guard is
\* returned either way.
StartSection(t, id) ==
    /\ Len(guards[t]) < MaxDepth
    /\ guards' = [guards EXCEPT ![t] = Append(@, id)]
    /\ IF disabled
       THEN UNCHANGED <<stack, timer, counter>>
       ELSE RecordAndReset /\ stack' = Append(stack, id)
    /\ UNCHANGED <<clock, disabled, onTop>>

\* Dropping the innermost guard calls end_section(id): unless disabled, a
\* matching top is recorded and popped; a mismatched or missing top is
\* only logged.
EndSection(t) ==
    /\ guards[t] # <<>>
    /\ LET id == Last(guards[t]) IN
         IF ~disabled /\ stack # <<>> /\ Last(stack) = id
         THEN RecordAndReset /\ stack' = Front(stack)
         ELSE UNCHANGED <<stack, timer, counter>>
    /\ guards' = [guards EXCEPT ![t] = Front(@)]
    /\ UNCHANGED <<clock, disabled, onTop>>

Disable ==
    /\ ~disabled
    /\ disabled' = TRUE
    /\ UNCHANGED <<clock, stack, timer, counter, guards, onTop>>

Tick ==
    /\ clock < ClockLimit
    /\ clock' = clock + 1
    /\ onTop' = IF disabled \/ stack = <<>> THEN onTop
                ELSE [onTop EXCEPT ![Last(stack)] = @ + 1]
    /\ UNCHANGED <<disabled, stack, timer, counter, guards>>

Next ==
    \/ \E t \in Tasks, id \in Ids : StartSection(t, id)
    \/ \E t \in Tasks : EndSection(t)
    \/ Disable
    \/ Tick

Spec == Init /\ [][Next]_vars

\* State constraint: exploration stops where the stack reaches MaxStack.
StackBound == Len(stack) <= MaxStack

-----------------------------------------------------------------------------
TypeOK ==
    /\ clock \in 0..ClockLimit /\ timer \in 0..clock
    /\ disabled \in BOOLEAN
    /\ stack \in Seq(Sections)
    /\ counter \in [Sections -> 0..ClockLimit]
    /\ guards \in [Tasks -> Seq(Ids)]
    /\ \A t \in Tasks : Len(guards[t]) <= MaxDepth

(***************************************************************************)
(* While the stopwatch is enabled, every section's counter plus the time   *)
(* not yet recorded for the top section equals exactly the time that       *)
(* section spent on top of the stack: no time is lost, counted twice or    *)
(* given to the wrong section, whatever the tasks' starts and ends, and    *)
(* even after mismatched ends.                                             *)
(***************************************************************************)
TimeAttributedToTop ==
    ~disabled =>
        \A s \in Sections :
            counter[s] + (IF stack # <<>> /\ Last(stack) = s THEN clock - timer ELSE 0)
                = onTop[s]

(***************************************************************************)
(* Once every task has dropped all its Section guards, the stack is back   *)
(* to the base section: each task nests its own sections correctly, and    *)
(* spec section 4.2 requires sections to form a strict stack.              *)
(***************************************************************************)
StackReturnsToBase ==
    (~disabled /\ \A t \in Tasks : guards[t] = <<>>) => stack = <<Base>>
=============================================================================
