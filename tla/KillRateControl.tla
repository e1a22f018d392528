-------------------------- MODULE KillRateControl --------------------------
(***************************************************************************)
(* The kill-rate control loop of LoadManager::decide in isolation          *)
(* (src/src/data/graphql/effort.rs), with unbounded traffic and time.      *)
(*                                                                         *)
(* Each decider is one call of decide that gets past the jailed and        *)
(* blocked checks: it reads overloaded() and the (kill_rate, last_update)  *)
(* snapshot, may return early (no effort recorded yet, or the query is     *)
(* jailed), compares now with the snapshot in update_kill_rate, and        *)
(* commits under the write lock.  Whether the system is overloaded is the  *)
(* environment.                                                            *)
(*                                                                         *)
(* Time: only differences of instants matter, so when the clock reaches    *)
(* ClockLimit it stays there and every stored instant moves one tick back  *)
(* instead (floored at 0).  Differences above ClockLimit, more than every  *)
(* interval the code compares with, are merged.                            *)
(***************************************************************************)
EXTENDS KillState

CONSTANTS
    Deciders,     \* concurrent decide calls
    ClockLimit,   \* the horizon of the clock
    StartTimes    \* clock values the process may start at

ASSUME /\ ClockLimit > UpdateInterval + 1 /\ ClockLimit > OngoingLogInterval + 1
       /\ StartTimes \subseteq 0..ClockLimit

VARIABLES
    clock,          \* Instant::now()
    overloadedNow,  \* what LoadManager::overloaded would return now
    killState,      \* LoadManager.kill_state
    pc,             \* where each decider is
    snap            \* each decider's snapshot and computed kill rate

vars == <<clock, overloadedNow, killState, pc, snap>>

NoSnapshot == [overloaded |-> FALSE, kill_rate |-> 0, last_update |-> 0, now |-> 0]

\* An instant seen one tick later, relative to a clock that stays put.
Earlier(t) == IF t = NoInstant THEN NoInstant ELSE IF t > 0 THEN t - 1 ELSE 0

Done(d) == pc' = [pc EXCEPT ![d] = "idle"] /\ snap' = [snap EXCEPT ![d] = NoSnapshot]

Init ==
    /\ clock \in StartTimes
    /\ overloadedNow \in BOOLEAN
    /\ killState = KillStateNew(clock)
    /\ pc = [d \in Deciders |-> "idle"]
    /\ snap = [d \in Deciders |-> NoSnapshot]

\* decide: overloaded(), then kill_state(); it returns Proceed at once
\* when the system is fine and nothing is being dropped.
Snapshot(d) ==
    /\ pc[d] = "idle"
    /\ overloadedNow \/ killState.kill_rate > 0
    /\ snap' = [snap EXCEPT ![d] = [overloaded |-> overloadedNow,
                                    kill_rate |-> killState.kill_rate,
                                    last_update |-> killState.last_update,
                                    now |-> 0]]
    /\ pc' = [pc EXCEPT ![d] = "update"]
    /\ UNCHANGED <<clock, overloadedNow, killState>>

\* decide returns before update_kill_rate: total effort is zero, or the
\* query gets jailed.
EarlyReturn(d) ==
    /\ pc[d] = "update"
    /\ Done(d)
    /\ UNCHANGED <<clock, overloadedNow, killState>>

\* update_kill_rate before the lock: now against the snapshot's last_update.
Update(d) ==
    /\ pc[d] = "update"
    /\ IF UpdateDue(clock, snap[d].last_update)
       THEN /\ snap' = [snap EXCEPT ![d].kill_rate = NextKillRate(@, snap[d].overloaded),
                                    ![d].now = clock]
            /\ pc' = [pc EXCEPT ![d] = "commit"]
       ELSE Done(d)
    /\ UNCHANGED <<clock, overloadedNow, killState>>

\* update_kill_rate under the write lock of kill_state.
Commit(d) ==
    /\ pc[d] = "commit"
    /\ killState' = CommitKillRate(killState, snap[d].now, snap[d].kill_rate,
                                   snap[d].overloaded)
    /\ Done(d)
    /\ UNCHANGED <<clock, overloadedNow>>

Tick ==
    /\ clock < ClockLimit
    /\ clock' = clock + 1
    /\ UNCHANGED <<overloadedNow, killState, pc, snap>>

TickAtHorizon ==
    /\ clock = ClockLimit
    /\ killState' = [killState EXCEPT !.last_update = Earlier(@),
                                      !.overload_start = Earlier(@),
                                      !.last_overload_log = Earlier(@)]
    /\ snap' = [d \in Deciders |-> [snap[d] EXCEPT !.last_update = Earlier(@),
                                                   !.now = Earlier(@)]]
    /\ UNCHANGED <<clock, overloadedNow, pc>>

LoadChange ==
    /\ overloadedNow' = ~overloadedNow
    /\ UNCHANGED <<clock, killState, pc, snap>>

Next ==
    \/ \E d \in Deciders : Snapshot(d) \/ EarlyReturn(d) \/ Update(d) \/ Commit(d)
    \/ Tick \/ TickAtHorizon \/ LoadChange

(***************************************************************************)
(* Fairness: queries keep arriving (Snapshot), a started decide runs to    *)
(* its end (Commit), time passes, and decide does not return early forever *)
(* (strong fairness on Update): an early return means the effort window is *)
(* empty or the query is jailed, and queries that proceed refill it.       *)
(***************************************************************************)
Fairness ==
    /\ \A d \in Deciders : WF_vars(Snapshot(d)) /\ SF_vars(Update(d)) /\ WF_vars(Commit(d))
    /\ WF_vars(Tick \/ TickAtHorizon)

Spec == Init /\ [][Next]_vars /\ Fairness

-----------------------------------------------------------------------------
TypeOK ==
    /\ clock \in 0..ClockLimit
    /\ overloadedNow \in BOOLEAN
    /\ killState \in KillStates(0..ClockLimit)
    /\ pc \in [Deciders -> {"idle", "update", "commit"}]
    /\ snap \in [Deciders -> [overloaded: BOOLEAN, kill_rate: KillRates,
                              last_update: 0..ClockLimit, now: 0..ClockLimit]]

(***************************************************************************)
(* Once the overload is over for good, the control loop winds down: the    *)
(* kill rate returns to 0 and stays there, and overload_start is cleared,  *)
(* whatever stale snapshots the deciders still hold.                       *)
(***************************************************************************)
Recovers ==
    <>[]~overloadedNow =>
        <>[](killState.kill_rate = 0 /\ killState.overload_start = NoInstant)

(***************************************************************************)
(* Under a lasting overload the loop engages for good: the kill rate       *)
(* becomes and stays positive, and overload_start is set.                  *)
(***************************************************************************)
Engages ==
    <>[]overloadedNow =>
        <>[](killState.kill_rate > 0 /\ killState.overload_start # NoInstant)

(***************************************************************************)
(* overload_start is None only while the kill rate is 0 (spec section 3:  *)
(* "overload_start = None <=> non-overloaded with kill_rate = 0").         *)
(***************************************************************************)
OverloadStartConsistent ==
    killState.overload_start = NoInstant => killState.kill_rate = 0
=============================================================================
