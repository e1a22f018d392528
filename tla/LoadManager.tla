---------------------------- MODULE LoadManager ----------------------------
(***************************************************************************)
(* The query load manager (src/src/data/graphql/effort.rs) with the        *)
(* handlers that call it concurrently.                                     *)
(*                                                                         *)
(* Each handler serves requests one after another: it takes a permit from  *)
(* the query semaphore (query_permit), calls decide, and on Proceed runs   *)
(* the query and calls record_work before it drops the permit.  decide     *)
(* takes one short lock after another (jailed_queries, the wait stats,     *)
(* kill_state, the effort map, jailed_queries again, kill_state again), so *)
(* every lock section is one atomic step and other handlers interleave     *)
(* between them.  The pool wait statistics of the store and the clock are  *)
(* the environment.                                                        *)
(***************************************************************************)
EXTENDS KillState, Sequences, FiniteSets, TLC

CONSTANTS
    Handlers,       \* the tasks that serve queries
    Shapes,         \* query shape hashes
    Blocked,        \* blocked_queries, fixed at construction
    LoadThreshold,  \* LOAD_THRESHOLD in clock ticks; 0 disables load management
    JailQueries,    \* JAIL_QUERIES: GRAPH_LOAD_JAIL_THRESHOLD is set
    JailNum,        \* JAIL_THRESHOLD = JailNum / JailDen
    JailDen,
    Simulate,       \* SIMULATE: GRAPH_LOAD_SIMULATE is set
    MaxConcurrent,  \* the permits of query_semaphore
    Durations,      \* work durations passed to record_work, in 1/SubMs ms
    SubMs,          \* Duration resolution below one millisecond
    StoreAvgs,      \* values the store's pool wait average may take
    StartTimes,     \* clock values the process may start at
    ClockLimit,     \* bound of the model clock
    MaxRequests     \* bound on the requests each handler serves

NoData == -1    \* MovingStats::average() = None

ASSUME /\ Blocked \subseteq Shapes
       /\ LoadThreshold \in Nat /\ JailNum \in Nat /\ JailDen \in Nat \ {0}
       /\ JailQueries \in BOOLEAN /\ Simulate \in BOOLEAN
       /\ MaxConcurrent \in Nat \ {0} /\ SubMs \in Nat \ {0}
       /\ Durations \subseteq Nat \ {0} /\ StoreAvgs \subseteq Nat \cup {NoData}
       /\ StartTimes \subseteq 0..ClockLimit

\* LOAD_MANAGEMENT_DISABLED
Disabled == LoadThreshold = 0

VARIABLES
    clock,        \* Instant::now()
    killState,    \* LoadManager.kill_state
    jailed,       \* LoadManager.jailed_queries
    effort,       \* QueryEffortInner.effort: shape -> summed duration
    total,        \* QueryEffortInner.total
    storeAvg,     \* the PoolWaitStats average passed to decide
    semWait,      \* semaphore_wait_stats: [sum, count] of permit waits
    permits,      \* free permits of query_semaphore
    waitQ,        \* tasks queued in acquire_owned, in arrival order
    pc,           \* where each handler is
    loc,          \* each handler's locals
    served        \* requests each handler has served

vars == <<clock, killState, jailed, effort, total, storeAvg, semWait,
          permits, waitQ, pc, loc, served>>

Decisions == {"Proceed", "TooExpensive", "Throttle", "None"}

\* The locals of a handler between two requests.
NoLocals == [shape |-> CHOOSE s \in Shapes : TRUE, start |-> 0,
             overloaded |-> FALSE, wait |-> 0, kill_rate |-> 0, last_update |-> 0,
             query_ms |-> 0, total_ms |-> 0, known |-> FALSE, now |-> 0,
             result |-> "None"]

\* Handlers that hold a permit.
Holding == {"granted", "decide", "overloaded", "killstate", "effort", "jail",
            "update", "commit", "drop", "execute", "release"}

Ms(d) == d \div SubMs   \* Duration::as_millis

\* MovingStats::average over the recorded waits (Duration / u32 truncates).
SemAvg == IF semWait.count = 0 THEN NoData ELSE semWait.sum \div semWait.count

Larger(a, b) == IF a >= b THEN a ELSE b

(***************************************************************************)
(* f64 comparisons of decide on millisecond values q and t.  When t = 0,   *)
(* q / t is NaN (q = 0) or +inf (q > 0); NaN > x is false, and             *)
(* NaN.min(1.0) is 1.0, so the drop probability of a NaN product is 1.     *)
(***************************************************************************)
JailRatioExceeded(q, t) ==
    IF t = 0 THEN q > 0 ELSE q * JailDen > JailNum * t

\* gen_bool((kill_rate * q / t).min(1.0).max(0.0)) may return true
MayDecline(kr, q, t) == t = 0 \/ kr * q > 0
\* ... and may return false
MayAdmit(kr, q, t) == t # 0 /\ kr * q < KillScale * t

Goto(h, p) == pc' = [pc EXCEPT ![h] = p]

\* decide returns d: the handler runs the query on Proceed, else drops
\* its permit with the error.
Return(h, d) ==
    /\ loc' = [loc EXCEPT ![h].result = d]
    /\ Goto(h, IF d = "Proceed" THEN "execute" ELSE "release")

\* A rejection decide would make, turned into Proceed in simulate mode.
Reject(d) == IF Simulate THEN "Proceed" ELSE d

-----------------------------------------------------------------------------
Init ==
    /\ clock \in StartTimes
    /\ killState = KillStateNew(clock)
    /\ jailed = {}
    /\ effort = <<>>
    /\ total = 0
    /\ storeAvg \in StoreAvgs
    /\ semWait = [sum |-> 0, count |-> 0]
    /\ permits = MaxConcurrent
    /\ waitQ = <<>>
    /\ pc = [h \in Handlers |-> "idle"]
    /\ loc = [h \in Handlers |-> NoLocals]
    /\ served = [h \in Handlers |-> 0]

\* query_permit: note the start instant and queue on the semaphore.
QueryPermit(h) ==
    /\ pc[h] = "idle"
    /\ served[h] < MaxRequests
    /\ \E s \in Shapes : loc' = [loc EXCEPT ![h] = [NoLocals EXCEPT !.shape = s,
                                                                    !.start = clock]]
    /\ waitQ' = Append(waitQ, h)
    /\ Goto(h, "waiting")
    /\ UNCHANGED <<clock, killState, jailed, effort, total, storeAvg, semWait,
                   permits, served>>

\* Mutant of Grant: the semaphore hands a free permit to any waiter.
GrantAnyWaiter(h) ==
    /\ pc[h] = "waiting"
    /\ \E i \in 1..Len(waitQ) :
         /\ waitQ[i] = h
         /\ waitQ' = SubSeq(waitQ, 1, i - 1) \o SubSeq(waitQ, i + 1, Len(waitQ))
    /\ permits > 0
    /\ permits' = permits - 1
    /\ Goto(h, "granted")
    /\ UNCHANGED <<clock, killState, jailed, effort, total, storeAvg, semWait,
                   loc, served>>

\* The fair tokio semaphore hands a free permit to the first waiter.
Grant(h) ==
    /\ pc[h] = "waiting"
    /\ waitQ # <<>> /\ Head(waitQ) = h
    /\ permits > 0
    /\ permits' = permits - 1
    /\ waitQ' = Tail(waitQ)
    /\ Goto(h, "granted")
    /\ UNCHANGED <<clock, killState, jailed, effort, total, storeAvg, semWait,
                   loc, served>>

\* add_wait_time(start.elapsed()) once the task runs again.
AddWaitTime(h) ==
    /\ pc[h] = "granted"
    /\ semWait' = [sum |-> semWait.sum + (clock - loc[h].start),
                   count |-> semWait.count + 1]
    /\ Goto(h, "decide")
    /\ UNCHANGED <<clock, killState, jailed, effort, total, storeAvg, permits,
                   waitQ, loc, served>>

\* decide: the blocked list, the disabled switch and the jailed set.
DecideAdmission(h) ==
    /\ pc[h] = "decide"
    /\ LET s == loc[h].shape IN
       CASE s \in Blocked -> Return(h, "TooExpensive")
         [] Disabled      -> Return(h, "Proceed")
         [] s \in jailed  -> Return(h, Reject("TooExpensive"))
         [] OTHER         -> Goto(h, "overloaded") /\ UNCHANGED loc
    /\ UNCHANGED <<clock, killState, jailed, effort, total, storeAvg, semWait,
                   permits, waitQ, served>>

\* decide: LoadManager::overloaded reads both wait averages.
Overloaded(h) ==
    /\ pc[h] = "overloaded"
    /\ LET maxAvg == Larger(storeAvg, SemAvg)
       IN  loc' = [loc EXCEPT ![h].overloaded = maxAvg # NoData /\ maxAvg > LoadThreshold,
                              ![h].wait = Larger(maxAvg, 0)]
    /\ Goto(h, "killstate")
    /\ UNCHANGED <<clock, killState, jailed, effort, total, storeAvg, semWait,
                   permits, waitQ, served>>

\* decide: the snapshot of (kill_rate, last_update); nothing to do when
\* the system is fine and nothing is being dropped.
ReadKillState(h) ==
    /\ pc[h] = "killstate"
    /\ IF ~loc[h].overloaded /\ killState.kill_rate = 0
       THEN Return(h, "Proceed")
       ELSE /\ loc' = [loc EXCEPT ![h].kill_rate = killState.kill_rate,
                                  ![h].last_update = killState.last_update]
            /\ Goto(h, "effort")
    /\ UNCHANGED <<clock, killState, jailed, effort, total, storeAvg, semWait,
                   permits, waitQ, served>>

\* decide: current_effort under the read lock, then the jail test.
ReadEffort(h) ==
    /\ pc[h] = "effort"
    /\ LET s     == loc[h].shape
           known == s \in DOMAIN effort
           q     == Ms(IF known THEN effort[s] ELSE total)
           t     == Ms(total)
       IN  IF total = 0
           THEN Return(h, "Proceed")
           ELSE /\ loc' = [loc EXCEPT ![h].known = known, ![h].query_ms = q,
                                      ![h].total_ms = t]
                /\ Goto(h, IF known /\ JailQueries /\ JailRatioExceeded(q, t)
                           THEN "jail" ELSE "update")
    /\ UNCHANGED <<clock, killState, jailed, effort, total, storeAvg, semWait,
                   permits, waitQ, served>>

\* decide: jail the query under the write lock of jailed_queries.
JailQuery(h) ==
    /\ pc[h] = "jail"
    /\ jailed' = jailed \cup {loc[h].shape}
    /\ Return(h, Reject("TooExpensive"))
    /\ UNCHANGED <<clock, killState, effort, total, storeAvg, semWait,
                   permits, waitQ, served>>

\* update_kill_rate, before the lock: read now and compare it with the
\* snapshot of last_update taken in ReadKillState.
UpdateKillRate(h) ==
    /\ pc[h] = "update"
    /\ IF UpdateDue(clock, loc[h].last_update)
       THEN /\ loc' = [loc EXCEPT ![h].kill_rate = NextKillRate(@, loc[h].overloaded),
                                  ![h].now = clock]
            /\ Goto(h, "commit")
       ELSE Goto(h, "drop") /\ UNCHANGED loc
    /\ UNCHANGED <<clock, killState, jailed, effort, total, storeAvg, semWait,
                   permits, waitQ, served>>

\* update_kill_rate, under the write lock of kill_state.
CommitUpdate(h) ==
    /\ pc[h] = "commit"
    /\ killState' = CommitKillRate(killState, loc[h].now, loc[h].kill_rate,
                                   loc[h].overloaded)
    /\ Goto(h, "drop")
    /\ UNCHANGED <<clock, jailed, effort, total, storeAvg, semWait,
                   permits, waitQ, loc, served>>

\* decide: drop the query with probability kill_rate * query / total.
DropOrProceed(h) ==
    /\ pc[h] = "drop"
    /\ LET kr == loc[h].kill_rate
           q  == loc[h].query_ms
           t  == loc[h].total_ms
       IN  \/ MayDecline(kr, q, t) /\ Return(h, Reject("Throttle"))
           \/ MayAdmit(kr, q, t)   /\ Return(h, "Proceed")
    /\ UNCHANGED <<clock, killState, jailed, effort, total, storeAvg, semWait,
                   permits, waitQ, served>>

(***************************************************************************)
(* QueryEffortInner::add: the duration goes to the shape's stats (created *)
(* on first use) and to the total, under one write lock.  The sliding     *)
(* window of MovingStats (util/stats.rs, not in this tree) is abstracted  *)
(* away: effort and total are sums over all recorded work.  In the code a *)
(* shape's bins are pruned only on its own add_at and the total's on     *)
(* every add, so a shape's effort can exceed the total; no property here *)
(* relies on how the two compare.                                         *)
(***************************************************************************)
AddEffort(s, d) ==
    /\ effort' = IF s \in DOMAIN effort
                 THEN [effort EXCEPT ![s] = @ + d]
                 ELSE effort @@ (s :> d)
    /\ total' = total + d

\* The query ran; record_work adds its duration to the effort of its
\* shape and to the total, both under one write lock.
RecordWork(h) ==
    /\ pc[h] = "execute"
    /\ IF Disabled
       THEN UNCHANGED <<effort, total>>
       ELSE \E d \in Durations : AddEffort(loc[h].shape, d)
    /\ Goto(h, "release")
    /\ UNCHANGED <<clock, killState, jailed, storeAvg, semWait, permits, waitQ,
                   loc, served>>

\* The permit is dropped at the end of the request, whatever decide said.
ReleasePermit(h) ==
    /\ pc[h] = "release"
    /\ permits' = permits + 1
    /\ loc' = [loc EXCEPT ![h] = NoLocals]
    /\ served' = [served EXCEPT ![h] = @ + 1]
    /\ Goto(h, "idle")
    /\ UNCHANGED <<clock, killState, jailed, effort, total, storeAvg, semWait, waitQ>>

-----------------------------------------------------------------------------
(* Environment *)

Tick ==
    /\ clock < ClockLimit
    /\ clock' = clock + 1
    /\ UNCHANGED <<killState, jailed, effort, total, storeAvg, semWait, permits,
                   waitQ, pc, loc, served>>

\* The store's connection pool wait average moves on its own.
PoolWaitChange ==
    /\ storeAvg' \in StoreAvgs \ {storeAvg}
    /\ UNCHANGED <<clock, killState, jailed, effort, total, semWait, permits,
                   waitQ, pc, loc, served>>

-----------------------------------------------------------------------------
\* The steps a handler takes once it has asked for a permit.
Serve(h) ==
    \/ Grant(h) \/ AddWaitTime(h) \/ DecideAdmission(h) \/ Overloaded(h)
    \/ ReadKillState(h) \/ ReadEffort(h) \/ JailQuery(h) \/ UpdateKillRate(h)
    \/ CommitUpdate(h) \/ DropOrProceed(h) \/ RecordWork(h) \/ ReleasePermit(h)

Next ==
    \/ \E h \in Handlers : QueryPermit(h) \/ Serve(h)
    \/ Tick
    \/ PoolWaitChange

\* Only safety is checked: no fairness is assumed.
Spec == Init /\ [][Next]_vars

(***************************************************************************)
(* Refinement mapping to Admission: every step of decide before its return *)
(* is part of deciding; the decision is the handler's result.              *)
(***************************************************************************)
AdmissionPc(p) ==
    CASE p \in {"idle", "waiting"} -> p
      [] p = "execute"             -> "executing"
      [] p = "release"             -> "releasing"
      [] OTHER                     -> "deciding"

Adm == INSTANCE Admission WITH
    Requesters <- Handlers, Kinds <- Shapes, Refused <- Blocked,
    Permits <- MaxConcurrent,
    aPc <- [h \in Handlers |-> AdmissionPc(pc[h])],
    aShape <- [h \in Handlers |-> loc[h].shape],
    aResult <- [h \in Handlers |-> loc[h].result],
    aQueue <- waitQ, aFree <- permits, aJailed <- jailed

-----------------------------------------------------------------------------
(* Properties *)

Phases == {"idle", "waiting"} \cup Holding

TypeOK ==
    /\ clock \in 0..ClockLimit
    /\ killState \in KillStates(0..ClockLimit)
    /\ jailed \subseteq Shapes
    /\ DOMAIN effort \subseteq Shapes /\ \A s \in DOMAIN effort : effort[s] \in Nat
    /\ total \in Nat
    /\ storeAvg \in StoreAvgs
    /\ semWait \in [sum: Nat, count: Nat]
    /\ permits \in 0..MaxConcurrent
    /\ waitQ \in Seq(Handlers)
    /\ pc \in [Handlers -> Phases]
    /\ \A h \in Handlers : loc[h].result \in Decisions /\ loc[h].shape \in Shapes
    /\ served \in [Handlers -> 0..MaxRequests]

(***************************************************************************)
(* A query is throttled only when the kill rate decide used is above zero *)
(* (the probability kill_rate * query_effort / total_effort is then 0).   *)
(***************************************************************************)
ThrottleNeedsKillRate ==
    \A h \in Handlers : loc[h].result = "Throttle" => loc[h].kill_rate > 0

(***************************************************************************)
(* KillState.last_update never moves back: spec section 3 lists it as     *)
(* monotonic.  update_kill_rate reads now before it takes the write lock. *)
(***************************************************************************)
LastUpdateMonotonic ==
    [][killState'.last_update >= killState.last_update]_killState

(***************************************************************************)
(* The load manager implements Admission: permits go out in arrival order  *)
(* and come back after the one decision of each request; blocked shapes    *)
(* are always refused, and another shape only when the jail holds it.      *)
(***************************************************************************)
AdmissionSpec == Adm!SafetySpec
=============================================================================
