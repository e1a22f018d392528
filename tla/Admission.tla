----------------------------- MODULE Admission -----------------------------
(***************************************************************************)
(* What the query load manager promises a request, without kill rates,    *)
(* effort or clocks: a request queues for a permit of a fair semaphore,   *)
(* gets one in arrival order while fewer than Permits are out, receives   *)
(* one decision, runs if the decision is Proceed, and gives its permit    *)
(* back.  A blocked shape is always refused.  Any other shape is refused  *)
(* only when it is in the jail (put there by that very refusal, or        *)
(* earlier); the jail only grows and never holds a blocked shape.  Other  *)
(* decisions (Proceed or Throttle) may come for any unblocked shape: the  *)
(* jail test is made before the decision and may be stale.                *)
(***************************************************************************)
EXTENDS Naturals, Sequences

CONSTANTS Requesters, Kinds, Refused, Permits

VARIABLES
    aPc,      \* idle, waiting, deciding, executing, releasing
    aShape,   \* the shape of each requester's query
    aResult,  \* the decision, or "None" before it
    aQueue,   \* requesters waiting for a permit, in arrival order
    aFree,    \* permits not handed out
    aJailed   \* shapes in the jail

aVars == <<aPc, aShape, aResult, aQueue, aFree, aJailed>>

AnyKind == CHOOSE s \in Kinds : TRUE

Init ==
    /\ aPc = [h \in Requesters |-> "idle"]
    /\ aShape = [h \in Requesters |-> AnyKind]
    /\ aResult = [h \in Requesters |-> "None"]
    /\ aQueue = <<>>
    /\ aFree = Permits
    /\ aJailed = {}

Arrive(h) ==
    /\ aPc[h] = "idle"
    /\ \E s \in Kinds : aShape' = [aShape EXCEPT ![h] = s]
    /\ aPc' = [aPc EXCEPT ![h] = "waiting"]
    /\ aQueue' = Append(aQueue, h)
    /\ UNCHANGED <<aResult, aFree, aJailed>>

Admit(h) ==
    /\ aPc[h] = "waiting" /\ aQueue # <<>> /\ Head(aQueue) = h /\ aFree > 0
    /\ aPc' = [aPc EXCEPT ![h] = "deciding"]
    /\ aQueue' = Tail(aQueue)
    /\ aFree' = aFree - 1
    /\ UNCHANGED <<aShape, aResult, aJailed>>

Refuse(h) ==
    /\ aPc[h] = "deciding"
    /\ \/ aShape[h] \in Refused /\ UNCHANGED aJailed
       \/ aShape[h] \notin Refused /\ aJailed' = aJailed \cup {aShape[h]}
    /\ aResult' = [aResult EXCEPT ![h] = "TooExpensive"]
    /\ aPc' = [aPc EXCEPT ![h] = "releasing"]
    /\ UNCHANGED <<aShape, aQueue, aFree>>

Decide(h, d) ==
    /\ aPc[h] = "deciding" /\ aShape[h] \notin Refused
    /\ aResult' = [aResult EXCEPT ![h] = d]
    /\ aPc' = [aPc EXCEPT ![h] = IF d = "Proceed" THEN "executing" ELSE "releasing"]
    /\ UNCHANGED <<aShape, aQueue, aFree, aJailed>>

Execute(h) ==
    /\ aPc[h] = "executing"
    /\ aPc' = [aPc EXCEPT ![h] = "releasing"]
    /\ UNCHANGED <<aShape, aResult, aQueue, aFree, aJailed>>

Release(h) ==
    /\ aPc[h] = "releasing"
    /\ aPc' = [aPc EXCEPT ![h] = "idle"]
    /\ aShape' = [aShape EXCEPT ![h] = AnyKind]
    /\ aResult' = [aResult EXCEPT ![h] = "None"]
    /\ aFree' = aFree + 1
    /\ UNCHANGED <<aQueue, aJailed>>

Next ==
    \E h \in Requesters :
        \/ Arrive(h) \/ Admit(h) \/ Refuse(h) \/ Execute(h) \/ Release(h)
        \/ \E d \in {"Proceed", "Throttle"} : Decide(h, d)

SafetySpec == Init /\ [][Next]_aVars
=============================================================================
