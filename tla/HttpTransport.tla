--------------------------- MODULE HttpTransport ---------------------------
(***************************************************************************)
(* The HTTP transport of web3 (src/web3/src/transports/http.rs).           *)
(*                                                                         *)
(* Callers share one Http value.  A call is prepare (a request id from the *)
(* shared AtomicUsize) and send: the request goes, with the Sender half of *)
(* a oneshot, into an unbounded mpsc queue, and the caller awaits the      *)
(* Receiver.  A caller may drop its future, and so the Receiver, at any    *)
(* time.  The event loop pulls requests into buffer_unordered(max_parallel)*)
(* while it has room; hyper completes them in any order; for_each takes    *)
(* one completed response at a time, reads its body, and sends the result *)
(* on the oneshot, only logging when the Receiver is gone.  Dropping the   *)
(* EventLoopHandle ends the loop: every Sender it holds is dropped (the    *)
(* callers see Canceled) and later sends fail with BrokenPipe.             *)
(*                                                                         *)
(* A request is the record [c, k, id]: caller, the caller's call number    *)
(* (which names its oneshot) and the JSON-RPC id.                          *)
(***************************************************************************)
EXTENDS Integers, Sequences, FiniteSets

CONSTANTS
    Callers,      \* tasks calling the transport through clones of Http
    MaxParallel,  \* max_parallel of buffer_unordered
    IdBits,       \* width of usize for the request-id counter
    MaxCalls      \* bound on the calls each caller makes

ASSUME MaxParallel \in Nat \ {0} /\ IdBits \in Nat \ {0} /\ MaxCalls \in Nat

IdSpace == 2 ^ IdBits

NoRequest == [c |-> CHOOSE c \in Callers : TRUE, k |-> 0, id |-> 0]

\* for_each is between items.
NoItem == [req |-> NoRequest, status |-> "none"]

\* What a caller's Response future resolves to.
Results == {"ok", "bad_status", "http_err", "body_err", "canceled", "broken_pipe"}

VARIABLES
    nextId,    \* Http.id
    pc,        \* idle, prepared, waiting, answered
    calls,     \* calls each caller has started
    reqId,     \* the id prepare returned for the current call
    answer,    \* [req, res]: the request a caller's answer is for, and the answer
    loopUp,    \* the event loop runs (its handle is not dropped)
    writeQ,    \* the mpsc queue of (request, Sender)
    inflight,  \* requests buffer_unordered has started, not yet completed
    ready,     \* completed [req, status] buffer_unordered has not yielded
    current,   \* the response for_each is reading, or NoItem
    dropped    \* history: the owner has dropped the EventLoopHandle

vars == <<nextId, pc, calls, reqId, answer, loopUp, writeQ, inflight, ready, current, dropped>>

Requests == [c: Callers, k: 1..MaxCalls, id: 0..IdSpace - 1]

\* The request of a caller's current call.
Mine(c) == [c |-> c, k |-> calls[c], id |-> reqId[c]]

\* The Receiver of request r is alive: its caller still awaits that call.
Awaiting(r) == pc[r.c] = "waiting" /\ calls[r.c] = r.k

\* The Senders the loop holds, wherever the request is.
Held == {writeQ[i] : i \in 1..Len(writeQ)} \cup inflight \cup {x.req : x \in ready}
        \cup (IF current = NoItem THEN {} ELSE {current.req})

Init ==
    /\ nextId = 0
    /\ pc = [c \in Callers |-> "idle"]
    /\ calls = [c \in Callers |-> 0]
    /\ reqId = [c \in Callers |-> 0]
    /\ answer = [c \in Callers |-> [req |-> NoRequest, res |-> "ok"]]
    /\ loopUp = TRUE
    /\ writeQ = <<>>
    /\ inflight = {}
    /\ ready = {}
    /\ current = NoItem
    /\ dropped = FALSE

\* Mutant of NextId: the counter is taken to never wrap.
NextIdNoWrap(i) == i + 1

\* AtomicUsize::fetch_add(1) wraps around at usize::MAX.
NextId(i) == (i + 1) % IdSpace

\* Transport::prepare: fetch_add on the shared counter, wrapping at usize::MAX.
Prepare(c) ==
    /\ pc[c] = "idle" /\ calls[c] < MaxCalls
    /\ reqId' = [reqId EXCEPT ![c] = nextId]
    /\ nextId' = NextId(nextId)
    /\ calls' = [calls EXCEPT ![c] = @ + 1]
    /\ pc' = [pc EXCEPT ![c] = "prepared"]
    /\ UNCHANGED <<answer, loopUp, writeQ, inflight, ready, current, dropped>>

\* send_batch sends one request under the id of the batch's first call (a
\* batch of several calls is Prepare for the first; the others only move
\* the counter, as other callers' prepares do).  An empty batch has no
\* call: its request takes the id 0, whatever ids other callers hold.
PrepareEmptyBatch(c) ==
    /\ pc[c] = "idle" /\ calls[c] < MaxCalls
    /\ reqId' = [reqId EXCEPT ![c] = 0]
    /\ calls' = [calls EXCEPT ![c] = @ + 1]
    /\ pc' = [pc EXCEPT ![c] = "prepared"]
    /\ UNCHANGED <<nextId, answer, loopUp, writeQ, inflight, ready, current, dropped>>

\* Mutant of Send: the result of unbounded_send is ignored, so a call made
\* after the loop is gone waits on a request nobody will ever pull.
SendIgnoringClosedLoop(c) ==
    /\ pc[c] = "prepared"
    /\ writeQ' = Append(writeQ, [c |-> c, k |-> calls[c], id |-> reqId[c]])
    /\ pc' = [pc EXCEPT ![c] = "waiting"]
    /\ UNCHANGED <<answer, nextId, calls, reqId, loopUp, inflight, ready, current, dropped>>

\* send and send_batch both end in send_request with one id.
\* send_request: unbounded_send of (request, tx); when the loop is gone the
\* send fails and the Response resolves to the BrokenPipe error.
Send(c) ==
    /\ pc[c] = "prepared"
    /\ IF loopUp
       THEN /\ writeQ' = Append(writeQ, [c |-> c, k |-> calls[c], id |-> reqId[c]])
            /\ pc' = [pc EXCEPT ![c] = "waiting"]
            /\ UNCHANGED answer
       ELSE /\ answer' = [answer EXCEPT ![c] = [req |-> Mine(c), res |-> "broken_pipe"]]
            /\ pc' = [pc EXCEPT ![c] = "answered"]
            /\ UNCHANGED writeQ
    /\ UNCHANGED <<nextId, calls, reqId, loopUp, inflight, ready, current, dropped>>

\* The caller drops its Response future (and with it the Receiver).
Abandon(c) ==
    /\ pc[c] = "waiting"
    /\ pc' = [pc EXCEPT ![c] = "idle"]
    /\ UNCHANGED <<nextId, calls, reqId, answer, loopUp, writeQ, inflight, ready, current, dropped>>

\* The caller takes its answer and moves on.
Consume(c) ==
    /\ pc[c] = "answered"
    /\ pc' = [pc EXCEPT ![c] = "idle"]
    /\ UNCHANGED <<nextId, calls, reqId, answer, loopUp, writeQ, inflight, ready, current, dropped>>

Pull ==
    /\ loopUp /\ current = NoItem /\ writeQ # <<>>
    /\ Cardinality(inflight) + Cardinality(ready) < MaxParallel
    /\ inflight' = inflight \cup {Head(writeQ)}
    /\ writeQ' = Tail(writeQ)
    /\ UNCHANGED <<nextId, pc, calls, reqId, answer, loopUp, ready, current, dropped>>

\* hyper completes a request: a response with a success status, one with
\* another status, or a hyper error.
Respond(r) ==
    /\ r \in inflight
    /\ \E status \in {"ok", "bad_status", "http_err"} :
         ready' = ready \cup {[req |-> r, status |-> status]}
    /\ inflight' = inflight \ {r}
    /\ UNCHANGED <<nextId, pc, calls, reqId, answer, loopUp, writeQ, current, dropped>>

\* for_each receives the next completed response, in completion order.
Yield ==
    /\ loopUp /\ current = NoItem
    /\ \E x \in ready : current' = x /\ ready' = ready \ {x}
    /\ UNCHANGED <<nextId, pc, calls, reqId, answer, loopUp, writeQ, inflight, dropped>>

\* Dropping the EventLoopHandle ends the loop future and drops every Sender
\* it holds: each caller still awaiting one of them sees Canceled.
Cancel(rs) ==
    /\ answer' = [c \in Callers |->
                    IF \E r \in rs : r.c = c /\ Awaiting(r)
                    THEN [req |-> Mine(c), res |-> "canceled"] ELSE answer[c]]
    /\ pc' = [c \in Callers |->
                IF \E r \in rs : r.c = c /\ Awaiting(r) THEN "answered" ELSE pc[c]]

StopLoop ==
    /\ loopUp' = FALSE
    /\ Cancel(Held)
    /\ writeQ' = <<>> /\ inflight' = {} /\ ready' = {} /\ current' = NoItem

\* The body is read (concat2) and the result sent on the oneshot to the
\* Receiver of the same request; a failed send only logs a warning.
Delivered(x) ==
    \E res \in IF x.status = "ok" THEN {"ok", "body_err"} ELSE {x.status} :
       IF Awaiting(x.req)
       THEN /\ answer' = [answer EXCEPT ![x.req.c] = [req |-> x.req, res |-> res]]
            /\ pc' = [pc EXCEPT ![x.req.c] = "answered"]
       ELSE UNCHANGED <<answer, pc>>

\* Mutant of Finish: a failed send ends for_each, and with it the loop.
FinishStopsOnSendError ==
    /\ current # NoItem
    /\ IF Awaiting(current.req)
       THEN Delivered(current) /\ current' = NoItem /\ UNCHANGED <<loopUp, writeQ, inflight, ready>>
       ELSE StopLoop
    /\ UNCHANGED <<nextId, calls, reqId, dropped>>

Finish ==
    /\ current # NoItem
    /\ Delivered(current)
    /\ current' = NoItem
    /\ UNCHANGED <<nextId, calls, reqId, loopUp, writeQ, inflight, ready, dropped>>

\* The owner drops the EventLoopHandle.
DropHandle ==
    /\ loopUp
    /\ StopLoop
    /\ dropped' = TRUE
    /\ UNCHANGED <<nextId, calls, reqId>>

\* All calls made and answered: the program has nothing left to do.
Terminating ==
    /\ \A c \in Callers : pc[c] = "idle" /\ calls[c] = MaxCalls
    /\ UNCHANGED vars

Next ==
    \/ \E c \in Callers : Prepare(c) \/ PrepareEmptyBatch(c)
    \/ \E c \in Callers : Send(c) \/ Abandon(c) \/ Consume(c)
    \/ Pull \/ Yield \/ Finish \/ DropHandle
    \/ \E r \in inflight : Respond(r)
    \/ Terminating

(***************************************************************************)
(* Fairness: the event loop thread polls the loop future whenever it can   *)
(* progress, and the server answers every request hyper sends (the        *)
(* transport itself has no timeout).  Callers and the handle's owner are   *)
(* not assumed to do anything.                                             *)
(***************************************************************************)
Fairness ==
    /\ WF_vars(Pull) /\ WF_vars(Yield) /\ WF_vars(Finish)
    /\ \A r \in Requests : WF_vars(Respond(r))

Spec == Init /\ [][Next]_vars /\ Fairness


(***************************************************************************)
(* Refinement mapping: a prepared call is not sent yet (idle); the answer  *)
(* is the caller's; the transport is down once the handle is dropped.      *)
(***************************************************************************)
Rpc == INSTANCE RpcChannel WITH
    Clients <- Callers,
    rpcPc <- [c \in Callers |-> IF pc[c] = "prepared" THEN "idle" ELSE pc[c]],
    rpcRes <- [c \in Callers |-> answer[c].res],
    rpcDown <- dropped

-----------------------------------------------------------------------------
TypeOK ==
    /\ nextId \in 0..IdSpace - 1
    /\ pc \in [Callers -> {"idle", "prepared", "waiting", "answered"}]
    /\ calls \in [Callers -> 0..MaxCalls]
    /\ reqId \in [Callers -> 0..IdSpace - 1]
    /\ answer \in [Callers -> [req: Requests \cup {NoRequest}, res: Results]]
    /\ loopUp \in BOOLEAN
    /\ writeQ \in Seq(Requests)
    /\ inflight \subseteq Requests
    /\ ready \subseteq [req: Requests, status: {"ok", "bad_status", "http_err"}]

(***************************************************************************)
(* A caller only sees a transport failure (Canceled, BrokenPipe) after the *)
(* owner dropped the event loop handle: a caller that drops its own future *)
(* (tx.send then fails and is only logged) never takes the loop down for  *)
(* the others.                                                             *)
(***************************************************************************)
CanceledOnlyAfterDrop ==
    \A c \in Callers : answer[c].res \in {"canceled", "broken_pipe"} => dropped

(***************************************************************************)
(* The transport implements RpcChannel: out-of-order completion, wrapped  *)
(* ids, abandoned calls and the dropped handle are invisible to callers,  *)
(* and no waiting call starves under the loop's and the server's fairness.*)
(***************************************************************************)
RpcSpec == Rpc!Spec
=============================================================================
