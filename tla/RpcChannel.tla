---------------------------- MODULE RpcChannel ----------------------------
(***************************************************************************)
(* What a request/response transport promises its callers, with no queue, *)
(* no parallelism and no ids: a caller that sends a call waits; the call  *)
(* is answered once with the server's reply, or the caller gives up; when *)
(* the owner shuts the transport down, every waiting call fails with      *)
(* "canceled" and every later call at once with "broken_pipe".  A waiting *)
(* call does not wait forever.                                             *)
(***************************************************************************)
CONSTANTS Clients

VARIABLES
    rpcPc,    \* per client: idle, waiting, answered
    rpcRes,   \* per client: the last answer
    rpcDown   \* the transport was shut down

rpcVars == <<rpcPc, rpcRes, rpcDown>>

\* Answers coming from the server (or the HTTP layer under it).
Replies == {"ok", "bad_status", "http_err", "body_err"}

Init ==
    /\ rpcPc = [c \in Clients |-> "idle"]
    /\ rpcRes = [c \in Clients |-> "ok"]
    /\ rpcDown = FALSE

Call(c) ==
    /\ rpcPc[c] = "idle" /\ ~rpcDown
    /\ rpcPc' = [rpcPc EXCEPT ![c] = "waiting"]
    /\ UNCHANGED <<rpcRes, rpcDown>>

FailFast(c) ==
    /\ rpcPc[c] = "idle" /\ rpcDown
    /\ rpcPc' = [rpcPc EXCEPT ![c] = "answered"]
    /\ rpcRes' = [rpcRes EXCEPT ![c] = "broken_pipe"]
    /\ UNCHANGED rpcDown

Reply(c) ==
    /\ rpcPc[c] = "waiting"
    /\ rpcPc' = [rpcPc EXCEPT ![c] = "answered"]
    /\ \E r \in Replies : rpcRes' = [rpcRes EXCEPT ![c] = r]
    /\ UNCHANGED rpcDown

GiveUp(c) ==
    /\ rpcPc[c] = "waiting"
    /\ rpcPc' = [rpcPc EXCEPT ![c] = "idle"]
    /\ UNCHANGED <<rpcRes, rpcDown>>

Take(c) ==
    /\ rpcPc[c] = "answered"
    /\ rpcPc' = [rpcPc EXCEPT ![c] = "idle"]
    /\ UNCHANGED <<rpcRes, rpcDown>>

Shutdown ==
    /\ ~rpcDown
    /\ rpcDown' = TRUE
    /\ rpcPc' = [c \in Clients |-> IF rpcPc[c] = "waiting" THEN "answered" ELSE rpcPc[c]]
    /\ rpcRes' = [c \in Clients |-> IF rpcPc[c] = "waiting" THEN "canceled" ELSE rpcRes[c]]

Next ==
    \/ \E c \in Clients : Call(c) \/ FailFast(c) \/ Reply(c) \/ GiveUp(c) \/ Take(c)
    \/ Shutdown

Spec == Init /\ [][Next]_rpcVars /\ \A c \in Clients : WF_rpcVars(Reply(c))
=============================================================================
