---------------------------- MODULE SwarmUsers ----------------------------
(***************************************************************************)
(* The two user classes of src/locustfile.py.  ApiUser loops "pick a      *)
(* @task (get_user 7, create_room 3), send one HTTP request, wait         *)
(* between(5, 10)".  WSUser first runs on_start, which opens a WebSocket  *)
(* with self.connect("/ws"); then it loops "pick a @task (join_room 7,    *)
(* broadcast 3), send one JSON frame, wait".  The harness (locust) and   *)
(* the service are external: an exception raised by on_start is logged   *)
(* and re-raised by User.run, which ends that user's greenlet, while an   *)
(* exception raised by a task (a send on a connection that is not open)   *)
(* is logged by the task loop, which carries on.  The service may close  *)
(* an open connection at any time; nothing in WSUser reconnects.          *)
(***************************************************************************)
EXTENDS Naturals

CONSTANTS
    ApiUsers,         \* instances of ApiUser
    WSUsers,          \* instances of WSUser
    Statuses,         \* HTTP statuses the service can answer; 0 = error
    ConnectCanFail    \* whether the service can refuse the WebSocket handshake

ASSUME SwarmAssumption ==
    /\ ApiUsers \cap WSUsers = {}
    /\ Statuses \subseteq Nat
    /\ ConnectCanFail \in BOOLEAN

Users == ApiUsers \cup WSUsers

VARIABLES
    pc,       \* user -> "starting", "idle", "inflight", "waiting", "dead", "stopped"
    conn,     \* user -> its WebSocket: "none", "open" or "closed"
    outcome   \* user -> its latest recorded request: "none", "ok" or "fail"

vars == <<pc, conn, outcome>>

TypeOK ==
    /\ pc \in [Users -> {"starting", "idle", "inflight", "waiting", "dead", "stopped"}]
    /\ conn \in [Users -> {"none", "open", "closed"}]
    /\ outcome \in [Users -> {"none", "ok", "fail"}]

\* An ApiUser goes straight to its task loop; a WSUser runs on_start first.
Init == /\ pc = [u \in Users |-> IF u \in WSUsers THEN "starting" ELSE "idle"]
        /\ conn = [u \in Users |-> "none"]
        /\ outcome = [u \in Users |-> "none"]

-----------------------------------------------------------------------------
\* ApiUser.get_user (@task(7)) and ApiUser.create_room (@task(3)): each
\* sends one request without catch_response; both weights are positive, so
\* either can be picked and the two actions have the same effect here.
get_user(u) == u \in ApiUsers /\ pc[u] = "idle"
               /\ pc' = [pc EXCEPT ![u] = "inflight"] /\ UNCHANGED <<conn, outcome>>

create_room(u) == u \in ApiUsers /\ pc[u] = "idle"
                  /\ pc' = [pc EXCEPT ![u] = "inflight"] /\ UNCHANGED <<conn, outcome>>

\* The answer arrives and the client records it: 2xx is a success.
Respond(u) ==
    /\ pc[u] = "inflight"
    /\ \E s \in Statuses :
          outcome' = [outcome EXCEPT ![u] = IF 200 <= s /\ s < 300 THEN "ok" ELSE "fail"]
    /\ pc' = [pc EXCEPT ![u] = "waiting"]
    /\ UNCHANGED conn

-----------------------------------------------------------------------------
\* WSUser.on_start: self.connect("/ws") opens the connection, or raises,
\* which User.run logs and re-raises: the user's greenlet is over.
on_start(u) ==
    /\ u \in WSUsers /\ pc[u] = "starting"
    /\ \/ conn' = [conn EXCEPT ![u] = "open"] /\ pc' = [pc EXCEPT ![u] = "idle"]
       \/ ConnectCanFail /\ pc' = [pc EXCEPT ![u] = "dead"] /\ UNCHANGED conn
    /\ UNCHANGED outcome

\* WSUser.join_room (@task(7)) and WSUser.broadcast (@task(3)): one
\* self.send of a JSON frame; on a connection that is not open the send
\* raises and the task loop records the error and goes on waiting.
Send(u) == /\ outcome' = [outcome EXCEPT ![u] = IF conn[u] = "open" THEN "ok" ELSE "fail"]
           /\ pc' = [pc EXCEPT ![u] = "waiting"]
           /\ UNCHANGED conn

\* Mutant: the send wrapped in try/except/pass, as chaos_monkey does in
\* tests/load/locustfile.py, so a send that raises records nothing.
JoinRoomSwallowed(u) ==
    /\ u \in WSUsers /\ pc[u] = "idle"
    /\ outcome' = IF conn[u] = "open" THEN [outcome EXCEPT ![u] = "ok"] ELSE outcome
    /\ pc' = [pc EXCEPT ![u] = "waiting"]
    /\ UNCHANGED conn

join_room(u) == u \in WSUsers /\ pc[u] = "idle" /\ Send(u)

broadcast(u) == u \in WSUsers /\ pc[u] = "idle" /\ Send(u)

\* wait_time = between(5, 10) elapses.
Wait(u) == pc[u] = "waiting" /\ pc' = [pc EXCEPT ![u] = "idle"] /\ UNCHANGED <<conn, outcome>>

\* The service closes an open WebSocket.
ServerClose(u) == conn[u] = "open" /\ conn' = [conn EXCEPT ![u] = "closed"]
                  /\ UNCHANGED <<pc, outcome>>

\* The harness stops a user wherever it is, closing its connection.
Stop(u) == /\ pc[u] \notin {"dead", "stopped"}
           /\ pc' = [pc EXCEPT ![u] = "stopped"]
           /\ conn' = [conn EXCEPT ![u] = IF @ = "open" THEN "closed" ELSE @]
           /\ UNCHANGED outcome

Step(u) == \/ get_user(u) \/ create_room(u) \/ Respond(u)
           \/ on_start(u) \/ join_room(u) \/ broadcast(u) \/ Wait(u)

Next == \E u \in Users : Step(u) \/ ServerClose(u) \/ Stop(u)

\* Every user's greenlet is scheduled and every request is answered.
Spec == Init /\ [][Next]_vars /\ \A u \in Users : WF_vars(Step(u))

-----------------------------------------------------------------------------
\* Spec section 7: errors never end a virtual user's loop, so every user the
\* harness has not stopped keeps loading the service: from "starting" or
\* "idle" it always gets to send a request or a frame.
UsersKeepLoading ==
    \A u \in Users : (pc[u] \in {"starting", "idle"}) ~> (pc[u] \in {"inflight", "waiting", "stopped"})

\* A connection the service closed is never re-opened (WSUser has no
\* reconnect), so every later join_room/broadcast raises inside the task.
\* That loss must show in the statistics: a WSUser whose connection was
\* closed, unless the harness stops it, goes on to record a failed send,
\* whatever successes it recorded before the close.
ClosedConnectionReported ==
    \A u \in WSUsers : (conn[u] = "closed") ~> (outcome[u] = "fail" \/ pc[u] = "stopped")

=============================================================================
