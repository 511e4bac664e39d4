---------------------------- MODULE VirtualUser ----------------------------
(***************************************************************************)
(* The simulated users of src/tests/load/locustfile.py, class VibeZUser:  *)
(* each runs the loop "pick a @task, run it, wait wait_time", the tasks   *)
(* issue HTTP requests, and the request statistics record every answer   *)
(* as a success or a failure.  The HTTP client (locust's HttpSession) and *)
(* the scheduler are external: a request without catch_response is       *)
(* recorded by the client itself, a success for 2xx and a failure for    *)
(* any other status, 0 standing for a timeout or connection error, and   *)
(* the client returns that response instead of raising.  Of the          *)
(* statistics the model keeps each user's latest recorded request, which  *)
(* is all the properties below look at.  The harness may                  *)
(* stop a user at any point of its loop; its in-flight request is then   *)
(* abandoned unrecorded.                                                  *)
(***************************************************************************)
EXTENDS Naturals, FiniteSets

CONSTANTS
    Users,      \* the simulated users
    Statuses,   \* HTTP statuses the service can answer; 0 = timeout/error
    NoRequest

ASSUME StatusesAssumption == Statuses \subseteq Nat /\ 0 \in Statuses

\* The request names of the tasks, which label the statistics.
Names == {"Home", "View Room", "/auth/callback", "WS Fallback (HTTP Poll)",
          "Chaos: Latency", "Chaos: Packet Drop", "Chaos: Normal"}

\* @task weights.  Selection is random in proportion to them; a model
\* checker sees only which tasks can be picked: those of positive weight.
TaskWeight == [index |-> 10, view_room |-> 5, auth_callback_smoke |-> 2,
               websocket_fallback_simulation |-> 3, chaos_monkey |-> 1]

Selectable == {t \in DOMAIN TaskWeight : TaskWeight[t] > 0}

\* An in-flight request: its name and whether the task checks the answer
\* itself (catch_response=True) with the statuses it accepts.
Request == [name : Names, accept : SUBSET Statuses]

\* The client's own verdict, for requests without catch_response.
ClientAccepts == {s \in Statuses : 200 <= s /\ s < 300}

VARIABLES
    pc,       \* user -> "idle", "sleeping", "inflight", "waiting", "stopped"
    req,      \* user -> the in-flight request, or NoRequest
    stats     \* user -> its latest recorded request [name, status, ok], or NoRequest

vars == <<pc, req, stats>>

TypeOK ==
    /\ pc \in [Users -> {"idle", "sleeping", "inflight", "waiting", "stopped"}]
    /\ req \in [Users -> Request \cup {NoRequest}]
    /\ stats \in [Users -> [name : Names, status : Statuses, ok : BOOLEAN] \cup {NoRequest}]

Init == /\ pc = [u \in Users |-> "idle"]
        /\ req = [u \in Users |-> NoRequest]
        /\ stats = [u \in Users |-> NoRequest]

\* A task body that issues one plain self.client.get(..., name=n).
Get(u, n) == /\ req' = [req EXCEPT ![u] = [name |-> n, accept |-> ClientAccepts]]
             /\ pc' = [pc EXCEPT ![u] = "inflight"]

\* The user's loop picks task t and enters it.
Pick(u, t) == pc[u] = "idle" /\ t \in Selectable

index(u) == Pick(u, "index") /\ Get(u, "Home") /\ UNCHANGED stats

view_room(u) == Pick(u, "view_room") /\ Get(u, "View Room") /\ UNCHANGED stats

auth_callback_smoke(u) ==
    Pick(u, "auth_callback_smoke") /\ Get(u, "/auth/callback") /\ UNCHANGED stats

\* Mutant: name= left out, so the statistics file the poll under its URL.
WSFallbackUnnamed(u) ==
    /\ Pick(u, "websocket_fallback_simulation")
    /\ req' = [req EXCEPT ![u] = [name |-> "/api/messages?roomId=general&limit=20",
                                   accept |-> {200, 401, 403} \cap Statuses]]
    /\ pc' = [pc EXCEPT ![u] = "inflight"]
    /\ UNCHANGED stats

\* catch_response=True: 200, 401 and 403 are marked success, the rest failure.
websocket_fallback_simulation(u) ==
    /\ Pick(u, "websocket_fallback_simulation")
    /\ req' = [req EXCEPT ![u] = [name |-> "WS Fallback (HTTP Poll)",
                                   accept |-> {200, 401, 403} \cap Statuses]]
    /\ pc' = [pc EXCEPT ![u] = "inflight"]
    /\ UNCHANGED stats

\* random.choice(["latency", "drop", "normal"]).  "latency" sleeps first;
\* "drop" sends with timeout=0.001 inside try/except, but the client
\* records the timeout itself and returns, so the except never runs.
chaos_monkey(u) ==
    /\ Pick(u, "chaos_monkey")
    /\ \/ pc' = [pc EXCEPT ![u] = "sleeping"] /\ UNCHANGED req
       \/ Get(u, "Chaos: Packet Drop")
       \/ Get(u, "Chaos: Normal")
    /\ UNCHANGED stats

\* Mutant: the request after the latency sleep forgotten.
ChaosLatencyNoRequest(u) ==
    /\ pc[u] = "sleeping"
    /\ pc' = [pc EXCEPT ![u] = "waiting"]
    /\ UNCHANGED <<req, stats>>

\* time.sleep(random.uniform(0.5, 2.0)) ends; the "Chaos: Latency" request.
ChaosLatency(u) == pc[u] = "sleeping" /\ Get(u, "Chaos: Latency") /\ UNCHANGED stats

\* The service answers (or the request times out) and the answer is recorded.
Respond(u) ==
    /\ pc[u] = "inflight"
    /\ \E s \in Statuses :
          stats' = [stats EXCEPT ![u] = [name |-> req[u].name, status |-> s,
                                          ok |-> s \in req[u].accept]]
    /\ req' = [req EXCEPT ![u] = NoRequest]
    /\ pc' = [pc EXCEPT ![u] = "waiting"]

\* wait_time = between(1, 5) elapses.
Wait(u) == pc[u] = "waiting" /\ pc' = [pc EXCEPT ![u] = "idle"] /\ UNCHANGED <<req, stats>>

\* The harness stops the user (ramp-down or end of run) wherever it is.
Stop(u) == /\ pc[u] # "stopped"
           /\ pc' = [pc EXCEPT ![u] = "stopped"]
           /\ req' = [req EXCEPT ![u] = NoRequest]
           /\ UNCHANGED stats

Task(u) == \/ index(u) \/ view_room(u) \/ auth_callback_smoke(u)
           \/ websocket_fallback_simulation(u) \/ chaos_monkey(u)

Step(u) == Task(u) \/ ChaosLatency(u) \/ Respond(u) \/ Wait(u)

Next == \E u \in Users : Step(u) \/ Stop(u)

\* Each user's greenlet gets scheduled and, the service answering every
\* request, each of its steps eventually happens; stopping is not forced.
Spec == Init /\ [][Next]_vars /\ \A u \in Users : WF_vars(Step(u))

-----------------------------------------------------------------------------
\* Every task a user enters sends a request, so a user the harness has not
\* stopped keeps loading the service: from "idle" it always reaches an
\* in-flight request (spec section 5, select -> execute -> wait).
UsersKeepRequesting ==
    \A u \in Users : (pc[u] = "idle") ~> (pc[u] \in {"inflight", "stopped"})

\* Spec sections 4.1 and 7: the chaos "packet drop" is an expected,
\* swallowed condition and never counts as a failure of the run.
ChaosDropNeverFailure ==
    \A u \in Users : stats[u] # NoRequest /\ stats[u].name = "Chaos: Packet Drop"
                        => stats[u].ok

=============================================================================
