------------------------------ MODULE Process ------------------------------
(***************************************************************************)
(* The life of one process: what its main opens, the work it serves, how   *)
(* it drains when told to stop, what it closes, and how it dies.           *)
(*                                                                         *)
(* Every cmd/*/main.go is a record of what it opens, in order, how it      *)
(* works and what it closes, in order.  A unit of work is a gRPC call, an  *)
(* HTTP request, or one turn of a loop (a relay cycle, a sweep, a          *)
(* message).  The resources are telemetry, the database pool, client       *)
(* connections, Kafka clients and the listener; a process that dies gives  *)
(* them all back to the operating system.  A drain timeout is a step that  *)
(* may come whenever a drain is under way.                                 *)
(***************************************************************************)
EXTENDS Naturals, Sequences, FiniteSets

CONSTANTS Mains,   \* the processes looked at: a subset of AllMains
          Units,   \* units of work; the consumers of a process that has several
          MaxStops,  \* bound: signals
          MaxFaults  \* bound: failures and kills

VARIABLES main,    \* which process this is
          phase,   \* where its main is
          opened,  \* how many of its resources main has opened
          closed,  \* and how many it has closed since
          told,    \* whether its context is cancelled: it was told to stop
          work,    \* the state of each unit of work
          stops,
          faults

\* What main opens and closes; `uses' is what a unit of work touches.
Main(name, serves, opens, uses, closes) ==
  [name |-> name, serves |-> serves, opens |-> opens, uses |-> uses, closes |-> closes]

bffWeb ==
  Main("bff-web", "http",
       <<"telemetry", "identity", "catalog", "inventory", "order", "payment", "listener">>,
       {"identity", "catalog", "inventory", "order", "payment"},
       <<"identity", "catalog", "inventory", "order", "payment", "telemetry">>)

identityServer ==
  Main("identity", "grpc", <<"telemetry", "pool", "listener">>, {"pool"}, <<"pool", "telemetry">>)

catalogServer ==
  Main("catalog", "grpc", <<"telemetry", "pool", "listener">>, {"pool"}, <<"pool", "telemetry">>)

inventoryServer ==
  Main("inventory", "grpc", <<"telemetry", "pool", "listener">>, {"pool"}, <<"pool", "telemetry">>)

orderServer ==
  Main("order", "grpc", <<"telemetry", "pool", "inventory", "catalog", "listener">>,
       {"pool", "inventory", "catalog"}, <<"pool", "inventory", "catalog", "telemetry">>)

paymentServer ==
  Main("payment", "grpc", <<"telemetry", "pool", "order", "listener">>,
       {"pool", "order"}, <<"pool", "order", "telemetry">>)

Relay(name) ==
  Main(name, "loop", <<"telemetry", "pool", "publisher">>, {"pool", "publisher"},
       <<"publisher", "pool", "telemetry">>)
identityRelay == Relay("identity-outboxrelay")
orderRelay    == Relay("order-outboxrelay")
paymentRelay  == Relay("payment-outboxrelay")

reaper ==
  Main("inventory-reaper", "loop", <<"telemetry", "pool">>, {"pool"}, <<"pool", "telemetry">>)

timeoutWorker ==
  Main("order-timeoutworker", "loop", <<"telemetry", "pool">>, {"pool"}, <<"pool", "telemetry">>)

\* Two consumers, one per subscription, in one process.
worker ==
  Main("order-worker", "loops",
       <<"telemetry", "pool", "inventory", "dlq", "orderEvents", "paymentEvents">>,
       {"pool", "inventory", "dlq", "orderEvents", "paymentEvents"},
       <<"orderEvents", "paymentEvents", "dlq", "pool", "inventory", "telemetry">>)

AllMains ==
  {bffWeb, identityServer, catalogServer, inventoryServer, orderServer, paymentServer,
   identityRelay, orderRelay, paymentRelay, reaper, timeoutWorker, worker}

ASSUME ProcessAssumption ==
  /\ Mains \subseteq AllMains
  /\ MaxStops \in Nat
  /\ MaxFaults \in Nat

Phases == {"starting", "serving", "draining", "forced", "closing", "abandoning", "down"}

ProcessTypeOK ==
  /\ main \in Mains
  /\ phase \in Phases
  /\ opened \in 0..Len(main.opens)
  /\ closed \in 0..Len(main.closes)
  /\ told \in BOOLEAN
  /\ work \in [Units -> {"idle", "running", "cut", "ended"}]
  /\ stops \in 0..MaxStops
  /\ faults \in 0..MaxFaults

ProcessInit ==
  /\ main \in Mains
  /\ phase = "starting"
  /\ opened = 0
  /\ closed = 0
  /\ told = FALSE
  /\ work = [u \in Units |-> "idle"]
  /\ stops = 0
  /\ faults = 0

\* What main holds: the listener is closed by the server, the rest by main.
Held == {main.opens[i] : i \in 1..opened} \ {main.closes[i] : i \in 1..closed}

\* The process is gone, and with it all it held and did.
Gone ==
  /\ phase' = "down"
  /\ opened' = 0
  /\ closed' = 0
  /\ told' = FALSE
  /\ work' = [u \in Units |-> "idle"]

\* The first of the worker's two consumers runs before the second is created.
First == CHOOSE u \in Units : TRUE
InUse == IF phase = "starting" THEN main.uses \ {"paymentEvents"} ELSE main.uses

InFlight == {u \in Units : work[u] \in {"running", "cut"}}
Fault == faults < MaxFaults /\ faults' = faults + 1
-----------------------------------------------------------------------------
(* Starting.                                                               *)

\* The next thing main opens is one of these.
Opens(names) ==
  /\ phase = "starting"
  /\ opened < Len(main.opens)
  /\ main.opens[opened + 1] \in names
  /\ opened' = opened + 1
  /\ UNCHANGED <<main, phase, closed, told, work, stops, faults>>

\* Telemetry and its admin server come first, a reachable collector or not.
MustStart == Opens({"telemetry"})

\* A pool is handed out once the database has answered, and not any more when
\* main was told to stop.
MustNew == ~told /\ Opens({"pool"})

\* Neither a connection to a service nor a Kafka client waits for its peer.
MustDial == Opens({"identity", "catalog", "inventory", "order", "payment"})
KafkaClients == Opens({"publisher", "dlq", "orderEvents", "paymentEvents"})

\* The server binds its address when it is built and accepts once it serves.
Listen    == main.serves = "grpc" /\ Opens({"listener"})
NewServer == main.serves = "http" /\ Opens({"listener"})

Open == MustStart \/ MustNew \/ MustDial \/ KafkaClients \/ Listen \/ NewServer

\* A Must panics or run returns the error; nothing is closed.
OpenFails ==
  /\ phase = "starting"
  /\ opened < Len(main.opens)
  /\ \/ Fault
     \/ told /\ main.opens[opened + 1] = "pool" /\ UNCHANGED faults
  /\ Gone
  /\ UNCHANGED <<main, stops>>

Serve ==
  /\ phase = "starting"
  /\ opened = Len(main.opens)
  /\ phase' = "serving"
  /\ UNCHANGED <<main, opened, closed, told, work, stops, faults>>
-----------------------------------------------------------------------------
(* Working.                                                                *)

\* SIGTERM.
Signal ==
  /\ phase \in {"starting", "serving"}
  /\ ~told
  /\ stops < MaxStops
  /\ stops' = stops + 1
  /\ told' = TRUE
  /\ UNCHANGED <<main, phase, opened, closed, work, faults>>

\* Main serves, or is the worker's and has started its first consumer.
Working(u) ==
  \/ phase = "serving"
  \/ phase = "starting" /\ main.serves = "loops" /\ "orderEvents" \in Held /\ u = First

\* A server accepts until its drain begins; a loop looks at its context first.
Accepts(u) ==
  /\ Working(u)
  /\ work[u] = "idle"
  /\ main.serves \in {"loop", "loops"} => ~told
  /\ main.serves = "loop" => InFlight = {}

Begin(u) ==
  /\ Accepts(u)
  /\ work' = [work EXCEPT ![u] = "running"]
  /\ UNCHANGED <<main, phase, opened, closed, told, stops, faults>>

Finish(u) ==
  /\ u \in InFlight
  /\ work' = [work EXCEPT ![u] = "idle"]
  /\ UNCHANGED <<main, phase, opened, closed, told, stops, faults>>

\* A consumer's Run returns an error; the other one goes on.
LoopFails(u) ==
  /\ main.serves = "loops"
  /\ Working(u)
  /\ work[u] \in {"idle", "running"}
  /\ work' = [work EXCEPT ![u] = "ended"]
  /\ UNCHANGED <<main, phase, opened, closed, told, stops, faults>>

\* The listener fails: Serve returns its error at once and main closes what the
\* handlers in flight are using.
ServeFails ==
  /\ main.serves \in {"grpc", "http"}
  /\ phase = "serving"
  /\ Fault
  /\ phase' = "abandoning"
  /\ UNCHANGED <<main, opened, closed, told, work, stops>>
-----------------------------------------------------------------------------
(* Stopping.                                                               *)

\* Bug variant: Stop instead of GracefulStop.
StopAtOnce ==
  /\ phase = "serving"
  /\ told
  /\ IF main.serves \in {"grpc", "http"}
     THEN /\ phase' = "closing"
          /\ work' = [u \in Units |-> IF work[u] = "running" THEN "cut" ELSE work[u]]
     ELSE phase' = "draining" /\ UNCHANGED work
  /\ UNCHANGED <<main, opened, closed, told, stops, faults>>

\* ctx.Done: a server stops accepting and waits for what it has begun; a loop's
\* cancelled context cuts the turn it is in.
StartDrain ==
  /\ phase = "serving"
  /\ told
  /\ phase' = "draining"
  /\ work' = IF main.serves \in {"grpc", "http"} THEN work
             ELSE [u \in Units |-> IF work[u] = "running" THEN "cut" ELSE work[u]]
  /\ UNCHANGED <<main, opened, closed, told, stops, faults>>

\* Serve or Run returns: nothing is in flight.
Drained ==
  /\ phase \in {"draining", "forced"}
  /\ InFlight = {}
  /\ phase' = "closing"
  /\ UNCHANGED <<main, opened, closed, told, work, stops, faults>>

\* ShutdownTimeout passes.  Stop cancels the calls and still waits for their
\* handlers; http.Server.Close cuts the connections and waits for nobody.
DrainTimeout ==
  /\ phase = "draining"
  /\ main.serves \in {"grpc", "http"}
  /\ InFlight # {}
  /\ Fault
  /\ work' = [u \in Units |-> IF work[u] = "running" THEN "cut" ELSE work[u]]
  /\ phase' = IF main.serves = "grpc" THEN "forced" ELSE "abandoning"
  /\ UNCHANGED <<main, opened, closed, told, stops>>

\* Both consumers have returned without being told to.
AllLoopsEnded ==
  /\ main.serves = "loops"
  /\ phase = "serving"
  /\ \A u \in Units : work[u] = "ended"
  /\ phase' = "closing"
  /\ UNCHANGED <<main, opened, closed, told, work, stops, faults>>

Close ==
  /\ phase \in {"closing", "abandoning"}
  /\ closed < Len(main.closes)
  /\ closed' = closed + 1
  /\ UNCHANGED <<main, phase, opened, told, work, stops, faults>>

Exit ==
  /\ phase \in {"closing", "abandoning"}
  /\ closed = Len(main.closes)
  /\ Gone
  /\ UNCHANGED <<main, stops, faults>>

\* A crash, or SIGKILL when the grace period is over.
Kill ==
  /\ phase # "down"
  /\ Fault
  /\ Gone
  /\ UNCHANGED <<main, stops>>

\* Kubernetes starts the next one.
Restart ==
  /\ phase = "down"
  /\ phase' = "starting"
  /\ UNCHANGED <<main, opened, closed, told, work, stops, faults>>
=============================================================================
