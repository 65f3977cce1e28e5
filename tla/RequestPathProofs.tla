------------------------- MODULE RequestPathProofs -------------------------
(***************************************************************************)
(* Theorems about RequestPath, for any calls, requests, number of          *)
(* attempts, breaker settings, and any of the processes.                   *)
(***************************************************************************)
EXTENDS RequestPath, FiniteSetTheorems, TLAPS

-----------------------------------------------------------------------------
(* The process.                                                            *)

\* The first n things m opens are all that its first consumer uses, and telemetry.
HasFirst(m, n) == \A x \in (m.uses \ {"paymentEvents"}) \cup {"telemetry"} : \E i \in 1..n : m.opens[i] = x

\* Where main is decides what it holds and whether anything is in flight: in one that
\* has not started yet only the worker's first consumer, with what it uses open.  What
\* is cut off, or left alone with resources closed under it, failed.
Stages ==
  /\ phase \in {"starting", "down"} => closed = 0
  /\ phase \in {"serving", "draining", "forced"} => opened = Len(main.opens) /\ closed = 0
  /\ phase \in {"closing", "down"} => InFlight = {}
  /\ phase = "starting" /\ InFlight # {} => main.serves = "loops" /\ HasFirst(main, opened)
  /\ faults = 0 => /\ phase \notin {"abandoning", "forced"}
                   /\ main.serves = "grpc" => \A u \in Units : work[u] # "cut"

ProcessInv == ProcessTypeOK /\ Stages

\* No step makes of one process another, or mends what has failed.
Onwards == main' = main /\ faults \in Nat /\ faults' \in Nat /\ faults <= faults'

\* A main is a record of two lists of resources.
LEMMA MainLists ==
  ASSUME NEW m \in AllMains
  PROVE  /\ Len(m.opens) \in Nat /\ Len(m.closes) \in Nat
         /\ \A x \in m.uses \cup {"telemetry"} : \E i \in 1..Len(m.opens) : m.opens[i] = x
         /\ m.serves = "loops" =>
              \A n \in 0..Len(m.opens) : (\E i \in 1..n : m.opens[i] = "orderEvents") => HasFirst(m, n)
<1> DEFINE Good(n) == /\ Len(n.opens) \in Nat /\ Len(n.closes) \in Nat
                      /\ \A x \in n.uses \cup {"telemetry"} : \E i \in 1..Len(n.opens) : n.opens[i] = x
<1>1. Good(bffWeb)
  BY DEF bffWeb, Main
<1>2. Good(identityServer) /\ Good(catalogServer) /\ Good(inventoryServer)
  BY DEF identityServer, catalogServer, inventoryServer, Main
<1>3. Good(orderServer)
  BY DEF orderServer, Main
<1>4. Good(paymentServer)
  BY DEF paymentServer, Main
<1>5. Good(identityRelay) /\ Good(orderRelay) /\ Good(paymentRelay)
  BY DEF identityRelay, orderRelay, paymentRelay, Relay, Main
<1>6. Good(reaper) /\ Good(timeoutWorker)
  BY DEF reaper, timeoutWorker, Main
<1>7. Good(worker)
  BY DEF worker, Main
<1>w. \A n \in 0..Len(worker.opens) : (\E i \in 1..n : worker.opens[i] = "orderEvents") => HasFirst(worker, n)
  <2> SUFFICES ASSUME NEW n \in 0..Len(worker.opens), NEW i \in 1..n, worker.opens[i] = "orderEvents"
               PROVE  HasFirst(worker, n)
    OBVIOUS
  <2>1. n \in 5..6
    BY DEF worker, Main
  <2>2. 1..5 \subseteq 1..n
    BY <2>1
  <2>3. /\ worker.opens[1] = "telemetry" /\ worker.opens[2] = "pool" /\ worker.opens[3] = "inventory"
        /\ worker.opens[4] = "dlq" /\ worker.opens[5] = "orderEvents"
        /\ worker.uses = {"pool", "inventory", "dlq", "orderEvents", "paymentEvents"}
    BY DEF worker, Main
  <2> QED BY <2>2, <2>3 DEF HasFirst
<1>s. m.serves = "loops" => m = worker
  BY DEF AllMains, bffWeb, identityServer, catalogServer, inventoryServer, orderServer, paymentServer,
         identityRelay, orderRelay, paymentRelay, Relay, reaper, timeoutWorker, Main
<1> HIDE DEF Good
<1>8. Good(m)
  BY <1>1, <1>2, <1>3, <1>4, <1>5, <1>6, <1>7 DEF AllMains
<1> QED BY <1>8, <1>w, <1>s DEF Good

\* Work that ends, or is cut off by a failure, leaves main where it is.
LEMMA WorkEnds ==
  ASSUME ProcessInv, Same, faults' \in {faults, faults + 1}, faults' <= MaxFaults,
         work' \in [Units -> {"idle", "running", "cut", "ended"}],
         InFlight' \subseteq InFlight,
         \A u \in Units : work'[u] = "cut" => work[u] = "cut" \/ faults' = faults + 1
  PROVE  ProcessInv' /\ Onwards
<1>1. ProcessTypeOK' /\ Onwards
  BY ProcessAssumption DEF ProcessInv, ProcessTypeOK, Same, ProcessAssumption, Onwards
<1>2. faults' = 0 => faults = 0 /\ faults' = faults /\ faults' # faults + 1
  BY ProcessAssumption DEF ProcessInv, ProcessTypeOK, ProcessAssumption
<1>3. /\ phase' \in {"starting", "down"} => closed' = 0
      /\ phase' \in {"serving", "draining", "forced"} => opened' = Len(main'.opens) /\ closed' = 0
      /\ phase' \in {"closing", "down"} => InFlight' = {}
      /\ phase' = "starting" /\ InFlight' # {} => main'.serves = "loops" /\ HasFirst(main', opened')
  BY DEF ProcessInv, Stages, Same
<1>4. faults' = 0 => /\ phase' \notin {"abandoning", "forced"}
                     /\ main'.serves = "grpc" => \A u \in Units : work'[u] # "cut"
  BY <1>2 DEF ProcessInv, Stages, Same
<1> QED BY <1>1, <1>3, <1>4 DEF ProcessInv, Stages

\* A process that is gone holds nothing and does nothing.
LEMMA GoneInv ==
  ASSUME ProcessInv, Gone, main' = main, stops' = stops, faults' \in {faults, faults + 1}, faults' <= MaxFaults
  PROVE  ProcessInv' /\ Onwards /\ InFlight' = {}
<1>1. InFlight' = {} /\ \A u \in Units : work'[u] = "idle"
  BY DEF Gone, InFlight
<1>2. Len(main.opens) \in Nat /\ Len(main.closes) \in Nat
  BY MainLists, ProcessAssumption DEF ProcessInv, ProcessTypeOK, ProcessAssumption
<1>3. 0 \in 0..Len(main'.opens) /\ 0 \in 0..Len(main'.closes)
  BY <1>2
<1>4. faults \in 0..MaxFaults /\ faults' \in 0..MaxFaults /\ Onwards
  BY ProcessAssumption DEF ProcessInv, ProcessTypeOK, ProcessAssumption, Onwards
<1>5. ProcessTypeOK'
  BY <1>1, <1>3, <1>4 DEF ProcessInv, ProcessTypeOK, Gone, Phases
<1> QED BY <1>1, <1>4, <1>5 DEF ProcessInv, Stages, Gone

\* A fault is counted.
LEMMA FaultCounts ==
  ASSUME ProcessInv, Fault
  PROVE  faults' = faults + 1 /\ faults' <= MaxFaults /\ faults' # 0
  BY ProcessAssumption DEF ProcessInv, ProcessTypeOK, Fault, ProcessAssumption

\* Work begins only where main serves, or has started the first of its consumers.
LEMMA BeginKeeps ==
  ASSUME ProcessInv, NEW u \in Units, Begin(u)
  PROVE  ProcessInv' /\ Onwards
<1>1. faults \in Nat /\ work \in [Units -> {"idle", "running", "cut", "ended"}]
  BY ProcessAssumption DEF ProcessInv, ProcessTypeOK, ProcessAssumption
<1>2. ProcessTypeOK' /\ Onwards
  BY <1>1 DEF ProcessInv, ProcessTypeOK, Begin, Onwards
<1>3. \A v \in Units : work'[v] = "cut" => work[v] = "cut"
  BY <1>1 DEF Begin
<1>4. phase = "starting" => main.serves = "loops" /\ HasFirst(main, opened)
  <2> SUFFICES ASSUME phase = "starting" PROVE main.serves = "loops" /\ HasFirst(main, opened)
    OBVIOUS
  <2>1. main.serves = "loops" /\ "orderEvents" \in Held
    BY DEF Begin, Accepts, Working
  <2>2. opened \in 0..Len(main.opens) /\ main \in AllMains
    BY ProcessAssumption DEF ProcessInv, ProcessTypeOK, ProcessAssumption
  <2>3. \E i \in 1..opened : main.opens[i] = "orderEvents"
    BY <2>1 DEF Held
  <2> QED BY <2>1, <2>2, <2>3, MainLists
<1>5. phase \in {"starting", "serving"}
  BY DEF Begin, Accepts, Working
<1> QED BY <1>2, <1>3, <1>4, <1>5 DEF ProcessInv, Stages, Begin

\* What main does by itself, and what happens to it.
LEMMA MainSteps ==
  ASSUME ProcessInv, Runs \/ Fails \/ OwnWork \/ Ends
  PROVE  ProcessInv' /\ Onwards
<1>t. /\ faults \in Nat /\ MaxFaults \in Nat /\ faults <= MaxFaults
      /\ stops \in Nat /\ MaxStops \in Nat /\ stops <= MaxStops
      /\ opened \in 0..Len(main.opens) /\ closed \in 0..Len(main.closes)
      /\ work \in [Units -> {"idle", "running", "cut", "ended"}]
  BY ProcessAssumption DEF ProcessInv, ProcessTypeOK, ProcessAssumption
<1>l. Len(main.opens) \in Nat /\ Len(main.closes) \in Nat
  BY MainLists, ProcessAssumption DEF ProcessInv, ProcessTypeOK, ProcessAssumption
<1>1. CASE \E names : Opens(names)
  <2>1. UNCHANGED <<main, phase, closed, told, work, stops, faults>> /\ InFlight' = InFlight /\ Onwards
    BY <1>1, <1>t DEF Opens, InFlight, Onwards
  <2>2. opened' = opened + 1 /\ opened < Len(main.opens)
    BY <1>1 DEF Opens
  <2>3. opened' \in 0..Len(main'.opens)
    <3>1. \A n \in Nat : \A k \in 0..n : k < n => k + 1 \in 0..n
      OBVIOUS
    <3>2. opened' \in 0..Len(main.opens)
      BY <1>t, <1>l, <2>2, <3>1
    <3> QED BY <2>1, <3>2
  <2>4. ProcessTypeOK'
    BY <2>1, <2>3 DEF ProcessInv, ProcessTypeOK
  <2>5. HasFirst(main, opened) => HasFirst(main', opened')
    <3>1. 1..opened \subseteq 1..opened'
      BY <1>t, <1>l, <2>2
    <3>2. main' = main
      BY <2>1
    <3> QED BY <3>1, <3>2 DEF HasFirst
  <2> QED BY <1>1, <2>1, <2>4, <2>5 DEF ProcessInv, Stages, Opens
<1>2. CASE Serve \/ Drained \/ AllLoopsEnded \/ Restart \/ Signal
  <2>1. UNCHANGED <<main, opened, closed, work, faults>> /\ InFlight' = InFlight
    BY <1>2 DEF Serve, Drained, AllLoopsEnded, Restart, Signal, InFlight
  <2>p. phase' \in Phases
    BY <1>2 DEF ProcessInv, ProcessTypeOK, Serve, Drained, AllLoopsEnded, Restart, Signal, Phases
  <2>s. stops' \in 0..MaxStops
    <3>1. stops' = stops \/ (stops < MaxStops /\ stops' = stops + 1)
      BY <1>2 DEF Serve, Drained, AllLoopsEnded, Restart, Signal
    <3> QED BY <1>t, <3>1
  <2>o. told' \in BOOLEAN
    BY <1>2 DEF ProcessInv, ProcessTypeOK, Serve, Drained, AllLoopsEnded, Restart, Signal
  <2>2. ProcessTypeOK' /\ Onwards
    BY <1>t, <2>1, <2>p, <2>s, <2>o DEF ProcessInv, ProcessTypeOK, Onwards
  <2>3. AllLoopsEnded => InFlight = {}
    BY DEF AllLoopsEnded, InFlight
  <2>4. Stages'
    BY <1>2, <2>1, <2>3 DEF ProcessInv, Stages, Serve, Drained, AllLoopsEnded, Restart, Signal
  <2> QED BY <2>2, <2>4 DEF ProcessInv
<1>3. CASE StartDrain
  <2>1. ProcessTypeOK' /\ Onwards
    BY <1>3, <1>t DEF ProcessInv, ProcessTypeOK, StartDrain, Phases, Onwards
  <2>2. main.serves = "grpc" => work' = work
    BY <1>3 DEF StartDrain
  <2> QED BY <1>3, <2>1, <2>2 DEF ProcessInv, Stages, StartDrain
<1>4. CASE Close
  <2>1. ProcessTypeOK' /\ Onwards /\ InFlight' = InFlight
    BY <1>4, <1>t, <1>l DEF ProcessInv, ProcessTypeOK, Close, Onwards, InFlight
  <2> QED BY <1>4, <2>1 DEF ProcessInv, Stages, Close
<1>5. CASE OpenFails \/ Exit \/ Kill
  <2>1. Gone /\ main' = main /\ stops' = stops /\ faults' \in {faults, faults + 1} /\ faults' <= MaxFaults
    BY <1>5, <1>t DEF OpenFails, Exit, Kill, Fault
  <2> QED BY <2>1, GoneInv
<1>6. CASE ServeFails
  <2>1. ProcessTypeOK' /\ Onwards /\ faults' # 0
    BY <1>6, <1>t, FaultCounts DEF ProcessInv, ProcessTypeOK, ServeFails, Phases, Onwards
  <2> QED BY <1>6, <2>1 DEF ProcessInv, Stages, ServeFails
<1>7. CASE DrainTimeout
  <2>1. faults' = faults + 1 /\ faults' <= MaxFaults /\ faults' # 0
    BY <1>7, FaultCounts DEF DrainTimeout
  <2>2. ProcessTypeOK' /\ Onwards
    BY <1>7, <1>t, <2>1 DEF ProcessInv, ProcessTypeOK, DrainTimeout, Phases, Onwards
  <2> QED BY <1>7, <2>1, <2>2 DEF ProcessInv, Stages, DrainTimeout
<1>8. ASSUME NEW u \in Units, LoopFails(u) \/ Finish(u) PROVE ProcessInv' /\ Onwards
  <2>1. Same /\ faults' = faults /\ work' \in [Units -> {"idle", "running", "cut", "ended"}]
        /\ \A v \in Units : work'[v] \in {work[v], "ended", "idle"}
    BY <1>8, <1>t DEF LoopFails, Finish, Same
  <2>2. InFlight' \subseteq InFlight
    BY <2>1 DEF InFlight
  <2> QED BY <1>t, <2>1, <2>2, WorkEnds
<1>9. ASSUME NEW u \in Units, Begin(u) PROVE ProcessInv' /\ Onwards
  BY <1>9, BeginKeeps
<1> QED BY <1>1, <1>2, <1>3, <1>4, <1>5, <1>6, <1>7, <1>8, <1>9
        DEF Runs, Fails, OwnWork, Ends, Open, MustStart, MustNew, MustDial, KafkaClients, Listen, NewServer

\* No step of a call, and none of the process, leads out of the stages.
LEMMA NextProcess ==
  ASSUME ProcessInv, attempt \in [Calls -> 1..MaxAttempts], [Next]_vars
  PROVE  ProcessInv' /\ Onwards
<1>t. /\ faults \in Nat /\ MaxFaults \in Nat /\ faults <= MaxFaults
      /\ work \in [Units -> {"idle", "running", "cut", "ended"}]
  BY ProcessAssumption DEF ProcessInv, ProcessTypeOK, ProcessAssumption
<1>q. ASSUME UNCHANGED process PROVE ProcessInv' /\ Onwards
  <2>1. InFlight' = InFlight
    BY <1>q DEF process, InFlight
  <2> QED BY <1>q, <1>t, <2>1 DEF ProcessInv, ProcessTypeOK, Stages, process, Onwards
<1>f. ASSUME Same, work' = work, Fault \/ UNCHANGED faults PROVE ProcessInv' /\ Onwards
  <2>1. InFlight' = InFlight
    BY <1>f DEF InFlight
  <2>2. faults' \in {faults, faults + 1} /\ faults' <= MaxFaults
    BY <1>f, <1>t DEF Fault
  <2> QED BY <1>f, <1>t, <2>1, <2>2, WorkEnds
<1>h. ASSUME NEW c \in Calls, NEW a \in 1..MaxAttempts,
             HandlerReturns(c, a) \/ HandlerAborts(c, a) \/ HandlerFails(c, a) \/ AnswerLost(c, a)
      PROVE  ProcessInv' /\ Onwards
  <2>1. Same /\ (Fault \/ UNCHANGED faults) /\ work' = [work EXCEPT ![<<c, a>>] = "idle"]
    BY <1>h DEF HandlerReturns, HandlerAborts, HandlerFails, AnswerLost, Handled
  <2>2. /\ work' \in [Units -> {"idle", "running", "cut", "ended"}]
        /\ \A u \in Units : work'[u] \in {work[u], "idle"}
    BY <2>1, <1>t
  <2>3. InFlight' \subseteq InFlight /\ \A u \in Units : work'[u] = "cut" => work[u] = "cut"
    BY <2>2 DEF InFlight
  <2>4. faults' \in {faults, faults + 1} /\ faults' <= MaxFaults
    BY <2>1, <1>t DEF Fault
  <2> QED BY <2>1, <2>2, <2>3, <2>4, WorkEnds
<1>c. ASSUME NEW c \in Calls, NEW why, ConnectionLost(c) \/ RequestEnds(c, why)
      PROVE  ProcessInv' /\ Onwards
  <2>1. Same /\ Fault
    BY <1>c DEF ConnectionLost, RequestEnds
  <2>2. PICK v \in {"idle", "running", "cut", "ended"} :
          /\ work' = [work EXCEPT ![Unit(c)] = v]
          /\ (Unit(c) \in Units => v = work[Unit(c)] \/ (v = "cut" /\ Unit(c) \in InFlight))
    <3>1. CASE ConnectionLost(c)
      BY <3>1 DEF ConnectionLost
    <3>2. CASE RequestEnds(c, why)
      <4>1. CASE Unit(c) \in Units /\ work[Unit(c)] # "running"
        BY <3>2, <4>1, <1>t DEF RequestEnds
      <4>2. CASE Unit(c) \in Units /\ work[Unit(c)] = "running"
        BY <3>2, <4>2, <1>t DEF RequestEnds, InFlight
      <4>3. CASE Unit(c) \notin Units
        BY <4>3, ArrivalsAssumption, <1>c DEF ArrivalsAssumption, Unit
      <4> QED BY <4>1, <4>2, <4>3
    <3> QED BY <1>c, <3>1, <3>2
  <2>3. /\ work' \in [Units -> {"idle", "running", "cut", "ended"}]
        /\ \A u \in Units : work'[u] = work[u] \/ (work'[u] = "cut" /\ u \in InFlight)
    BY <2>2, <1>t
  <2>4. InFlight' \subseteq InFlight
    BY <2>3 DEF InFlight
  <2>5. faults' = faults + 1 /\ faults' <= MaxFaults
    BY <2>1, FaultCounts
  <2> QED BY <2>1, <2>3, <2>4, <2>5, WorkEnds
<1>d. ASSUME NEW c \in Calls, Deliver(c) PROVE ProcessInv' /\ Onwards
  <2>1. Unit(c) \in Units
    BY ArrivalsAssumption DEF ArrivalsAssumption, Unit
  <2> QED BY <1>d, <2>1, BeginKeeps DEF Deliver
<1>1. ASSUME NEW c \in Calls, Goes(c) PROVE ProcessInv' /\ Onwards
  BY <1>1, <1>q, <1>f, <1>d
    DEF Goes, Internally, Reporting, Respond, Unreachable, DeadlinePasses, process, Same
<1>2. ASSUME NEW c \in Calls, NEW r, Arrive(c, r) PROVE ProcessInv' /\ Onwards
  BY <1>2, <1>q DEF Arrive
<1>3. ASSUME OtherCalls PROVE ProcessInv' /\ Onwards
  BY <1>3, <1>q, <1>f DEF OtherCalls, OtherCall
<1>4. ASSUME Timers PROVE ProcessInv' /\ Onwards
  BY <1>4, <1>q DEF Timers
<1>5. ASSUME UNCHANGED vars PROVE ProcessInv' /\ Onwards
  BY <1>5, <1>q DEF vars
<1> QED BY <1>h, <1>c, <1>1, <1>2, <1>3, <1>4, <1>5, MainSteps DEF Next

\* What is in flight has what it uses open, and telemetry, unless main failed.
LEMMA ResourcesOutlive ==
  ASSUME ProcessInv
  PROVE  ResourcesOutliveWork
<1> SUFFICES ASSUME InFlight # {}, phase # "abandoning", NEW x \in InUse \cup {"telemetry"}
             PROVE  x \in Held
  BY DEF ResourcesOutliveWork
<1>1. main \in AllMains
  BY ProcessAssumption DEF ProcessInv, ProcessTypeOK, ProcessAssumption
<1>2. closed = 0 /\ (phase # "starting" => opened = Len(main.opens))
  BY DEF ProcessInv, ProcessTypeOK, Stages, Phases
<1>3. \E i \in 1..opened : main.opens[i] = x
  <2>1. CASE phase = "starting"
    BY <2>1 DEF ProcessInv, Stages, HasFirst, InUse
  <2>2. CASE phase # "starting"
    BY <1>1, <1>2, <2>2, MainLists DEF InUse
  <2> QED BY <2>1, <2>2
<1>4. {main.closes[i] : i \in 1..closed} = {}
  BY <1>2
<1> QED BY <1>3, <1>4 DEF Held
-----------------------------------------------------------------------------
(* The breaker.                                                            *)

\* The account of some calls.
Windows ==
  [state : {"closed", "half-open"}, calls : SUBSET Calls, begun : Nat, failed : Nat, late : Nat, fine : Nat]

\* What an account w that is over was worth: why the breaker is in s now.
Verdict(s, w) ==
  IF s = "open"
  THEN \/ w.state = "closed" /\ w.begun >= MinRequests /\ 2 * (w.failed + w.late) >= w.begun
       \/ w.state = "half-open" /\ w.failed + w.late >= 1
  ELSE w.failed + w.late = 0 /\ w.fine >= HalfOpenRequests

\* A breaker b of which the calls C and n others are in flight agrees with the account w
\* of its calls: either it counts what w says, each call once, or w is over, led to where
\* b is, and nothing has been counted since.
BreakerOK(b, C, n, w) ==
  /\ b \in [state : {"closed", "open", "half-open"}, requests : Nat, failures : Nat, successes : Nat]
  /\ w \in Windows /\ C \subseteq Calls /\ IsFiniteSet(C) /\ n \in Nat
  /\ w.failed + w.late + w.fine <= w.begun /\ w.begun <= MaxWindow
  /\ w.state = "closed" => w.fine = 0
  /\ IF b.state = w.state
     THEN /\ C = w.calls
          /\ b.requests = w.begun /\ b.failures = w.failed + w.late /\ b.successes = w.fine
          /\ w.failed + w.late + w.fine + Cardinality(C) + n <= w.begun
          /\ b.state = "half-open" => b.failures = 0
     ELSE /\ C = {} /\ n = 0
          /\ b.requests = 0 /\ b.failures = 0 /\ b.successes = 0
          /\ b.state # "half-open" /\ Verdict(b.state, w)

BreakerInv == BreakerOK(brk, counts, others, window)

\* A breaker whose invariant holds is of its type, and so is the account.
LEMMA BreakerTyped ==
  ASSUME NEW b, NEW C, NEW n, NEW w, BreakerOK(b, C, n, w)
  PROVE  /\ b \in [state : {"closed", "open", "half-open"}, requests : 0..MaxWindow,
                   failures : 0..MaxWindow, successes : 0..MaxWindow]
         /\ C \subseteq Calls /\ n \in 0..MaxWindow
         /\ w \in [state : {"closed", "half-open"}, calls : SUBSET Calls, begun : 0..MaxWindow,
                   failed : 0..MaxWindow, late : 0..MaxWindow, fine : 0..MaxWindow]
<1>1. Cardinality(C) \in Nat /\ MaxWindow \in Nat
  BY FS_CardinalityType, ClientAssumption DEF BreakerOK, ClientAssumption
<1>2. w.failed \in Nat /\ w.late \in Nat /\ w.fine \in Nat /\ w.begun \in Nat /\ n \in Nat
  BY DEF BreakerOK, Windows
<1>3. w.failed <= MaxWindow /\ w.late <= MaxWindow /\ w.fine <= MaxWindow /\ w.begun <= MaxWindow
  BY <1>1, <1>2 DEF BreakerOK
<1>4. /\ b.requests \in 0..MaxWindow /\ b.failures \in 0..MaxWindow /\ b.successes \in 0..MaxWindow
      /\ n \in 0..MaxWindow
  BY <1>1, <1>2 DEF BreakerOK
<1> QED BY <1>1, <1>2, <1>3, <1>4 DEF BreakerOK, Windows

\* A window and a trial begin with nothing counted.
LEMMA FreshBreaker ==
  ASSUME NEW s \in {"closed", "half-open"}
  PROVE  BreakerOK(Breaker(s, 0, 0, 0), {}, 0, Window(s))
<1>1. Cardinality({}) = 0 /\ IsFiniteSet({}) /\ MaxWindow \in Nat
  BY FS_EmptySet, ClientAssumption DEF ClientAssumption
<1> QED BY <1>1 DEF BreakerOK, Breaker, Window, Windows

\* A breaker that opens, or closes after its trial, has nothing counted, and a reason.
LEMMA OverBreaker ==
  ASSUME NEW s \in {"closed", "open"}, NEW w \in Windows, w.state # s, Verdict(s, w),
         w.failed + w.late + w.fine <= w.begun, w.begun <= MaxWindow, w.state = "closed" => w.fine = 0
  PROVE  BreakerOK(Breaker(s, 0, 0, 0), {}, 0, w)
BY FS_EmptySet DEF BreakerOK, Breaker

\* What the end of one more call makes of an account.
LEMMA NotedFacts ==
  ASSUME NEW w \in Windows, NEW k, w.begun > 0
  PROVE  /\ Noted(w, k) \in Windows
         /\ Noted(w, k).state = w.state /\ Noted(w, k).calls = w.calls
         /\ Noted(w, k).begun = IF excluded(k) THEN w.begun - 1 ELSE w.begun
         /\ Noted(w, k).failed + Noted(w, k).late =
              IF ~excluded(k) /\ unhealthy(k) THEN w.failed + w.late + 1 ELSE w.failed + w.late
         /\ Noted(w, k).fine =
              IF excluded(k) \/ unhealthy(k) THEN w.fine ELSE IF w.state = "closed" THEN 0 ELSE w.fine + 1
<1>1. CASE excluded(k)
  BY <1>1 DEF Noted, Windows, excluded
<1>2. CASE ~excluded(k) /\ unhealthy(k)
  BY <1>2 DEF Noted, Windows, excluded, unhealthy
<1>3. CASE ~excluded(k) /\ ~unhealthy(k)
  BY <1>3 DEF Noted, Windows, excluded, unhealthy
<1> QED BY <1>1, <1>2, <1>3

\* One more call goes out and will be counted; the account of a new window begins with it.
LEMMA BegunKeeps ==
  ASSUME BreakerInv, Begun, NEW C, Joins(C), counts' = counts \cup C,
         \/ \E c \in Calls : C = {c} /\ others' = others
         \/ C = {} /\ others' = others + 1
  PROVE  BreakerInv'
<1>1. Cardinality(counts) \in Nat /\ IsFiniteSet(counts) /\ MaxWindow \in Nat
  BY FS_CardinalityType, ClientAssumption DEF BreakerInv, BreakerOK, ClientAssumption
<1>2. /\ counts' \subseteq Calls /\ IsFiniteSet(counts') /\ Cardinality(counts') \in Nat /\ others' \in Nat
      /\ Cardinality(counts') + others' <= Cardinality(counts) + others + 1
  <2>1. ASSUME NEW c \in Calls, C = {c}, others' = others
        PROVE  /\ counts' \subseteq Calls /\ IsFiniteSet(counts') /\ Cardinality(counts') \in Nat /\ others' \in Nat
               /\ Cardinality(counts') + others' <= Cardinality(counts) + others + 1
    <3>1. counts \subseteq Calls /\ others \in Nat /\ counts' = counts \cup {c}
      BY <2>1 DEF BreakerInv, BreakerOK
    <3>2. IsFiniteSet(counts') /\ Cardinality(counts') \in {Cardinality(counts), Cardinality(counts) + 1}
      <4>1. /\ IsFiniteSet(counts \cup {c})
            /\ Cardinality(counts \cup {c}) = IF c \in counts THEN Cardinality(counts) ELSE Cardinality(counts) + 1
        BY <1>1, FS_AddElement
      <4> QED BY ONLY <3>1, <4>1
    <3> QED BY <2>1, <1>1, <3>1, <3>2
  <2>2. CASE C = {} /\ others' = others + 1
    BY <2>2, <1>1 DEF BreakerInv, BreakerOK
  <2> QED BY <2>1, <2>2
<1>3. /\ brk' \in [state : {"closed", "open", "half-open"}, requests : Nat, failures : Nat, successes : Nat]
      /\ brk'.state = brk.state /\ brk'.failures = brk.failures /\ brk'.successes = brk.successes
      /\ brk'.requests = brk.requests + 1 /\ brk'.requests <= MaxWindow /\ brk.state \in {"closed", "half-open"}
  BY <1>1 DEF BreakerInv, BreakerOK, Begun, Admits
<1>4. /\ Present \in Windows /\ Present.state = brk.state /\ Present.calls = counts
      /\ Present.begun = brk.requests /\ Present.failed + Present.late = brk.failures /\ Present.fine = brk.successes
      /\ Present.failed + Present.late + Present.fine + Cardinality(counts) + others <= Present.begun
      /\ Present.state = "closed" => Present.fine = 0
      /\ brk.state = "half-open" => brk.failures = 0
  <2>1. CASE window.state = brk.state
    BY <2>1 DEF BreakerInv, BreakerOK, Present
  <2>2. CASE window.state # brk.state
    BY <2>2, <1>3, FS_EmptySet DEF BreakerInv, BreakerOK, Present, Window, Windows
  <2> QED BY <2>1, <2>2
<1> DEFINE P == Present
<1>5. /\ window' \in Windows /\ window'.state = P.state /\ window'.calls = P.calls \cup C
      /\ window'.begun = P.begun + 1 /\ window'.failed = P.failed /\ window'.late = P.late /\ window'.fine = P.fine
  <2>1. C \subseteq Calls
    OBVIOUS
  <2>2. window' = [P EXCEPT !.calls = @ \cup C, !.begun = @ + 1]
    BY DEF Joins
  <2>3. P \in Windows
    BY <1>4
  <2> HIDE DEF P
  <2>4. P.calls \cup C \in SUBSET Calls /\ P.begun + 1 \in Nat
    BY <2>1, <2>3 DEF Windows
  <2>5. /\ P = [state |-> P.state, calls |-> P.calls, begun |-> P.begun, failed |-> P.failed, late |-> P.late,
               fine |-> P.fine]
        /\ P.state \in {"closed", "half-open"} /\ P.failed \in Nat /\ P.late \in Nat /\ P.fine \in Nat
    BY <2>3 DEF Windows
  <2>6. window' = [state |-> P.state, calls |-> P.calls \cup C, begun |-> P.begun + 1, failed |-> P.failed,
                   late |-> P.late, fine |-> P.fine]
    BY <2>2, <2>5
  <2> QED BY <2>4, <2>5, <2>6 DEF Windows
<1>6. /\ P.begun \in Nat /\ P.failed \in Nat /\ P.late \in Nat /\ P.fine \in Nat /\ others \in Nat
  BY <1>4 DEF Windows, BreakerInv, BreakerOK
<1>7. BreakerOK(brk', counts', others', window')
  <2>1. window'.failed + window'.late + window'.fine + Cardinality(counts') + others' <= window'.begun
    BY <1>1, <1>2, <1>4, <1>5, <1>6
  <2>2. window'.failed + window'.late + window'.fine <= window'.begun /\ window'.begun <= MaxWindow
    BY <1>2, <1>3, <1>4, <1>5, <1>6, <2>1
  <2> HIDE DEF P
  <2>3. /\ brk'.state = window'.state /\ counts' = window'.calls /\ brk'.requests = window'.begun
        /\ brk'.failures = window'.failed + window'.late /\ brk'.successes = window'.fine
    BY <1>3, <1>4, <1>5 DEF P
  <2>4. (brk'.state = "half-open" => brk'.failures = 0) /\ (window'.state = "closed" => window'.fine = 0)
    BY <1>3, <1>4, <1>5 DEF P
  <2> QED BY <1>2, <1>3, <1>5, <2>1, <2>2, <2>3, <2>4 DEF BreakerOK
<1> QED BY <1>7 DEF BreakerInv

\* A call's outcome is counted, and noted in the account.
LEMMA CountedKeeps ==
  ASSUME BreakerInv, window.state = brk.state, NEW k, NEW D, NEW n, Counted(k, counts \ D, n),
         window' = Noted([window EXCEPT !.calls = @ \ D], k),
         IsFiniteSet(counts \ D), n \in Nat, Cardinality(counts \ D) + n + 1 <= Cardinality(counts) + others
  PROVE  BreakerInv'
<1> DEFINE C == counts \ D
           v == [window EXCEPT !.calls = @ \ D]
<1>t. /\ Cardinality(counts) \in Nat /\ Cardinality(C) \in Nat /\ C \subseteq Calls /\ others \in Nat
      /\ MinRequests \in Nat /\ MaxWindow \in Nat /\ HalfOpenRequests \in Nat
  BY FS_CardinalityType, ClientAssumption DEF BreakerInv, BreakerOK, ClientAssumption
<1>w. /\ window.begun \in Nat /\ window.failed \in Nat /\ window.late \in Nat /\ window.fine \in Nat
      /\ window.failed + window.late + window.fine + Cardinality(counts) + others <= window.begun
      /\ window.begun <= MaxWindow /\ counts = window.calls /\ brk.state \in {"closed", "half-open"}
      /\ brk.requests = window.begun /\ brk.failures = window.failed + window.late /\ brk.successes = window.fine
      /\ brk.state = "half-open" => brk.failures = 0
      /\ brk.state = "closed" => window.fine = 0
      /\ brk \in [state : {"closed", "open", "half-open"}, requests : Nat, failures : Nat, successes : Nat]
  BY DEF BreakerInv, BreakerOK, Windows
<1>v. /\ v \in Windows /\ v.state = brk.state /\ v.calls = C
      /\ v.begun = window.begun /\ v.failed = window.failed /\ v.late = window.late /\ v.fine = window.fine
  BY <1>w DEF BreakerInv, BreakerOK, Windows
<1>p. v.begun > 0
  BY <1>t, <1>w, <1>v
<1>n. /\ window' \in Windows /\ window'.state = brk.state /\ window'.calls = C
      /\ window'.begun = IF excluded(k) THEN window.begun - 1 ELSE window.begun
      /\ window'.failed + window'.late =
           IF ~excluded(k) /\ unhealthy(k) THEN brk.failures + 1 ELSE brk.failures
      /\ window'.fine =
           IF excluded(k) \/ unhealthy(k) THEN window.fine ELSE IF brk.state = "closed" THEN 0 ELSE window.fine + 1
  <2> HIDE DEF v, C
  <2>1. window' = Noted(v, k)
    BY DEF v
  <2> QED BY <2>1, <1>v, <1>p, <1>w, NotedFacts
<1>m. /\ window'.begun \in Nat /\ window'.failed \in Nat /\ window'.late \in Nat /\ window'.fine \in Nat
      /\ window'.failed + window'.late + window'.fine + Cardinality(C) + n <= window'.begun
      /\ window'.failed + window'.late + window'.fine <= window'.begun
      /\ window'.begun <= MaxWindow
      /\ window'.state = "closed" => window'.fine = 0
  <2> HIDE DEF v, C
  <2>1. window'.begun \in Nat /\ window'.failed \in Nat /\ window'.late \in Nat /\ window'.fine \in Nat
    BY <1>n DEF Windows
  <2>2. Cardinality(C) + n + 1 <= Cardinality(counts) + others
    BY DEF C
  <2>s. window'.state = "closed" => window'.fine = 0
    BY <1>n, <1>w
  <2>n. Cardinality(C) \in Nat /\ n \in Nat /\ others \in Nat /\ Cardinality(counts) \in Nat
    BY <1>t
  <2> DEFINE bad == window'.failed + window'.late
  <2>b. bad \in Nat /\ window'.failed <= bad /\ window'.late <= bad /\ brk.failures \in Nat
    BY <2>1, <1>w
  <2>a. /\ window'.begun \in {window.begun, window.begun - 1}
        /\ bad + window'.fine + window.begun <= brk.failures + window.fine + window'.begun + 1
    <3> HIDE DEF bad
    <3>1. bad = IF ~excluded(k) /\ unhealthy(k) THEN brk.failures + 1 ELSE brk.failures
      BY <1>n DEF bad
    <3>2. CASE excluded(k)
      BY <3>1, <3>2, <2>1, <2>b, <1>n, <1>w
    <3>3. CASE ~excluded(k) /\ unhealthy(k)
      BY <3>1, <3>3, <2>1, <2>b, <1>n, <1>w
    <3>4. CASE ~excluded(k) /\ ~unhealthy(k)
      BY <3>1, <3>4, <2>1, <2>b, <1>n, <1>w
    <3> QED BY <3>2, <3>3, <3>4
  <2>c. brk.failures + window.fine + Cardinality(counts) + others <= window.begun
    BY <1>w
  <2>d. bad + window'.fine + Cardinality(C) + n <= window'.begun /\ window'.begun <= MaxWindow
    <3> HIDE DEF bad
    <3> QED BY <2>1, <2>2, <2>n, <2>b, <2>a, <2>c, <1>t, <1>w
  <2> QED BY <2>1, <2>s, <2>n, <2>b, <2>d
<1> HIDE DEF v, C
<1>o. ASSUME NEW s \in {"closed", "open"}, NewGeneration(s), window'.state # s, Verdict(s, window') PROVE BreakerInv'
  <2>1. BreakerOK(Breaker(s, 0, 0, 0), {}, 0, window')
    BY <1>o, <1>n, <1>m, OverBreaker
  <2> QED BY <2>1, <1>o DEF NewGeneration, BreakerInv
<1>s. ASSUME NEW b, brk' = b, counts' = C, others' = n,
             b \in [state : {"closed", "open", "half-open"}, requests : Nat, failures : Nat, successes : Nat],
             b.state = brk.state, b.requests = window'.begun, b.failures = window'.failed + window'.late,
             b.successes = window'.fine, b.state = "half-open" => b.failures = 0
      PROVE  BreakerInv'
  <2>1. IsFiniteSet(C) /\ C \subseteq Calls
    BY <1>t DEF C
  <2>2. BreakerOK(b, C, n, window')
    BY <1>s, <1>n, <1>m, <2>1 DEF BreakerOK
  <2> QED BY <1>s, <2>2 DEF BreakerInv
<1>c. Counted(k, C, n)
  BY DEF C
<1>5. CASE excluded(k)
  <2> DEFINE b == [brk EXCEPT !.requests = @ - 1]
  <2>1. window.begun - 1 \in Nat
    BY <1>p, <1>v, <1>w
  <2>2. /\ b \in [state : {"closed", "open", "half-open"}, requests : Nat, failures : Nat, successes : Nat]
        /\ b.state = brk.state /\ b.requests = window.begun - 1
        /\ b.failures = brk.failures /\ b.successes = brk.successes
    BY <1>w, <2>1
  <2>3. brk' = b /\ counts' = C /\ others' = n
    BY <1>5, <1>c DEF Counted
  <2> HIDE DEF b
  <2> QED BY <1>5, <1>s, <1>n, <1>w, <2>2, <2>3
<1>6. CASE ~excluded(k) /\ unhealthy(k)
  <2>1. CASE brk.state = "half-open" \/ ReadyToTrip(brk.requests, brk.failures + 1)
    <3>1. NewGeneration("open")
      BY <1>6, <1>c, <2>1 DEF Counted
    <3>2. Verdict("open", window')
      <4>1. CASE brk.state = "half-open"
        BY <4>1, <1>6, <1>n, <1>w DEF Verdict
      <4>2. CASE brk.state = "closed" /\ ReadyToTrip(brk.requests, brk.failures + 1)
        <5>1. brk.requests >= MinRequests /\ 2 * (brk.failures + 1) >= brk.requests
          BY <4>2, <1>w, <1>t DEF ReadyToTrip
        <5> QED BY <4>2, <5>1, <1>6, <1>n, <1>w DEF Verdict
      <4> QED BY <2>1, <4>1, <4>2, <1>w
    <3> QED BY <1>o, <1>n, <1>w, <3>1, <3>2
  <2>2. CASE ~(brk.state = "half-open" \/ ReadyToTrip(brk.requests, brk.failures + 1))
    <3> DEFINE b == [brk EXCEPT !.failures = @ + 1]
    <3>1. /\ b \in [state : {"closed", "open", "half-open"}, requests : Nat, failures : Nat, successes : Nat]
          /\ b.state = brk.state /\ b.requests = brk.requests
          /\ b.failures = brk.failures + 1 /\ b.successes = brk.successes
      BY <1>w
    <3>2. brk' = b /\ counts' = C /\ others' = n
      BY <1>6, <1>c, <2>2 DEF Counted
    <3> HIDE DEF b
    <3> QED BY <1>6, <1>s, <1>n, <1>w, <2>2, <3>1, <3>2
  <2> QED BY <2>1, <2>2
<1>7. CASE ~excluded(k) /\ ~unhealthy(k)
  <2>1. CASE brk.state = "half-open" /\ brk.successes + 1 >= HalfOpenRequests
    <3>1. NewGeneration("closed")
      BY <1>7, <1>c, <2>1 DEF Counted
    <3>2. Verdict("closed", window')
      BY <1>7, <1>n, <1>w, <2>1 DEF Verdict
    <3> QED BY <1>o, <1>n, <2>1, <3>1, <3>2
  <2>2. CASE brk.state = "closed"
    <3>1. brk' = brk /\ counts' = C /\ others' = n
      BY <1>7, <1>c, <2>2 DEF Counted
    <3> QED BY <1>7, <1>s, <1>n, <1>w, <2>2, <3>1
  <2>3. CASE brk.state = "half-open" /\ ~(brk.successes + 1 >= HalfOpenRequests)
    <3> DEFINE b == [brk EXCEPT !.successes = @ + 1]
    <3>1. /\ b \in [state : {"closed", "open", "half-open"}, requests : Nat, failures : Nat, successes : Nat]
          /\ b.state = brk.state /\ b.requests = brk.requests
          /\ b.failures = brk.failures /\ b.successes = brk.successes + 1
      BY <1>w
    <3>2. brk' = b /\ counts' = C /\ others' = n
      BY <1>7, <1>c, <2>3 DEF Counted
    <3> HIDE DEF b
    <3> QED BY <1>7, <1>s, <1>n, <1>w, <2>3, <3>1, <3>2
  <2> QED BY <1>w, <2>1, <2>2, <2>3
<1> QED BY <1>5, <1>6, <1>7

\* Every step keeps the breaker's books.
LEMMA NextBreaker ==
  ASSUME BreakerInv, [Next]_vars
  PROVE  BreakerInv'
<1>q. ASSUME UNCHANGED <<breaker, window>> PROVE BreakerInv'
  BY <1>q DEF breaker, BreakerInv
<1>b. IsFiniteSet(counts) /\ Cardinality(counts) \in Nat /\ counts \subseteq Calls /\ others \in Nat
  BY FS_CardinalityType DEF BreakerInv, BreakerOK
<1>1. ASSUME NEW c \in Calls, NEW r, Arrive(c, r) PROVE BreakerInv'
  <2>1. CASE Admit(c) /\ Joins({c})
    BY <2>1, BegunKeeps DEF Admit
  <2>2. CASE (ShutOut(c) \/ EdgeRefuses(c, EdgeCode(r))) /\ UNCHANGED window
    BY <2>2, <1>q DEF ShutOut, EdgeRefuses
  <2> QED BY <1>1, <2>1, <2>2 DEF Arrive
<1>2. ASSUME NEW c \in Calls, Reporting(c) PROVE BreakerInv'
  <2>1. CASE c \in counts
    <3>1. /\ IsFiniteSet(counts \ {c})
          /\ Cardinality(counts \ {c}) + others + 1 <= Cardinality(counts) + others
      <4>1. IsFiniteSet(counts \ {c}) /\ Cardinality(counts \ {c}) = Cardinality(counts) - 1
        BY <2>1, <1>b, FS_RemoveElement
      <4> QED BY <1>b, <4>1
    <3>2. window.state = brk.state /\ c \in window.calls
      BY <2>1 DEF BreakerInv, BreakerOK
    <3>3. Counted(code[c], counts \ {c}, others)
      BY <1>2, <2>1 DEF Reporting, Report
    <3>4. window' = Noted([window EXCEPT !.calls = @ \ {c}], code[c])
      BY <1>2, <3>2 DEF Reporting, Leaves
    <3> QED BY <1>b, <3>1, <3>2, <3>3, <3>4, CountedKeeps
  <2>2. CASE c \notin counts
    <3>1. UNCHANGED breaker
      BY <1>2, <2>2 DEF Reporting, Report
    <3>2. window.state = brk.state => c \notin window.calls
      BY <2>2 DEF BreakerInv, BreakerOK
    <3> QED BY <1>2, <1>q, <3>1, <3>2 DEF Reporting, Leaves
  <2> QED BY <2>1, <2>2
<1>3. ASSUME NEW c \in Calls, Goes(c) PROVE BreakerInv'
  BY <1>2, <1>3, <1>q
    DEF Goes, Internally, SendTooLate, Retrying, Retry, Returns, Respond, Deliver, Unreachable,
                        DeadlinePasses, ContextEnds, story
<1>4. ASSUME NEW c \in Calls, NEW a, NEW why,
             \/ ConnectionLost(c) \/ RequestEnds(c, why)
             \/ HandlerReturns(c, a) \/ HandlerAborts(c, a) \/ HandlerFails(c, a) \/ AnswerLost(c, a)
      PROVE  BreakerInv'
  BY <1>4, <1>q DEF ConnectionLost, RequestEnds, HandlerReturns, HandlerAborts, HandlerFails, AnswerLost,
                  Handled, Hears, Returns, ContextEnds, story, client
<1>5. ASSUME NEW k, OtherCall(k) PROVE BreakerInv'
  <2>1. /\ others > 0 /\ Counted(k, counts, others - 1)
    BY <1>5 DEF OtherCall, OtherEnds
  <2>2. window.state = brk.state
    BY <2>1 DEF BreakerInv, BreakerOK
  <2>3. window' = Noted([window EXCEPT !.calls = @ \ {}], k)
    BY <1>5, <2>2 DEF OtherCall, Leaves
  <2>4. counts \ {} = counts /\ others - 1 \in Nat
        /\ Cardinality(counts) + (others - 1) + 1 <= Cardinality(counts) + others
    BY <1>b, <2>1
  <2> QED BY <1>b, <2>1, <2>2, <2>3, <2>4, CountedKeeps
<1>6. ASSUME OtherCalls PROVE BreakerInv'
  <2>1. CASE OtherBegins /\ Joins({})
    BY <2>1, BegunKeeps DEF OtherBegins
  <2>2. CASE OtherShutOut /\ UNCHANGED story
    BY <2>2, <1>q DEF OtherShutOut, story, client
  <2> QED BY <1>5, <1>6, <2>1, <2>2 DEF OtherCalls
<1>7. ASSUME Timers PROVE BreakerInv'
  <2>1. CASE WindowEnds /\ window' = Window("closed")
    BY <2>1, FreshBreaker DEF WindowEnds, NewGeneration, BreakerInv
  <2>2. CASE RestEnds /\ window' = Window("half-open")
    BY <2>2, FreshBreaker DEF RestEnds, NewGeneration, BreakerInv
  <2> QED BY <1>7, <2>1, <2>2 DEF Timers
<1>8. ASSUME CallsCutOff \/ UNCHANGED <<client, story>> \/ UNCHANGED vars PROVE BreakerInv'
  BY <1>8, <1>q DEF CallsCutOff, client, story, vars
<1> QED BY <1>1, <1>3, <1>4, <1>6, <1>7, <1>8 DEF Next
-----------------------------------------------------------------------------
(* The calls.                                                              *)

\* Answers that say that nothing happened.
Refusals == {"NotFound", "InvalidArgument", "FailedPrecondition", "Unauthenticated"}

CallTypes ==
  /\ pc \in [Calls -> {"idle", "send", "waiting", "returned", "answered"}]
  /\ attempt \in [Calls -> 1..MaxAttempts]
  /\ code \in [Calls -> Codes]
  /\ ctx \in [Calls -> {"alive", "DeadlineExceeded", "Canceled"}]
  /\ request \in [Calls -> Arrivals]
  /\ served \in [Calls -> 0..MaxAttempts]
  /\ effect \in [Calls -> 0..MaxAttempts]

\* A call is served at most once an attempt, and takes effect once: a handler that
\* is at work on a call that took effect already is one that recognises a repeat.
OnceOnly(c) ==
  /\ pc[c] = "idle" => served[c] = 0 /\ effect[c] = 0 /\ attempt[c] = 1
  /\ served[c] <= attempt[c] /\ (pc[c] = "send" => served[c] < attempt[c])
  /\ effect[c] <= 1
  /\ effect[c] > 0 => served[c] > 0 /\ Method(c).effect /\ Refused(request[c]) = "none"
  /\ attempt[c] > 1 /\ Method(c).effect => Method(c).again = "replays"
  /\ main.serves = "grpc" => \A a \in 1..MaxAttempts : <<c, a>> \in InFlight =>
       /\ a <= attempt[c] /\ pc[c] # "idle" /\ served[c] > 0
       /\ effect[c] > 0 => Method(c).again = "replays"

\* A call that was told it succeeded did; one that was refused had no effect and never
\* will, unless its method records what it is about first; without a fault only an attempt that was not served is unavailable.
TrueAnswer(c) ==
  /\ pc[c] \in {"returned", "answered"} =>
       /\ code[c] = "OK" /\ Method(c).effect => effect[c] = 1
       /\ code[c] \in Refusals /\ ~RecordsFirst(c) =>
            /\ effect[c] = 0
            /\ Refused(request[c]) = "none" => \A a \in 1..MaxAttempts : <<c, a>> \notin InFlight
  /\ faults = 0 => /\ pc[c] = "waiting" => work[Unit(c)] = "running"
                   /\ pc[c] = "returned" /\ code[c] = "Unavailable" => served[c] < attempt[c]

CallOK(c) == (main.serves # "grpc" => pc[c] = "idle") /\ OnceOnly(c) /\ TrueAnswer(c)

CallInv == CallTypes /\ \A c \in Calls : CallOK(c)

\* A method reads or has an effect.
LEMMA MethodFacts ==
  \A m \in Methods : m.effect \in BOOLEAN /\ (m.effect => ~m.reads)
<1> DEFINE Fine(m) == m.effect \in BOOLEAN /\ (m.effect => ~m.reads)
<1>r. ASSUME NEW s, NEW n, NEW f PROVE Fine(Read(s, n, f))
  BY DEF Read
<1>w. ASSUME NEW s, NEW n, NEW g, NEW f PROVE Fine(Write(s, n, g, f))
  BY DEF Write
<1> HIDE DEF Fine
<1>1. \A m \in IdentityMethods : Fine(m)
  BY <1>r, <1>w DEF IdentityMethods, Register, GetUser, GetUsersByIDs, Login, RefreshToken, Logout
<1>2. \A m \in CatalogMethods : Fine(m)
  BY <1>r, <1>w
    DEF CatalogMethods, GetProduct, GetProductsByIDs, GetVariantsBySKUs, ListProducts, CreateProduct, UpdateProduct,
   AddVariant, UpdateVariant, PublishProduct, ArchiveProduct
<1>3. \A m \in InventoryMethods : Fine(m)
  BY <1>r, <1>w
    DEF InventoryMethods, GetStockBySKUs, CreateStockItem, AdjustStock, GetReservation, ReserveStock,
   CommitReservation, ReleaseReservation
<1>4. \A m \in OrderMethods : Fine(m)
  BY <1>r, <1>w DEF OrderMethods, Checkout, GetOrder, ListOrders
<1>5. \A m \in PaymentMethods : Fine(m)
  BY <1>r, <1>w DEF PaymentMethods, InitiatePayment, GetPayment, GetPaymentsByOrderIDs, HandleProviderCallback
<1>6. \A m \in Methods : Fine(m)
  BY <1>1, <1>2, <1>3, <1>4, <1>5 DEF Methods
<1> QED BY <1>6 DEF Fine

\* A route calls a method, and what is optional only reads.
LEMMA RouteFacts ==
  \A r \in Routes : r.method \in Methods /\ (r.optional => ~r.method.effect)
<1> DEFINE Fine(r) == r.method \in Methods /\ (r.optional => ~r.method.effect)
<1>1. ASSUME NEW m \in Methods PROVE Fine(Public(m)) /\ Fine(Authenticated(m)) /\ Fine(Background(m))
  BY DEF Public, Authenticated, Background, Route
<1>2. Fine(availableBySKU)
  BY DEF availableBySKU, Route, GetStockBySKUs, Read, Methods, InventoryMethods
<1>3. {Register, Login, RefreshToken, Logout, ListProducts, GetProduct, HandleProviderCallback, GetUser, Checkout,
       ListOrders, GetOrder, InitiatePayment, ReserveStock, CommitReservation, ReleaseReservation,
       GetVariantsBySKUs} \subseteq Methods
  BY DEF Methods, IdentityMethods, CatalogMethods, InventoryMethods, OrderMethods, PaymentMethods
<1> HIDE DEF Fine
<1>4. Fine(register) /\ Fine(login) /\ Fine(refresh) /\ Fine(logout) /\ Fine(listProducts) /\ Fine(getProduct)
  BY <1>1, <1>3 DEF register, login, refresh, logout, listProducts, getProduct
<1>5. Fine(handleProviderWebhook) /\ Fine(me) /\ Fine(checkout) /\ Fine(listOrders) /\ Fine(getOrder) /\ Fine(startPayment)
  BY <1>1, <1>3 DEF handleProviderWebhook, me, checkout, listOrders, getOrder, startPayment
<1>6. Fine(reserve) /\ Fine(commit) /\ Fine(release) /\ Fine(quotePrice) /\ Fine(findOrder)
  BY <1>1, <1>3 DEF reserve, commit, release, quotePrice, findOrder
<1>7. \A r \in ByHand : Fine(r)
  BY <1>1 DEF ByHand
<1>8. \A r \in Routes : Fine(r)
  BY <1>2, <1>4, <1>5, <1>6, <1>7 DEF Routes
<1> QED BY <1>8 DEF Fine

\* What arrives is about a method; one that is not optional, if it has an effect, and
\* that the client repeats only if a repeat is recognised.
LEMMA ArrivalFacts ==
  ASSUME NEW r \in Arrivals
  PROVE  LET m == r.route.method IN
         /\ m.effect \in BOOLEAN
         /\ r.route.optional => ~m.effect
         /\ m.effect /\ idempotent(m) => m.again = "replays"
<1>1. r \in Requests
  BY ArrivalsAssumption DEF ArrivalsAssumption
<1>2. r.route \in Routes
  BY <1>1 DEF Requests
<1>3. r.route.method \in Methods /\ (r.route.optional => ~r.route.method.effect)
  BY <1>2, RouteFacts
<1> QED BY <1>3, MethodFacts, RepeatsAssumption DEF RepeatsAssumption, idempotent

\* What a handler refuses becomes one of the refusals.
LEMMA RefusalFacts ==
  ASSUME NEW r
  PROVE  Refused(r) # "none" => codeForKind[Refused(r)] \in Refusals
<1>1. Refused(r) \in {"InvalidInput", "Unauthenticated", "NotFound", "none"}
  BY DEF Refused
<1>2. /\ codeForKind["InvalidInput"] = "InvalidArgument"
      /\ codeForKind["Unauthenticated"] = "Unauthenticated"
      /\ codeForKind["NotFound"] = "NotFound"
  BY DEF codeForKind, Kinds
<1> QED BY <1>1, <1>2 DEF Refusals

\* The status of an answer tells a success from a refusal.
LEMMA StatusFacts ==
  ASSUME NEW k \in Codes
  PROVE  /\ HTTPStatus(k) = 200 => k = "OK"
         /\ HTTPStatus(k) \in 400..498 => k \in Refusals
BY DEF HTTPStatus, Codes, Refusals

\* A call that a step leaves alone, in a process that only ended or cut work of it
\* because something failed, is where it was.
LEMMA CallKept ==
  ASSUME NEW d \in Calls, CallOK(d), Onwards,
         pc'[d] = pc[d], attempt'[d] = attempt[d], code'[d] = code[d],
         request'[d] = request[d], served'[d] = served[d], effect'[d] = effect[d],
         main.serves = "grpc" => \A a \in 1..MaxAttempts : <<d, a>> \in InFlight' => <<d, a>> \in InFlight,
         faults' = 0 /\ pc[d] = "waiting" => work'[Unit(d)] = work[Unit(d)]
  PROVE  CallOK(d)'
<1>1. main' = main /\ (faults' = 0 => faults = 0) /\ Unit(d)' = Unit(d) /\ Method(d)' = Method(d)
      /\ Refused(request[d])' = Refused(request[d]) /\ RecordsFirst(d)' = RecordsFirst(d)
  BY DEF Onwards, Unit, Method, RecordsFirst
<1>2. OnceOnly(d)'
  BY <1>1 DEF CallOK, OnceOnly
<1>3. TrueAnswer(d)'
  <2>1. pc[d] \in {"returned", "answered"} /\ code[d] \in Refusals /\ ~RecordsFirst(d) =>
          /\ main.serves = "grpc" /\ effect[d] = 0
          /\ Refused(request[d]) = "none" => \A a \in 1..MaxAttempts : <<d, a>> \notin InFlight
    BY DEF CallOK, TrueAnswer
  <2> QED BY <1>1, <2>1 DEF CallOK, TrueAnswer
<1> QED BY <1>1, <1>2, <1>3 DEF CallOK

\* The handler of an attempt of c is done.
LEMMA HandledKeeps ==
  ASSUME ProcessInv, CallInv, NEW c \in Calls, NEW a \in 1..MaxAttempts,
         HandlerReturns(c, a) \/ HandlerAborts(c, a) \/ HandlerFails(c, a) \/ AnswerLost(c, a), Onwards
  PROVE  CallOK(c)'
<1>r. main.serves = "grpc" /\ UNCHANGED <<attempt, request, served>>
  BY DEF HandlerReturns, HandlerAborts, HandlerFails, AnswerLost, Handled, Hears, Returns, client
<1>p. faults \in Nat /\ faults' \in Nat /\ (faults' = 0 => faults = 0)
  BY DEF Onwards
<1>t. /\ pc \in [Calls -> {"idle", "send", "waiting", "returned", "answered"}]
      /\ code \in [Calls -> Codes] /\ effect \in [Calls -> 0..MaxAttempts]
      /\ attempt \in [Calls -> 1..MaxAttempts] /\ served \in [Calls -> 0..MaxAttempts]
      /\ work \in [Units -> {"idle", "running", "cut", "ended"}] /\ CallOK(c)
  BY DEF CallInv, CallTypes, ProcessInv, ProcessTypeOK
<1>n. effect[c] \in Nat /\ served[c] \in Nat /\ attempt[c] \in Nat
  BY <1>t, ClientAssumption DEF ClientAssumption
<1>s. main' = main /\ Unit(c)' = Unit(c) /\ Method(c)' = Method(c) /\ Refused(request[c])' = Refused(request[c])
      /\ RecordsFirst(c)' = RecordsFirst(c)
  BY <1>r DEF Onwards, Unit, Method, RecordsFirst
<1>h. PICK done : Handled(c, a, done)
  BY DEF HandlerReturns, HandlerAborts, HandlerFails, AnswerLost
<1>w. /\ <<c, a>> \in InFlight /\ <<c, a>> \in Units /\ work' = [work EXCEPT ![<<c, a>>] = "idle"]
      /\ InFlight' = InFlight \ {<<c, a>>}
  BY <1>t, <1>h DEF Handled, InFlight
<1>f. /\ a <= attempt[c] /\ pc[c] # "idle" /\ served[c] > 0
      /\ effect[c] > 0 => Method(c).again = "replays"
  BY <1>t, <1>r, <1>w DEF CallOK, OnceOnly
<1>k. /\ \A o \in Answers(c) :
           /\ o.effect => TakesEffect(c)
           /\ o.code = "OK" => o.effect = TakesEffect(c) /\ Refused(request[c]) = "none"
           /\ o.code \in Refusals => Refused(request[c]) # "none"
           /\ o.code # "Unavailable"
      /\ \A o \in Troubles(c) :
           (o.effect => TakesEffect(c)) /\ o.code # "OK" /\ (o.code \in Refusals => RecordsFirst(c))
  <2>1. \A o \in Answers(c) :
           /\ o.effect => TakesEffect(c)
           /\ o.code = "OK" => o.effect = TakesEffect(c) /\ Refused(request[c]) = "none"
           /\ o.code \in Refusals => Refused(request[c]) # "none"
           /\ o.code # "Unavailable"
    BY <1>f, RefusalFacts DEF Answers, Outcome, Refusals
  <2>2. \A o \in Troubles(c) :
           (o.effect => TakesEffect(c)) /\ o.code # "OK" /\ (o.code \in Refusals => RecordsFirst(c))
    BY DEF Troubles, Outcome, Refusals
  <2> QED BY <2>1, <2>2
\* What it says is what it did.
<1>o. PICK o : /\ effect' = [effect EXCEPT ![c] = IF o.effect THEN @ + 1 ELSE @]
               /\ o.effect => TakesEffect(c)
               /\ o.code = "OK" => o.effect = TakesEffect(c) /\ Refused(request[c]) = "none"
               /\ o.code \in Refusals /\ ~RecordsFirst(c) => Refused(request[c]) # "none"
               /\ faults' = 0 => o.code # "Unavailable"
               /\ \/ Hears(c, a, o.code)
                  \/ UNCHANGED <<pc, code>> /\ (faults' = 0 => work[<<c, a>>] = "cut")
  <2>1. CASE HandlerReturns(c, a)
    BY <2>1, <1>k DEF HandlerReturns, Handled
  <2>2. CASE HandlerAborts(c, a)
    <3> DEFINE none == Outcome("Canceled", FALSE)
    <3>1. none.effect = FALSE /\ none.code = "Canceled" /\ none.code \notin Refusals
      BY DEF Outcome, Refusals
    <3>2. Handled(c, a, none) /\ UNCHANGED <<pc, code>> /\ work[<<c, a>>] = "cut"
      BY <2>2 DEF HandlerAborts, client
    <3> HIDE DEF none
    <3> QED BY <3>1, <3>2 DEF Handled
  <2>3. CASE HandlerFails(c, a)
    <3>1. faults' # 0
      <4>1. CASE main.uses \subseteq Held
        BY <2>3, <4>1, FaultCounts DEF HandlerFails
      <4>2. CASE ~(main.uses \subseteq Held)
        BY <2>3, <4>2, <1>w, <1>p, <1>r, ResourcesOutlive DEF ResourcesOutliveWork, InUse, ProcessInv, Stages
      <4> QED BY <4>1, <4>2
    <3> QED BY <2>3, <3>1, <1>k DEF HandlerFails, Handled
  <2>4. CASE AnswerLost(c, a)
    <3>1. faults' # 0
      BY <2>4, FaultCounts DEF AnswerLost
    <3> QED BY <2>4, <3>1, <1>k DEF AnswerLost, Handled, client
  <2> QED BY <2>1, <2>2, <2>3, <2>4
<1>e. \/ effect'[c] = effect[c] /\ ~o.effect
      \/ effect[c] = 0 /\ effect'[c] = 1 /\ TakesEffect(c)
  <2>1. TakesEffect(c) => effect[c] = 0
    BY <1>f, <1>n DEF TakesEffect
  <2>2. effect'[c] = IF o.effect THEN effect[c] + 1 ELSE effect[c]
    BY <1>o, <1>t
  <2> QED BY <1>o, <2>1, <2>2
<1>l. effect'[c] \in Nat
  BY <1>e, <1>n
<1>c. \/ pc'[c] = pc[c] /\ code'[c] = code[c]
         /\ (pc[c] = "waiting" /\ faults' = 0 => work[<<c, a>>] # "running" \/ attempt[c] # a)
      \/ pc'[c] = "returned" /\ code'[c] = o.code
  BY <1>o, <1>t DEF Hears, Returns
<1>1. OnceOnly(c)'
  <2>1. pc'[c] # "idle" /\ (pc'[c] = "send" => pc[c] = "send")
    BY <1>c, <1>f
  <2>2. effect'[c] <= 1 /\ (effect'[c] > 0 => served[c] > 0 /\ Method(c).effect /\ Refused(request[c]) = "none")
    BY <1>e, <1>f, <1>t DEF CallOK, OnceOnly, TakesEffect
  <2>3. ASSUME NEW b \in 1..MaxAttempts, <<c, b>> \in InFlight', effect'[c] > 0
        PROVE  b <= attempt[c] /\ Method(c).again = "replays"
    <3>1. b <= attempt[c] /\ b # a
      BY <2>3, <1>w, <1>t, <1>r DEF CallOK, OnceOnly
    <3>2. attempt[c] > 1
      BY <3>1, <1>f, <1>n
    <3> QED BY <2>2, <2>3, <3>1, <3>2, <1>t DEF CallOK, OnceOnly
  <2>4. \A b \in 1..MaxAttempts : <<c, b>> \in InFlight' => b <= attempt[c]
    BY <1>w, <1>t, <1>r DEF CallOK, OnceOnly
  <2> QED BY <2>1, <2>2, <2>3, <2>4, <1>f, <1>r, <1>s, <1>t DEF CallOK, OnceOnly
<1>2. TrueAnswer(c)'
  <2>1. CASE pc'[c] = "returned" /\ code'[c] = o.code
    <3>1. code'[c] = "OK" /\ Method(c).effect => effect'[c] = 1
      <4> SUFFICES ASSUME code'[c] = "OK", Method(c).effect PROVE effect'[c] = 1
        OBVIOUS
      <4>1. o.effect = TakesEffect(c) /\ Refused(request[c]) = "none"
        BY <2>1, <1>o
      <4>2. effect[c] = 0 => TakesEffect(c)
        BY <4>1 DEF TakesEffect
      <4>3. effect[c] = 0 \/ effect[c] = 1
        BY <1>n, <1>t DEF CallOK, OnceOnly
      <4> QED BY <4>1, <4>2, <4>3, <1>e
    <3>2. code'[c] \in Refusals /\ ~RecordsFirst(c) => effect'[c] = 0 /\ Refused(request[c]) # "none"
      BY <2>1, <1>o, <1>e, <1>n, <1>t DEF TakesEffect, CallOK, OnceOnly
    <3> QED BY <2>1, <3>1, <3>2, <1>o, <1>s DEF TrueAnswer
  <2>2. CASE /\ pc'[c] = pc[c] /\ code'[c] = code[c]
             /\ pc[c] = "waiting" /\ faults' = 0 => work[<<c, a>>] # "running" \/ attempt[c] # a
    <3>1. pc[c] \in {"returned", "answered"} /\ code[c] = "OK" /\ Method(c).effect => effect'[c] = 1
      BY <1>e, <1>t DEF CallOK, TrueAnswer
    <3>2. pc[c] \in {"returned", "answered"} /\ code[c] \in Refusals /\ ~RecordsFirst(c) =>
            effect'[c] = 0 /\ Refused(request[c]) # "none"
      BY <1>e, <1>t, <1>w DEF CallOK, TrueAnswer, TakesEffect
    <3>3. faults' = 0 /\ pc[c] = "waiting" => work'[Unit(c)] = "running"
      BY <2>2, <1>p, <1>t, <1>w DEF CallOK, TrueAnswer, Unit
    <3>4. faults' = 0 /\ pc[c] = "returned" /\ code[c] = "Unavailable" => served[c] < attempt[c]
      BY <1>p, <1>t DEF CallOK, TrueAnswer
    <3> QED BY <2>2, <3>1, <3>2, <3>3, <3>4, <1>r, <1>s DEF TrueAnswer
  <2> QED BY <1>c, <2>1, <2>2
<1> QED BY <1>1, <1>2, <1>r, <1>s DEF CallOK

\* What CallInv says of one call.
LEMMA CallFacts ==
  ASSUME ProcessInv, CallInv, NEW c \in Calls
  PROVE  /\ CallOK(c)
         /\ served[c] \in Nat /\ effect[c] \in Nat /\ attempt[c] \in Nat
         /\ Unit(c) \in Units /\ request[c] \in Arrivals
         /\ work \in [Units -> {"idle", "running", "cut", "ended"}]
<1>1. /\ CallOK(c) /\ request[c] \in Arrivals /\ attempt[c] \in 1..MaxAttempts
      /\ served[c] \in 0..MaxAttempts /\ effect[c] \in 0..MaxAttempts
      /\ work \in [Units -> {"idle", "running", "cut", "ended"}]
  BY DEF CallInv, CallTypes, ProcessInv, ProcessTypeOK
<1> QED BY <1>1, ArrivalsAssumption, ClientAssumption DEF ArrivalsAssumption, ClientAssumption, Unit

\* An attempt ends without its handler's answer.
LEMMA CallFails ==
  ASSUME ProcessInv, CallInv, NEW d \in Calls, Onwards,
         attempt'[d] = attempt[d], request'[d] = request[d], served'[d] = served[d], effect'[d] = effect[d],
         pc[d] \in {"send", "waiting"}, pc'[d] = "returned", code'[d] \notin Refusals \cup {"OK"},
         faults' = 0 /\ code'[d] = "Unavailable" => served[d] < attempt[d],
         main.serves = "grpc" => \A a \in 1..MaxAttempts : <<d, a>> \in InFlight' => <<d, a>> \in InFlight
  PROVE  CallOK(d)'
<1>1. main' = main /\ Method(d)' = Method(d) /\ Refused(request[d])' = Refused(request[d])
      /\ RecordsFirst(d)' = RecordsFirst(d)
  BY DEF Onwards, Method, RecordsFirst
<1>2. CallOK(d)
  BY CallFacts
<1>3. OnceOnly(d)'
  BY <1>1, <1>2 DEF CallOK, OnceOnly
<1>4. TrueAnswer(d)'
  BY <1>1, <1>2 DEF CallOK, TrueAnswer
<1> QED BY <1>1, <1>2, <1>3, <1>4 DEF CallOK

\* A step of c is none of another call.
LEMMA OthersKept ==
  ASSUME ProcessInv, CallInv, NEW c \in Calls, Onwards,
         \A d \in Calls \ {c} :
           /\ pc'[d] = pc[d] /\ attempt'[d] = attempt[d] /\ code'[d] = code[d]
           /\ request'[d] = request[d] /\ served'[d] = served[d] /\ effect'[d] = effect[d],
         work' = work \/ \E a \in 1..MaxAttempts : \E v : work' = [work EXCEPT ![<<c, a>>] = v]
  PROVE  \A d \in Calls \ {c} : CallOK(d)'
<1> SUFFICES ASSUME NEW d \in Calls \ {c} PROVE CallOK(d)'
  OBVIOUS
<1>1. work \in [Units -> {"idle", "running", "cut", "ended"}] /\ CallOK(d) /\ Unit(d) \in Units
  BY CallFacts
<1>2. \A a \in 1..MaxAttempts : <<d, a>> \in Units => work'[<<d, a>>] = work[<<d, a>>]
  BY <1>1
<1>3. \A a \in 1..MaxAttempts : <<d, a>> \in InFlight' => <<d, a>> \in InFlight
  BY <1>2 DEF InFlight
<1>4. work'[Unit(d)] = work[Unit(d)]
  BY <1>1, <1>2 DEF Unit, CallInv, CallTypes
<1> QED BY <1>1, <1>3, <1>4, CallKept

\* A request arrives, is answered and gone, and in between goes out and is reported.
LEMMA CallMoves ==
  ASSUME ProcessInv, CallInv, NEW c \in Calls, Onwards,
         \/ \E r \in Arrivals : Arrive(c, r)
         \/ Respond(c) \/ Reporting(c) \/ Deliver(c)
         \/ Retrying(c) /\ UNCHANGED <<process, story>>
  PROVE  CallTypes' /\ CallOK(c)'
<1>t. /\ CallOK(c) /\ served[c] \in Nat /\ effect[c] \in Nat /\ attempt[c] \in Nat
      /\ Unit(c) \in Units /\ request[c] \in Arrivals
      /\ work \in [Units -> {"idle", "running", "cut", "ended"}]
  BY CallFacts
<1>m. main' = main /\ faults \in Nat /\ (faults' = 0 => faults = 0) /\ MaxAttempts \in Nat \ {0}
  BY ClientAssumption DEF Onwards, ClientAssumption
<1>f. /\ pc \in [Calls -> {"idle", "send", "waiting", "returned", "answered"}]
      /\ attempt \in [Calls -> 1..MaxAttempts]
      /\ code \in [Calls -> Codes]
      /\ ctx \in [Calls -> {"alive", "DeadlineExceeded", "Canceled"}]
      /\ request \in [Calls -> Arrivals]
      /\ served \in [Calls -> 0..MaxAttempts]
      /\ effect \in [Calls -> 0..MaxAttempts]
  BY DEF CallInv, CallTypes
<1>1. ASSUME NEW r \in Arrivals, Arrive(c, r) PROVE CallTypes' /\ CallOK(c)'
  <2>1. /\ pc[c] = "idle" /\ UNCHANGED <<attempt, ctx, served, effect, work, faults>> /\ main.serves = "grpc"
        /\ request' = [request EXCEPT ![c] = r] /\ InFlight' = InFlight
    BY <1>1 DEF Arrive, Admit, ShutOut, EdgeRefuses, Goto, process, InFlight
  <2>2. \/ pc' = [pc EXCEPT ![c] = "send"] /\ code' = code
        \/ \E k \in {"Unavailable", "Unauthenticated", "InvalidArgument"} :
             pc' = [pc EXCEPT ![c] = "answered"] /\ code' = [code EXCEPT ![c] = k]
    BY <1>1 DEF Arrive, Admit, ShutOut, EdgeRefuses, Goto, EdgeCode
  <2>3. CallTypes'
    BY <1>f, <2>1, <2>2 DEF CallTypes, Codes
  <2>4. /\ served[c] = 0 /\ effect[c] = 0 /\ attempt[c] = 1
        /\ \A a \in 1..MaxAttempts : <<c, a>> \notin InFlight
    BY <1>t, <2>1 DEF CallOK, OnceOnly
  <2>5. pc'[c] = "send" \/ (pc'[c] = "answered" /\ code'[c] # "OK")
    BY <1>f, <2>2
  <2>6. OnceOnly(c)'
    BY <2>1, <2>4, <2>5 DEF OnceOnly
  <2>7. TrueAnswer(c)'
    BY <2>1, <2>4, <2>5 DEF TrueAnswer
  <2> QED BY <1>m, <2>1, <2>3, <2>6, <2>7 DEF CallOK
<1>2. ASSUME Respond(c) PROVE CallTypes' /\ CallOK(c)'
  <2>1. CallTypes'
    <3>1. Nothing \in Arrivals
      BY ArrivalsAssumption DEF Nothing, ArrivalsAssumption
    <3> QED BY <1>2, <1>f, <1>m, <3>1 DEF Respond, Goto, CallTypes, Codes
  <2>2. /\ pc'[c] = "idle" /\ served'[c] = 0 /\ effect'[c] = 0 /\ attempt'[c] = 1
        /\ \A a \in 1..MaxAttempts : <<c, a>> \notin InFlight'
    <3>1. pc'[c] = "idle" /\ served'[c] = 0 /\ effect'[c] = 0 /\ attempt'[c] = 1
      BY <1>2, <1>f DEF Respond, Goto
    <3>2. InFlight' = InFlight
      BY <1>2 DEF Respond, process, InFlight
    <3>3. \A a \in 1..MaxAttempts : <<c, a>> \notin InFlight
      BY <1>2 DEF Respond
    <3> QED BY <3>1, <3>2, <3>3
  <2>3. OnceOnly(c)' /\ TrueAnswer(c)'
    BY <2>2 DEF OnceOnly, TrueAnswer
  <2> QED BY <2>1, <2>2, <2>3 DEF CallOK
<1>3. ASSUME Reporting(c) PROVE CallTypes' /\ CallOK(c)'
  <2>1. /\ pc[c] = "returned" /\ pc' = [pc EXCEPT ![c] = "answered"]
        /\ UNCHANGED <<attempt, code, ctx, request, served, effect, work, faults>> /\ InFlight' = InFlight
    BY <1>3 DEF Reporting, Report, Goto, process, InFlight
  <2>2. CallTypes'
    BY <1>f, <2>1 DEF CallTypes
  <2>3. pc'[c] = "answered" /\ Method(c)' = Method(c) /\ Refused(request[c])' = Refused(request[c])
        /\ RecordsFirst(c)' = RecordsFirst(c)
    BY <1>f, <2>1 DEF Method, RecordsFirst
  <2>4. OnceOnly(c)'
    BY <1>t, <1>m, <2>1, <2>3 DEF CallOK, OnceOnly
  <2>5. TrueAnswer(c)'
    BY <1>t, <1>m, <2>1, <2>3 DEF CallOK, TrueAnswer
  <2> QED BY <1>t, <1>m, <2>1, <2>2, <2>3, <2>4, <2>5 DEF CallOK
<1>4. ASSUME Retrying(c), UNCHANGED <<process, story>> PROVE CallTypes' /\ CallOK(c)'
  <2>1. /\ pc[c] = "returned" /\ pc' = [pc EXCEPT ![c] = "send"]
        /\ attempt[c] < MaxAttempts /\ attempt' = [attempt EXCEPT ![c] = @ + 1]
        /\ idempotent(Method(c))
        /\ UNCHANGED <<code, ctx>>
    BY <1>4 DEF Retrying, Retry, Retries, Goto
  <2>2. UNCHANGED <<request, served, effect, work, faults>> /\ InFlight' = InFlight
    BY <1>4 DEF process, story, InFlight
  <2>3. attempt[c] + 1 \in 1..MaxAttempts
    BY <1>m, <1>t, <2>1
  <2>4. CallTypes'
    BY <1>f, <2>1, <2>2, <2>3 DEF CallTypes
  <2>5. pc'[c] = "send" /\ attempt'[c] = attempt[c] + 1
        /\ Method(c)' = Method(c) /\ Refused(request[c])' = Refused(request[c])
    BY <1>f, <2>1, <2>2 DEF Method
  <2>6. Method(c).effect => Method(c).again = "replays"
    BY <1>t, <2>1, ArrivalFacts DEF Method
  <2>7. served[c] < attempt[c] + 1 /\ \A a \in 1..MaxAttempts : a <= attempt[c] => a <= attempt[c] + 1
    BY <1>t DEF CallOK, OnceOnly
  <2>8. OnceOnly(c)'
    BY <1>t, <1>m, <2>1, <2>2, <2>5, <2>6, <2>7 DEF CallOK, OnceOnly
  <2>9. TrueAnswer(c)'
    BY <2>5 DEF TrueAnswer
  <2> QED BY <1>t, <1>m, <2>1, <2>4, <2>5, <2>8, <2>9 DEF CallOK
<1>5. ASSUME Deliver(c) PROVE CallTypes' /\ CallOK(c)'
  <2>1. /\ pc[c] = "send" /\ pc' = [pc EXCEPT ![c] = "waiting"]
        /\ work' = [work EXCEPT ![Unit(c)] = "running"]
        /\ served' = [served EXCEPT ![c] = @ + 1]
        /\ UNCHANGED <<attempt, code, ctx, request, effect, faults>>
    BY <1>5 DEF Deliver, Goto, Begin
  <2>2. served[c] < attempt[c] /\ main.serves = "grpc" /\ effect[c] <= served[c]
    BY <1>t, <2>1 DEF CallOK, OnceOnly
  <2>3. served[c] + 1 \in 0..MaxAttempts
    BY <1>m, <1>t, <1>f, <2>2
  <2>4. CallTypes'
    BY <1>f, <2>1, <2>3 DEF CallTypes
  <2>5. pc'[c] = "waiting" /\ served'[c] = served[c] + 1 /\ work'[Unit(c)'] = "running"
        /\ Method(c)' = Method(c) /\ Refused(request[c])' = Refused(request[c])
    BY <1>f, <1>t, <2>1 DEF Method, Unit
  <2>6. \A a \in 1..MaxAttempts : <<c, a>> \in InFlight' => <<c, a>> \in InFlight \/ a = attempt[c]
    BY <1>t, <2>1 DEF InFlight, Unit
  <2>7. effect[c] > 0 => Method(c).again = "replays"
    <3>1. effect[c] > 0 => served[c] > 0 /\ Method(c).effect
      BY <1>t DEF CallOK, OnceOnly
    <3>2. effect[c] > 0 => attempt[c] > 1
      BY <3>1, <2>2, <1>t
    <3> QED BY <1>t, <3>1, <3>2 DEF CallOK, OnceOnly
  <2>8. served'[c] > 0 /\ served'[c] <= attempt[c]
    BY <1>t, <2>2, <2>5
  <2>9. OnceOnly(c)'
    BY <1>t, <1>m, <2>1, <2>2, <2>5, <2>6, <2>7, <2>8 DEF CallOK, OnceOnly
  <2>10. TrueAnswer(c)'
    BY <2>5 DEF TrueAnswer
  <2> QED BY <1>m, <2>2, <2>4, <2>9, <2>10 DEF CallOK
<1> QED BY <1>1, <1>2, <1>3, <1>4, <1>5

\* An attempt of c ends without its handler's answer, or the request of c does.
LEMMA CallBreaks ==
  ASSUME ProcessInv, CallInv, NEW c \in Calls, Onwards,
         \/ SendTooLate(c) /\ UNCHANGED <<process, story>>
         \/ Unreachable(c) \/ ConnectionLost(c) \/ DeadlinePasses(c)
         \/ \E why \in {"DeadlineExceeded", "Canceled"} : RequestEnds(c, why)
  PROVE  CallTypes' /\ CallOK(c)'
<1>t. /\ CallOK(c) /\ Unit(c) \in Units
      /\ work \in [Units -> {"idle", "running", "cut", "ended"}]
      /\ served[c] \in Nat /\ attempt[c] \in Nat
  BY CallFacts
<1>f. /\ pc \in [Calls -> {"idle", "send", "waiting", "returned", "answered"}]
      /\ code \in [Calls -> Codes]
      /\ ctx \in [Calls -> {"alive", "DeadlineExceeded", "Canceled"}]
  BY DEF CallInv, CallTypes
<1>1. /\ UNCHANGED <<attempt, request, served, effect>>
      /\ ctx' \in [Calls -> {"alive", "DeadlineExceeded", "Canceled"}]
  <2>1. CASE SendTooLate(c) /\ UNCHANGED <<process, story>>
    BY <2>1, <1>f DEF SendTooLate, Returns, story
  <2>2. CASE Unreachable(c) \/ ConnectionLost(c)
    BY <2>2, <1>f DEF Unreachable, ConnectionLost, Returns, story
  <2>3. CASE DeadlinePasses(c)
    BY <2>3, <1>f DEF DeadlinePasses, ContextEnds, Returns, story
  <2>4. CASE \E why \in {"DeadlineExceeded", "Canceled"} : RequestEnds(c, why)
    BY <2>4, <1>f DEF RequestEnds, ContextEnds, Returns, story
  <2> QED BY <2>1, <2>2, <2>3, <2>4
<1>2. \/ work' = work
      \/ faults' # 0 /\ \E v : work' = [work EXCEPT ![Unit(c)] = v]
  BY FaultCounts DEF Unreachable, ConnectionLost, DeadlinePasses, RequestEnds, process
<1>3. \A a \in 1..MaxAttempts : <<c, a>> \in InFlight' => <<c, a>> \in InFlight
  <2>1. CASE work' = work
    BY <2>1 DEF InFlight
  <2>2. CASE ConnectionLost(c)
    BY <2>2, <1>t DEF ConnectionLost, InFlight
  <2>3. CASE \E why \in {"DeadlineExceeded", "Canceled"} : RequestEnds(c, why)
    <3>1. work' = [work EXCEPT ![Unit(c)] = IF @ = "running" THEN "cut" ELSE @]
      BY <2>3 DEF RequestEnds
    <3> QED BY <3>1, <1>t DEF InFlight
  <2> QED BY <2>1, <2>2, <2>3 DEF Unreachable, DeadlinePasses, process
<1>4. \/ UNCHANGED <<pc, code>> /\ pc[c] # "waiting"
      \/ \E k \in {"Unavailable", "DeadlineExceeded", "Canceled"} :
           /\ pc[c] \in {"send", "waiting"}
           /\ pc' = [pc EXCEPT ![c] = "returned"] /\ code' = [code EXCEPT ![c] = k]
           /\ k = "Unavailable" => pc[c] = "send" \/ faults' # 0
  <2>1. CASE SendTooLate(c)
    <3>1. pc[c] = "send" /\ ctx[c] \in {"DeadlineExceeded", "Canceled"}
      BY <2>1, <1>f DEF SendTooLate
    <3> QED BY <2>1, <3>1 DEF SendTooLate, Returns
  <2>2. CASE Unreachable(c)
    BY <2>2 DEF Unreachable, Returns
  <2>3. CASE ConnectionLost(c)
    BY <2>3, FaultCounts DEF ConnectionLost, Returns
  <2>4. CASE DeadlinePasses(c)
    BY <2>4 DEF DeadlinePasses, ContextEnds, Returns
  <2>5. CASE \E why \in {"DeadlineExceeded", "Canceled"} : RequestEnds(c, why)
    BY <2>5 DEF RequestEnds, ContextEnds, Returns
  <2> QED BY <2>1, <2>2, <2>3, <2>4, <2>5
<1>5. CASE UNCHANGED <<pc, code>> /\ pc[c] # "waiting"
  BY <1>1, <1>3, <1>5, <1>t, CallKept DEF CallInv, CallTypes
<1>6. ASSUME NEW k \in {"Unavailable", "DeadlineExceeded", "Canceled"}, pc[c] \in {"send", "waiting"},
             pc' = [pc EXCEPT ![c] = "returned"], code' = [code EXCEPT ![c] = k],
             k = "Unavailable" => pc[c] = "send" \/ faults' # 0
      PROVE  CallTypes' /\ CallOK(c)'
  <2>1. pc'[c] = "returned" /\ code'[c] = k /\ code'[c] \notin Refusals \cup {"OK"}
    BY <1>6, <1>f DEF Refusals
  <2>2. faults' = 0 /\ code'[c] = "Unavailable" => served[c] < attempt[c]
    BY <1>6, <2>1, <1>t DEF CallOK, OnceOnly
  <2>3. CallTypes'
    BY <1>1, <1>6, <1>f DEF CallInv, CallTypes, Codes
  <2> QED BY <1>1, <1>3, <1>6, <2>1, <2>2, <2>3, CallFails
<1> QED BY <1>4, <1>5, <1>6

\* A step of c changes nothing of another call, and at most one unit of work, of c.
LEMMA StepsAreOwn ==
  ASSUME NEW c \in Calls, CallTypes, ProcessInv,
         \/ \E r \in Arrivals : Arrive(c, r)
         \/ Goes(c) \/ ConnectionLost(c)
         \/ \E why \in {"DeadlineExceeded", "Canceled"} : RequestEnds(c, why)
         \/ \E a \in 1..MaxAttempts :
                HandlerReturns(c, a) \/ HandlerAborts(c, a) \/ HandlerFails(c, a) \/ AnswerLost(c, a)
  PROVE  /\ \A d \in Calls \ {c} :
              /\ pc'[d] = pc[d] /\ attempt'[d] = attempt[d] /\ code'[d] = code[d]
              /\ request'[d] = request[d] /\ served'[d] = served[d] /\ effect'[d] = effect[d]
         /\ work' = work \/ \E a \in 1..MaxAttempts : \E v : work' = [work EXCEPT ![<<c, a>>] = v]
<1> DEFINE Others == \A d \in Calls \ {c} :
              /\ pc'[d] = pc[d] /\ attempt'[d] = attempt[d] /\ code'[d] = code[d]
              /\ request'[d] = request[d] /\ served'[d] = served[d] /\ effect'[d] = effect[d]
           Work == work' = work \/ \E a \in 1..MaxAttempts : \E v : work' = [work EXCEPT ![<<c, a>>] = v]
<1>f. /\ pc \in [Calls -> {"idle", "send", "waiting", "returned", "answered"}]
      /\ attempt \in [Calls -> 1..MaxAttempts]
      /\ code \in [Calls -> Codes]
      /\ request \in [Calls -> Arrivals]
      /\ served \in [Calls -> 0..MaxAttempts]
      /\ effect \in [Calls -> 0..MaxAttempts]
  BY DEF CallTypes
<1>u. \A v : work' = [work EXCEPT ![Unit(c)] = v] => Work
  BY <1>f DEF Unit
<1>1. ASSUME NEW r \in Arrivals, Arrive(c, r) PROVE Others /\ Work
  BY <1>1, <1>f DEF Arrive, Admit, ShutOut, EdgeRefuses, Goto, process
<1>2. CASE Respond(c) \/ Reporting(c)
  BY <1>2, <1>f DEF Respond, Reporting, Report, Goto, process
<1>3. CASE Internally(c)
  BY <1>3, <1>f DEF Internally, SendTooLate, Retrying, Retry, Returns, Goto, process, story
<1>4. CASE Deliver(c)
  <2>1. Work
    BY <1>4, <1>u DEF Deliver, Begin
  <2>2. Others
    BY <1>4, <1>f DEF Deliver, Goto
  <2> QED BY <2>1, <2>2
<1>5. CASE Unreachable(c) \/ DeadlinePasses(c)
  BY <1>5, <1>f DEF Unreachable, DeadlinePasses, ContextEnds, Returns, process, story
<1>6. CASE ConnectionLost(c)
  <2>1. Work
    BY <1>6, <1>u DEF ConnectionLost
  <2>2. Others
    BY <1>6, <1>f DEF ConnectionLost, Returns, story
  <2> QED BY <2>1, <2>2
<1>7. ASSUME NEW why, RequestEnds(c, why) PROVE Others /\ Work
  <2>1. Work
    BY <1>7, <1>u DEF RequestEnds
  <2>2. Others
    BY <1>7, <1>f DEF RequestEnds, ContextEnds, Returns, story
  <2> QED BY <2>1, <2>2
<1>8. ASSUME NEW a \in 1..MaxAttempts, HandlerReturns(c, a) \/ HandlerAborts(c, a) \/ HandlerFails(c, a) \/ AnswerLost(c, a)
      PROVE  Others /\ Work
  <2>1. PICK o : Handled(c, a, o)
    BY <1>8 DEF HandlerReturns, HandlerAborts, HandlerFails, AnswerLost
  <2>2. UNCHANGED <<pc, attempt, code>> \/ \E k : Returns(c, k)
    BY <1>8 DEF HandlerReturns, HandlerAborts, HandlerFails, AnswerLost, Hears, client
  <2>3. Work
    BY <2>1 DEF Handled
  <2>4. Others
    BY <2>1, <2>2, <1>f DEF Handled, Returns
  <2> QED BY <2>3, <2>4
<1> QED BY <1>1, <1>2, <1>3, <1>4, <1>5, <1>6, <1>7, <1>8 DEF Goes

\* A gRPC server ends or cuts work by itself only because something failed.
LEMMA MainSpares ==
  ASSUME ProcessInv, Onwards, Runs \/ Fails \/ OwnWork \/ Ends, main.serves = "grpc"
  PROVE  /\ InFlight' \subseteq InFlight
         /\ (faults' = 0 => work' = work \/ InFlight = {})
         /\ (Ends => faults' # 0 \/ InFlight = {})
<1>t. work \in [Units -> {"idle", "running", "cut", "ended"}] /\ (faults' = 0 => faults = 0)
  BY DEF ProcessInv, ProcessTypeOK, Onwards
<1>1. CASE \/ \E names : Opens(names)
           \/ Serve \/ Drained \/ AllLoopsEnded \/ Restart \/ Signal \/ StartDrain \/ Close \/ ServeFails
  <2>1. work' = work
    BY <1>1 DEF Opens, Serve, Drained, AllLoopsEnded, Restart, Signal, StartDrain, Close, ServeFails
  <2>2. ~(Exit \/ Kill \/ DrainTimeout)
    BY <1>1, <1>t DEF Opens, Serve, Drained, AllLoopsEnded, Restart, Signal, StartDrain, Close, ServeFails,
                      Exit, Kill, DrainTimeout, Gone
  <2> QED BY <2>1, <2>2 DEF InFlight, Ends
<1>2. CASE OpenFails \/ Exit \/ Kill
  <2>1. InFlight' = {}
    BY <1>2 DEF OpenFails, Exit, Kill, Gone, InFlight
  <2>2. faults' # 0 \/ InFlight = {}
    <3>1. CASE OpenFails
      BY <3>1 DEF OpenFails, ProcessInv, Stages
    <3>2. CASE Exit
      BY <3>2, <1>t DEF Exit, ProcessInv, Stages
    <3>3. CASE Kill
      BY <3>3, FaultCounts DEF Kill
    <3> QED BY <1>2, <3>1, <3>2, <3>3
  <2> QED BY <2>1, <2>2
<1>3. CASE DrainTimeout
  <2>1. faults' # 0
    BY <1>3, FaultCounts DEF DrainTimeout
  <2>2. InFlight' \subseteq InFlight
    BY <1>3, <1>t DEF DrainTimeout, InFlight
  <2> QED BY <2>1, <2>2
<1> QED BY <1>1, <1>2, <1>3
        DEF Runs, Fails, OwnWork, Ends, LoopFails, Open, MustStart, MustNew, MustDial, KafkaClients, Listen, NewServer

\* Every step keeps every call in order.
LEMMA NextCalls ==
  ASSUME ProcessInv, CallInv, Onwards, [Next]_vars
  PROVE  CallInv'
<1>t. CallTypes /\ \A d \in Calls : CallOK(d)
  BY DEF CallInv
<1>q. ASSUME UNCHANGED <<pc, attempt, code, ctx, request, served, effect>>,
             main.serves = "grpc" => InFlight' \subseteq InFlight /\ (faults' = 0 => work' = work \/ InFlight = {})
      PROVE  CallInv'
  <2>1. CallTypes'
    BY <1>q, <1>t DEF CallTypes
  <2>2. ASSUME NEW d \in Calls PROVE CallOK(d)'
    <3>1. CallOK(d) /\ Unit(d) \in Units
      BY CallFacts
    <3>2. faults' = 0 /\ pc[d] = "waiting" => work'[Unit(d)] = work[Unit(d)]
      <4> SUFFICES ASSUME faults' = 0, pc[d] = "waiting" PROVE work' = work
        OBVIOUS
      <4>1. main.serves = "grpc" /\ Unit(d) \in InFlight
        BY <3>1 DEF CallOK, TrueAnswer, Onwards, InFlight
      <4> QED BY <1>q, <4>1
    <3> QED BY <1>q, <3>1, <3>2, CallKept
  <2> QED BY <2>1, <2>2 DEF CallInv
<1>1. ASSUME NEW c \in Calls,
             \/ \E r \in Arrivals : Arrive(c, r)
             \/ Goes(c) \/ ConnectionLost(c)
             \/ \E why \in {"DeadlineExceeded", "Canceled"} : RequestEnds(c, why)
             \/ \E a \in 1..MaxAttempts :
                    HandlerReturns(c, a) \/ HandlerAborts(c, a) \/ HandlerFails(c, a) \/ AnswerLost(c, a)
      PROVE  CallInv'
  <2>1. \A d \in Calls \ {c} : CallOK(d)'
    <3>1. /\ \A d \in Calls \ {c} :
              /\ pc'[d] = pc[d] /\ attempt'[d] = attempt[d] /\ code'[d] = code[d]
              /\ request'[d] = request[d] /\ served'[d] = served[d] /\ effect'[d] = effect[d]
          /\ work' = work \/ \E a \in 1..MaxAttempts : \E v : work' = [work EXCEPT ![<<c, a>>] = v]
      BY <1>1, <1>t, StepsAreOwn
    <3> QED BY <3>1, OthersKept
  <2>2. CASE \E a \in 1..MaxAttempts :
                 HandlerReturns(c, a) \/ HandlerAborts(c, a) \/ HandlerFails(c, a) \/ AnswerLost(c, a)
    <3>1. PICK a \in 1..MaxAttempts :
              HandlerReturns(c, a) \/ HandlerAborts(c, a) \/ HandlerFails(c, a) \/ AnswerLost(c, a)
      BY <2>2
    <3>2. CallOK(c)'
      BY <3>1, HandledKeeps
    <3>3. UNCHANGED <<attempt, ctx, request, served>>
      BY <3>1 DEF HandlerReturns, HandlerAborts, HandlerFails, AnswerLost, Handled, Hears, Returns, client
    <3>4. /\ pc' \in [Calls -> {"idle", "send", "waiting", "returned", "answered"}]
          /\ code' \in [Calls -> Codes]
      <4>1. \A o \in Answers(c) \cup Troubles(c) : o.code \in Codes
        BY RefusalFacts DEF Answers, Troubles, Outcome, Refusals, Codes
      <4>2. \/ UNCHANGED <<pc, code>>
            \/ \E o \in Answers(c) \cup Troubles(c) : Returns(c, o.code)
        BY <3>1 DEF HandlerReturns, HandlerAborts, HandlerFails, AnswerLost, Hears, client
      <4> QED BY <4>1, <4>2, <1>t DEF CallTypes, Returns
    <3>5. effect' \in [Calls -> 0..MaxAttempts]
      <4>1. PICK o : effect' = [effect EXCEPT ![c] = IF o.effect THEN @ + 1 ELSE @]
        BY <3>1 DEF HandlerReturns, HandlerAborts, HandlerFails, AnswerLost, Handled
      <4>2. effect'[c] <= 1 /\ MaxAttempts \in Nat \ {0} /\ effect[c] \in Nat
        BY <3>2, CallFacts, ClientAssumption DEF CallOK, OnceOnly, ClientAssumption
      <4>3. effect'[c] \in {effect[c], effect[c] + 1}
        BY <4>1, <1>t DEF CallTypes
      <4>4. effect'[c] \in 0..MaxAttempts
        BY <4>2, <4>3
      <4>5. effect' = [effect EXCEPT ![c] = effect'[c]]
        BY <4>1, <1>t DEF CallTypes
      <4> QED BY <4>4, <4>5, <1>t DEF CallTypes
    <3>6. CallTypes'
      BY <1>t, <3>3, <3>4, <3>5 DEF CallTypes
    <3> QED BY <2>1, <3>2, <3>6 DEF CallInv
  <2>3. CASE ~(\E a \in 1..MaxAttempts :
                   HandlerReturns(c, a) \/ HandlerAborts(c, a) \/ HandlerFails(c, a) \/ AnswerLost(c, a))
    <3>1. \/ \/ \E r \in Arrivals : Arrive(c, r)
             \/ Respond(c) \/ Reporting(c) \/ Deliver(c)
             \/ Retrying(c) /\ UNCHANGED <<process, story>>
          \/ \/ SendTooLate(c) /\ UNCHANGED <<process, story>>
             \/ Unreachable(c) \/ ConnectionLost(c) \/ DeadlinePasses(c)
             \/ \E why \in {"DeadlineExceeded", "Canceled"} : RequestEnds(c, why)
      BY <1>1, <2>3 DEF Goes, Internally
    <3>2. CallTypes' /\ CallOK(c)'
      BY <3>1, CallMoves, CallBreaks
    <3> QED BY <2>1, <3>2 DEF CallInv
  <2> QED BY <2>2, <2>3
<1>2. ASSUME OtherCalls PROVE CallInv'
  <2>1. UNCHANGED <<pc, attempt, code, ctx, request, served, effect, work>>
    BY <1>2 DEF OtherCalls, OtherCall, OtherBegins, OtherShutOut, OtherEnds, process, story, client
  <2> QED BY <2>1, <1>q DEF InFlight
<1>3. ASSUME Timers PROVE CallInv'
  <2>1. UNCHANGED <<pc, attempt, code, ctx, request, served, effect, work>>
    BY <1>3 DEF Timers, WindowEnds, RestEnds, process
  <2> QED BY <2>1, <1>q DEF InFlight
<1>4. ASSUME Runs \/ Fails \/ OwnWork, UNCHANGED <<client, story>> PROVE CallInv'
  BY <1>4, <1>q, MainSpares DEF client, story
<1>5. ASSUME Ends, CallsCutOff PROVE CallInv'
  <2>1. /\ UNCHANGED <<attempt, ctx, request, served, effect>>
        /\ pc' = [c \in Calls |-> IF pc[c] = "waiting" THEN "returned" ELSE pc[c]]
        /\ code' = [c \in Calls |-> IF pc[c] = "waiting" THEN "Unavailable" ELSE code[c]]
    BY <1>5 DEF CallsCutOff, story
  <2>2. CallTypes'
    BY <1>t, <2>1 DEF CallTypes, Codes
  <2>3. main.serves = "grpc" =>
          InFlight' \subseteq InFlight /\ (faults' = 0 => work' = work \/ InFlight = {}) /\ (faults' # 0 \/ InFlight = {})
    BY <1>5, MainSpares
  <2>4. ASSUME NEW d \in Calls PROVE CallOK(d)'
    <3>1. CallOK(d) /\ Unit(d) \in Units
      BY CallFacts
    <3>2. CASE pc[d] = "waiting"
      <4>1. main.serves = "grpc" /\ (faults' = 0 => Unit(d) \in InFlight)
        BY <3>1, <3>2 DEF CallOK, TrueAnswer, Onwards, InFlight
      <4>2. faults' # 0
        BY <4>1, <2>3
      <4>3. pc'[d] = "returned" /\ code'[d] = "Unavailable" /\ "Unavailable" \notin Refusals \cup {"OK"}
        BY <2>1, <3>2 DEF Refusals
      <4> QED BY <2>1, <2>3, <3>2, <4>2, <4>3, CallFails
    <3>3. CASE pc[d] # "waiting"
      BY <2>1, <2>3, <3>1, <3>3, CallKept
    <3> QED BY <3>2, <3>3
  <2> QED BY <2>2, <2>4 DEF CallInv
<1>6. ASSUME UNCHANGED vars PROVE CallInv'
  BY <1>6, <1>q DEF vars, process, client, story, InFlight
<1> QED BY <1>1, <1>2, <1>3, <1>4, <1>5, <1>6 DEF Next

-----------------------------------------------------------------------------
(* The theorems.                                                           *)

IndInv == ProcessInv /\ BreakerInv /\ CallInv

\* Spec begins in the invariant.
LEMMA InitInv == Init => IndInv
<1> SUFFICES ASSUME Init PROVE IndInv
  OBVIOUS
<1>1. ProcessInv
  <2>1. Len(main.opens) \in Nat /\ Len(main.closes) \in Nat
    BY MainLists, ProcessAssumption DEF Init, ProcessInit, ProcessAssumption
  <2>n. \A n \in Nat : 0 \in 0..n
    OBVIOUS
  <2>2. ProcessTypeOK
    <3>1. opened \in 0..Len(main.opens) /\ closed \in 0..Len(main.closes)
      BY <2>1, <2>n DEF Init, ProcessInit
    <3>2. stops \in 0..MaxStops /\ faults \in 0..MaxFaults
      BY <2>n, ProcessAssumption DEF Init, ProcessInit, ProcessAssumption
    <3>3. main \in Mains /\ phase \in Phases /\ told \in BOOLEAN /\ work \in [Units -> {"idle", "running", "cut", "ended"}]
      BY DEF Init, ProcessInit, Phases
    <3> QED BY <3>1, <3>2, <3>3 DEF ProcessTypeOK
  <2>3. InFlight = {} /\ \A u \in Units : work[u] # "cut"
    BY DEF Init, ProcessInit, InFlight
  <2> QED BY <2>2, <2>3 DEF Init, ProcessInit, ProcessInv, Stages
<1>2. BreakerInv
  BY FreshBreaker, ClientAssumption DEF Init, ClientInit, BreakerInv, ClientAssumption
<1>3. CallTypes
  <2>1. Nothing \in Arrivals
    BY ArrivalsAssumption DEF Nothing, ArrivalsAssumption
  <2> QED BY <2>1, ClientAssumption DEF Init, ClientInit, CallTypes, Codes, ClientAssumption
<1>4. ASSUME NEW c \in Calls PROVE CallOK(c)
  <2>1. pc[c] = "idle" /\ attempt[c] = 1 /\ served[c] = 0 /\ effect[c] = 0 /\ InFlight = {}
    BY DEF Init, ClientInit, ProcessInit, InFlight
  <2> QED BY <2>1 DEF CallOK, OnceOnly, TrueAnswer
<1> QED BY <1>1, <1>2, <1>3, <1>4 DEF IndInv, CallInv

\* Calls, breaker and process stay in order together, whatever fails and however often.
THEOREM PathInvariant == Spec => []IndInv
<1>1. IndInv /\ [Next]_vars => IndInv'
  <2> SUFFICES ASSUME IndInv, [Next]_vars PROVE IndInv'
    OBVIOUS
  <2>1. ProcessInv' /\ Onwards
    BY NextProcess DEF IndInv, CallInv, CallTypes
  <2>2. BreakerInv'
    BY NextBreaker DEF IndInv
  <2>3. CallInv'
    BY <2>1, NextCalls DEF IndInv
  <2> QED BY <2>1, <2>2, <2>3 DEF IndInv
<1> QED BY <1>1, InitInv, PTL DEF Spec

\* No call takes effect twice and every answer is true, for any number of calls,
\* attempts and failures.
THEOREM CallsStaySafe == Spec => []CallsAreSafe
<1>1. IndInv => CallsAreSafe
  <2> SUFFICES ASSUME IndInv PROVE CallsAreSafe
    OBVIOUS
  <2>1. TypeOK
    <3>1. ClientTypeOK /\ window \in [state : {"closed", "half-open"}, calls : SUBSET Calls, begun : 0..MaxWindow,
                                     failed : 0..MaxWindow, late : 0..MaxWindow, fine : 0..MaxWindow]
      BY BreakerTyped DEF IndInv, BreakerInv, CallInv, CallTypes, ClientTypeOK
    <3> QED BY <3>1 DEF IndInv, ProcessInv, CallInv, CallTypes, TypeOK
  <2>2. ASSUME NEW c \in Calls
        PROVE  effect[c] <= 1 /\ (served[c] > 1 /\ Method(c).effect => Method(c).again = "replays")
    <3>1. CallOK(c) /\ served[c] \in Nat /\ attempt[c] \in Nat
      BY CallFacts DEF IndInv
    <3> QED BY <3>1 DEF CallOK, OnceOnly
  <2>3. ASSUME NEW c \in Calls, pc[c] = "answered"
        PROVE  /\ Status(c) = 200 /\ Method(c).effect => effect[c] = 1
               /\ Status(c) \in 400..498 => effect[c] = 0 \/ RecordsFirst(c)
    <3>1. TrueAnswer(c) /\ code[c] \in Codes /\ request[c] \in Arrivals
      BY DEF IndInv, CallInv, CallTypes, CallOK
    <3>2. request[c].route.optional => ~Method(c).effect
      BY <3>1, ArrivalFacts DEF Method
    <3>3. request[c].route.optional => Status(c) = 200
      BY DEF Status
    <3>4. ~request[c].route.optional => Status(c) = HTTPStatus(code[c])
      BY DEF Status
    <3>5. 200 \notin 400..498
      OBVIOUS
    <3>6. /\ HTTPStatus(code[c]) = 200 => code[c] = "OK"
          /\ HTTPStatus(code[c]) \in 400..498 => code[c] \in Refusals
      BY <3>1, StatusFacts
    <3>7. Status(c) = 200 /\ Method(c).effect => code[c] = "OK"
      BY <3>2, <3>4, <3>6
    <3>8. Status(c) \in 400..498 => code[c] \in Refusals
      BY <3>3, <3>4, <3>5, <3>6
    <3> QED BY <2>3, <3>1, <3>7, <3>8 DEF TrueAnswer
  <2> QED BY <2>1, <2>2, <2>3 DEF CallsAreSafe, RepeatsAreSafe, AnswersAreTrue
<1> QED BY <1>1, PathInvariant, PTL

\* The breaker's verdicts are those of the calls of one window or of one trial, each
\* counted once, for any settings of the breaker and any number of other calls.
THEOREM VerdictsStayDeserved == Spec => []VerdictsAreDeserved
<1>1. IndInv => VerdictsAreDeserved
  <2> SUFFICES ASSUME BreakerOK(brk, counts, others, window) PROVE VerdictsAreDeserved
    BY DEF IndInv, BreakerInv
  <2> QED BY DEF BreakerOK, Verdict, Windows, VerdictsAreDeserved
<1> QED BY <1>1, PathInvariant, PTL

\* Stopping any of the processes loses no call and closes nothing in use.
THEOREM StopsStayClean == Spec => []StopsAreClean
<1>1. IndInv => StopsAreClean
  <2> SUFFICES ASSUME IndInv PROVE StopsAreClean
    OBVIOUS
  <2>1. ResourcesOutliveWork
    BY ResourcesOutlive DEF IndInv
  <2>2. ASSUME faults = 0, NEW c \in Calls, pc[c] = "returned", code[c] = "Unavailable"
        PROVE  attempt[c] > served[c]
    <3>1. CallOK(c) /\ served[c] \in Nat /\ attempt[c] \in Nat
      BY CallFacts DEF IndInv
    <3> QED BY <2>2, <3>1 DEF CallOK, TrueAnswer
  <2> QED BY <2>1, <2>2 DEF StopsAreClean, RolloutLosesNothing
<1> QED BY <1>1, PathInvariant, PTL
=============================================================================
