---------------------------- MODULE RequestPath ----------------------------
(***************************************************************************)
(* A request from the edge to a handler and back: bff-web's routes (Api)   *)
(* call a service through its client (GrpcClient), and the service is a    *)
(* process that is started, rolled out and killed (Process).               *)
(*                                                                         *)
(* The process looked at is one of Mains.  When it is a gRPC server its    *)
(* units of work are the attempts of the calls; any other process begins   *)
(* work of its own.  What a handler does is abstracted to its answer and   *)
(* to whether its effect was committed; the other modules say how.         *)
(***************************************************************************)
EXTENDS Process, GrpcClient, Api

CONSTANT Arrivals   \* the requests that come in

ASSUME ArrivalsAssumption ==
  /\ Arrivals \subseteq Requests /\ Arrivals # {}
  /\ Units = Calls \X (1..MaxAttempts)

VARIABLES request,  \* what each call is about
          served,   \* how many of its attempts reached a handler
          effect,   \* how often it took effect
          window    \* the calls of one generation of the breaker, and how they ended

process == <<main, phase, opened, closed, told, work, stops, faults>>
story   == <<request, served, effect, window>>
vars    == <<process, client, story>>

Nothing == CHOOSE r \in Arrivals : TRUE

\* An account of the calls while the breaker is closed or half-open, kept apart from
\* its own counts: those under way, how many began and were not cancelled, how many
\* failed or were late, and of a trial how many were answered.
Window(s) == [state |-> s, calls |-> {}, begun |-> 0, failed |-> 0, late |-> 0, fine |-> 0]

TypeOK ==
  /\ ProcessTypeOK
  /\ ClientTypeOK
  /\ request \in [Calls -> Arrivals]
  /\ served \in [Calls -> 0..MaxAttempts]
  /\ effect \in [Calls -> 0..MaxAttempts]
  /\ window \in [state : {"closed", "half-open"}, calls : SUBSET Calls, begun : 0..MaxWindow,
                failed : 0..MaxWindow, late : 0..MaxWindow, fine : 0..MaxWindow]

Init ==
  /\ ProcessInit
  /\ ClientInit
  /\ request = [c \in Calls |-> Nothing]
  /\ served = [c \in Calls |-> 0]
  /\ effect = [c \in Calls |-> 0]
  /\ window = Window("closed")

Method(c) == request[c].route.method
Unit(c)   == <<c, attempt[c]>>
Same      == UNCHANGED <<main, phase, opened, closed, told, stops>>
-----------------------------------------------------------------------------
(* The story of the breaker's calls.                                       *)

\* The account of what the breaker is in now: a new one when that has changed.
Present == IF window.state = brk.state THEN window ELSE Window(brk.state)

\* One more call begins, one of these or another.
Joins(C) == window' = [Present EXCEPT !.calls = @ \cup C, !.begun = @ + 1]

\* How a call of w ended.  A deadline that passed does not say whose fault it was;
\* a cancelled call is as if it had never begun.
Noted(w, code_) ==
  CASE code_ = "Canceled"                      -> [w EXCEPT !.begun = @ - 1]
    [] code_ = "DeadlineExceeded"              -> [w EXCEPT !.late = @ + 1]
    [] code_ \in {"Unavailable", "Internal"}   -> [w EXCEPT !.failed = @ + 1]
    [] OTHER                                   -> [w EXCEPT !.fine = IF w.state = "closed" THEN 0 ELSE @ + 1]

\* A call ends, one of these or another; an account that is over gains nothing.
Leaves(C, code_) ==
  window' = IF window.state = brk.state THEN Noted([window EXCEPT !.calls = @ \ C], code_) ELSE window
-----------------------------------------------------------------------------
(* The edge.                                                               *)

EdgeRefuses(c, code_) ==
  /\ Goto(c, "idle", "answered")
  /\ code' = [code EXCEPT ![c] = code_]
  /\ UNCHANGED <<breaker, attempt, ctx>>

\* A request arrives; the edge refuses it or makes its call.
Arrive(c, r) ==
  /\ main.serves = "grpc" /\ r.route.method.service = main.name
  /\ request' = [request EXCEPT ![c] = r]
  /\ \/ EdgeCode(r) = "OK" /\ Admit(c) /\ Joins({c})
     \/ EdgeCode(r) = "OK" /\ ShutOut(c) /\ UNCHANGED window
     \/ EdgeCode(r) # "OK" /\ EdgeRefuses(c, EdgeCode(r)) /\ UNCHANGED window
  /\ UNCHANGED <<process, served, effect>>

\* WriteJSON or WriteError; a page goes without what was optional.
Status(c) == IF request[c].route.optional THEN 200 ELSE HTTPStatus(code[c])

\* The answer is out and no handler is left of the call: c may be another request.
Respond(c) ==
  /\ Goto(c, "answered", "idle")
  /\ \A u \in InFlight : u[1] # c
  /\ request' = [request EXCEPT ![c] = Nothing]
  /\ code' = [code EXCEPT ![c] = "OK"]
  /\ attempt' = [attempt EXCEPT ![c] = 1]
  /\ ctx' = [ctx EXCEPT ![c] = "alive"]
  /\ served' = [served EXCEPT ![c] = 0]
  /\ effect' = [effect EXCEPT ![c] = 0]
  /\ UNCHANGED <<process, breaker, window>>
-----------------------------------------------------------------------------
(* The wire.                                                               *)

\* The attempt reaches a handler.
Deliver(c) ==
  /\ Goto(c, "send", "waiting")
  /\ ctx[c] = "alive"
  /\ Begin(Unit(c))
  /\ served' = [served EXCEPT ![c] = @ + 1]
  /\ UNCHANGED <<breaker, attempt, code, ctx, request, effect, window>>

\* Nobody is listening, or the network fails.
Unreachable(c) ==
  /\ pc[c] = "send"
  /\ ctx[c] = "alive"
  /\ IF phase = "serving" THEN Fault ELSE UNCHANGED faults
  /\ Returns(c, "Unavailable")
  /\ UNCHANGED <<main, phase, opened, closed, told, work, stops, ctx, story>>

\* The connection breaks under the call: its handler is cancelled and may be at
\* work still when the next attempt comes in on another one.
ConnectionLost(c) ==
  /\ Unit(c) \in InFlight
  /\ pc[c] = "waiting"
  /\ Fault
  /\ Returns(c, "Unavailable")
  /\ work' = [work EXCEPT ![Unit(c)] = "cut"]
  /\ Same
  /\ UNCHANGED <<ctx, story>>

\* A call that waits for an answer that will not come has only its deadline.
DeadlinePasses(c) ==
  /\ pc[c] = "waiting"
  /\ Unit(c) \notin InFlight
  /\ deadlineUnary(request[c].route)
  /\ ContextEnds(c, "DeadlineExceeded")
  /\ UNCHANGED <<process, story>>

\* The deadline of the request passes or its client goes away, which cancels
\* the handler's context too.
RequestEnds(c, why) ==
  /\ Fault
  /\ ContextEnds(c, why)
  /\ work' = [work EXCEPT ![Unit(c)] = IF @ = "running" THEN "cut" ELSE @]
  /\ Same
  /\ UNCHANGED story
-----------------------------------------------------------------------------
(* The service: recovery, identity, validation and the handler.            *)

\* The identity that propagate put into the metadata and MetadataIdentity took out.
Identity(r) == r.user

\* The interceptor finds the form wrong, the handler nobody the call could be
\* about, the service somebody else's order or payment.
Malformed(r) == r.form = "odd"
Anonymous(r) == r.route.method.for # "anyone" /\ Identity(r) = "none"
NotTheirs(r) == r.route.method.for = "owner" /\ Identity(r) # Owner

\* What the service refuses before it does anything; what is not theirs is not found.
Refused(r) ==
  CASE Malformed(r) -> "InvalidInput"
    [] ~Malformed(r) /\ Anonymous(r) -> "Unauthenticated"
    [] ~Malformed(r) /\ ~Anonymous(r) /\ NotTheirs(r) -> "NotFound"
    [] OTHER -> "none"

Outcome(code_, takesEffect) == [code |-> code_, effect |-> takesEffect]

\* Whether the handler has something to commit: of a call that took effect, only a
\* method that repeats itself has.
TakesEffect(c) ==
  /\ Refused(request[c]) = "none"
  /\ Method(c).effect
  /\ effect[c] > 0 => Method(c).again = "repeats"

\* What a healthy service answers: the error's kind as a code (ToGRPC), or OK.
Answers(c) ==
  IF Refused(request[c]) # "none" THEN {Outcome(codeForKind[Refused(request[c])], FALSE)}
  ELSE IF effect[c] > 0 /\ Method(c).again = "refuses" THEN {Outcome("FailedPrecondition", FALSE)}
  ELSE {Outcome("OK", TakesEffect(c))}

\* A method that commits a record first and then asks the provider, whose answer may
\* contradict what its webhook has said since: settle refuses that.
RecordsFirst(c) == Method(c) = InitiatePayment

\* What it may answer when something fails in it or under it: a panic, the
\* database, a service it calls, its deadline.  The effect may be committed all the same.
Troubles(c) ==
  {Outcome(k, e) : k \in {"Internal", "Unavailable", "DeadlineExceeded"}, e \in {FALSE, TakesEffect(c)}}
    \cup {o \in {Outcome("FailedPrecondition", TRUE)} : RecordsFirst(c) /\ TakesEffect(c)}

\* The handler of c's attempt a is done, with this outcome.
Handled(c, a, o) ==
  /\ <<c, a>> \in InFlight
  /\ effect' = [effect EXCEPT ![c] = IF o.effect THEN @ + 1 ELSE @]
  /\ work' = [work EXCEPT ![<<c, a>>] = "idle"]
  /\ UNCHANGED <<request, served, window>>

Hears(c, a, code_) ==
  IF pc[c] = "waiting" /\ attempt[c] = a /\ work[<<c, a>>] = "running"
  THEN Returns(c, code_)
  ELSE UNCHANGED <<breaker, pc, attempt, code>>

\* The handler answers; nobody listens to the handler of a call that was cut.
HandlerReturns(c, a) ==
  /\ main.serves = "grpc"
  /\ main.uses \subseteq Held
  /\ \E o \in Answers(c) : Handled(c, a, o) /\ Hears(c, a, o.code)
  /\ Same
  /\ UNCHANGED <<ctx, faults>>

\* The handler of a call that was cut gives up without effect.
HandlerAborts(c, a) ==
  /\ main.serves = "grpc"
  /\ work[<<c, a>>] = "cut"
  /\ Handled(c, a, Outcome("Canceled", FALSE))
  /\ Same
  /\ UNCHANGED <<client, faults>>

\* The handler answers and nobody ever hears of it.
AnswerLost(c, a) ==
  /\ main.serves = "grpc"
  /\ main.uses \subseteq Held
  /\ Fault
  /\ \E o \in Answers(c) : Handled(c, a, o)
  /\ Same
  /\ UNCHANGED client

\* The handler fails; without a pool it can only fail.
HandlerFails(c, a) ==
  /\ main.serves = "grpc"
  /\ IF main.uses \subseteq Held THEN Fault ELSE UNCHANGED faults
  /\ \E o \in Troubles(c) : /\ o.effect => main.uses \subseteq Held
                            /\ Handled(c, a, o) /\ Hears(c, a, o.code)
  /\ Same
  /\ UNCHANGED ctx
-----------------------------------------------------------------------------
(* The client's steps that nobody else sees.                               *)

Retrying(c) == Retry(c, idempotent(Method(c)))

Internally(c) ==
  /\ SendTooLate(c) \/ Retrying(c)
  /\ UNCHANGED <<process, story>>

\* The outcome of a call of an earlier generation is not noted.
Reporting(c) ==
  /\ Report(c)
  /\ IF c \in window.calls THEN Leaves({c}, code[c]) ELSE UNCHANGED window
  /\ UNCHANGED <<process, request, served, effect>>

\* The other calls begin, succeed, are refused, late or cancelled, or meet the same troubles.
OtherCall(code_) ==
  /\ OtherEnds(code_)
  /\ code_ \in {"OK", "NotFound"} => phase \in {"serving", "draining"}
  /\ Leaves({}, code_)
  /\ IF code_ = "DeadlineExceeded" \/ (code_ = "Unavailable" /\ phase = "serving")
     THEN Fault ELSE UNCHANGED faults
  /\ Same
  /\ UNCHANGED <<work, request, served, effect>>

OtherCalls ==
  /\ main.serves = "grpc"
  /\ \/ OtherBegins /\ Joins({}) /\ UNCHANGED <<process, request, served, effect>>
     \/ OtherShutOut /\ UNCHANGED <<process, story>>
     \/ \E code_ \in {"OK", "NotFound", "Canceled", "DeadlineExceeded", "Unavailable"} : OtherCall(code_)

\* A call takes its next step.
Goes(c) ==
  Internally(c) \/ Reporting(c) \/ Respond(c) \/ Deliver(c) \/ Unreachable(c) \/ DeadlinePasses(c)

Timers ==
  /\ \/ WindowEnds /\ window' = Window("closed")
     \/ RestEnds /\ window' = Window("half-open")
  /\ UNCHANGED <<process, request, served, effect>>
-----------------------------------------------------------------------------
(* The process: what cuts the connections ends the calls that wait.        *)

CallsCutOff ==
  /\ pc' = [c \in Calls |-> IF pc[c] = "waiting" THEN "returned" ELSE pc[c]]
  /\ code' = [c \in Calls |-> IF pc[c] = "waiting" THEN "Unavailable" ELSE code[c]]
  /\ UNCHANGED <<breaker, attempt, ctx, story>>

Runs  == Open \/ Serve \/ StartDrain \/ Drained \/ AllLoopsEnded \/ Close \/ Restart
Fails == OpenFails \/ ServeFails \/ Signal \/ \E u \in Units : LoopFails(u)
Ends  == Exit \/ Kill \/ DrainTimeout

\* Work of a process that serves no gRPC.
OwnWork ==
  /\ main.serves # "grpc"
  /\ \E u \in Units : Begin(u) \/ Finish(u)
-----------------------------------------------------------------------------
Next ==
  \/ \E c \in Calls :
       \/ \E r \in Arrivals : Arrive(c, r)
       \/ Goes(c)
       \/ ConnectionLost(c)
       \/ \E why \in {"DeadlineExceeded", "Canceled"} : RequestEnds(c, why)
       \/ \E a \in 1..MaxAttempts : HandlerReturns(c, a) \/ HandlerAborts(c, a) \/ HandlerFails(c, a) \/ AnswerLost(c, a)
  \/ OtherCalls
  \/ Timers
  \/ (Runs \/ Fails \/ OwnWork) /\ UNCHANGED <<client, story>>
  \/ Ends /\ CallsCutOff

\* Processes and clients keep running, handlers and turns of a loop end, and
\* requests keep coming, also when the breaker lets one through, and are not all
\* cancelled.
Fairness ==
  /\ WF_vars(((Runs \/ (told /\ OpenFails)) /\ UNCHANGED <<client, story>>) \/ (Exit /\ CallsCutOff))
  /\ WF_vars(main.serves # "grpc" /\ (\E u \in Units : Finish(u)) /\ UNCHANGED <<client, story>>)
  /\ WF_vars(Timers)
  /\ SF_vars(OtherCall("OK"))
  /\ \A c \in Calls :
       /\ WF_vars(Goes(c))
       /\ WF_vars(\E a \in 1..MaxAttempts : HandlerReturns(c, a) \/ HandlerAborts(c, a) \/ HandlerFails(c, a))
       /\ SF_vars(\E r \in Arrivals : Arrive(c, r) /\ pc'[c] = "send")

Spec     == Init /\ [][Next]_vars
FairSpec == Spec /\ Fairness
-----------------------------------------------------------------------------
(* Properties.                                                             *)

\* However calls are repeated, cut and lost, none takes effect twice, and a
\* handler that would not recognise a repeat never sees one.
RepeatsAreSafe ==
  \A c \in Calls :
    /\ effect[c] <= 1
    /\ served[c] > 1 /\ Method(c).effect => Method(c).again = "replays"

\* What a client is told is true: a success has had its effect, and a refusal
\* (4xx) has had none; only 5xx and 499 leave it open.  The one refusal that does,
\* too, is that of a payment whose provider contradicts itself: the attempt is there.
AnswersAreTrue ==
  \A c \in Calls : pc[c] = "answered" =>
    /\ Status(c) = 200 /\ Method(c).effect => effect[c] = 1
    /\ Status(c) \in 400..498 => effect[c] = 0 \/ RecordsFirst(c)

\* A call happens at most once and its client is told the truth about it.
CallsAreSafe == TypeOK /\ RepeatsAreSafe /\ AnswersAreTrue

\* The breaker shuts a target out only for what the calls of one window, or of one
\* trial, came to: at least MinRequests of them and half of those failed or late, or
\* one of a trial, always; it lets it in again only when a whole trial was answered.
\* Sold-out products, strangers, cancelled calls, earlier windows and results that come
\* in after their window do not add up, and a call counts once however often it was
\* retried.  A caller's own deadline does count (late), against the comment at
\* breaker.go:36.
VerdictsAreDeserved ==
  LET bad == window.failed + window.late
  IN  /\ brk.state = "open" =>
           \/ window.state = "closed" /\ window.begun >= MinRequests /\ 2 * bad >= window.begun
           \/ window.state = "half-open" /\ bad >= 1
      /\ brk.state # "open" /\ window.state = "half-open" => bad = 0
      /\ brk.state = "closed" /\ window.state = "half-open" => window.fine >= HalfOpenRequests

\* A rollout loses nothing: while nothing fails, a call that reached a handler
\* gets that handler's answer, whenever the process was told to stop.
RolloutLosesNothing ==
  faults = 0 => \A c \in Calls :
    pc[c] = "returned" /\ served[c] > 0 => code[c] # "Unavailable" \/ attempt[c] > served[c]

\* Nothing is closed under work in flight, or not there yet, telemetry included,
\* unless the listener failed or an HTTP server was cut off.
ResourcesOutliveWork ==
  InFlight # {} => InUse \cup {"telemetry"} \subseteq Held \/ phase = "abandoning"

\* Stopping a process harms no call: each is answered, with what it uses open.
StopsAreClean == RolloutLosesNothing /\ ResourcesOutliveWork

\* Nothing hangs, although services are killed, answers are lost and the breaker
\* opens: every request is answered, a breaker that opened closes again once the
\* faults are over, and a process that was told to stop does, whatever it was doing.
NothingHangs ==
  [] /\ \A c \in Calls : pc[c] = "send" => <>(pc[c] = "answered")
     /\ brk.state = "open" => <>(brk.state = "closed")
     /\ told => <>(phase = "down")
=============================================================================
