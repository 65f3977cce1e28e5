----------------------------- MODULE GrpcClient -----------------------------
(***************************************************************************)
(* pkg/grpcx/client: the interceptors between a caller and the wire, in    *)
(* their order: a deadline if the context has none, the caller's identity, *)
(* the circuit breaker of the target, and retries of what is safe to       *)
(* repeat.                                                                 *)
(*                                                                         *)
(* Concurrent calls share one breaker, the way the calls of one connection *)
(* do.  Calls are followed step by step; of any number of further calls    *)
(* only what they do to the breaker is kept (others).  Time is left out: a *)
(* deadline, a cancellation, the end of a breaker's window or of its rest  *)
(* may come at any moment.  gobreaker's generations appear as the calls    *)
(* that still count: when a new generation begins, the calls in flight     *)
(* stop counting.                                                          *)
(***************************************************************************)
EXTENDS Naturals, FiniteSets

CONSTANTS Calls,             \* the calls followed
          MaxAttempts,       \* Config.MaxAttempts
          MinRequests,       \* Config.BreakerMinRequests
          HalfOpenRequests,  \* Config.BreakerHalfOpenRequests
          MaxWindow          \* bound: calls counted in one window

ASSUME ClientAssumption ==
  /\ MaxAttempts \in Nat \ {0}
  /\ MinRequests \in Nat \ {0}
  /\ HalfOpenRequests \in Nat \ {0}
  /\ MaxWindow \in Nat /\ MinRequests <= MaxWindow /\ HalfOpenRequests <= MaxWindow

VARIABLES brk,      \* the breaker: its state and the counts of this generation
          pc,       \* where each call is
          attempt,  \* which attempt of it this is
          code,     \* the code of its last attempt, or its answer
          ctx,      \* whether its context is over, and why
          counts,   \* calls of the breaker's present generation
          others    \* how many other calls it has that are in flight

breaker == <<brk, counts, others>>
client  == <<breaker, pc, attempt, code, ctx>>

Codes == {"OK", "NotFound", "InvalidArgument", "FailedPrecondition", "Unauthenticated",
          "Internal", "Unavailable", "DeadlineExceeded", "Canceled"}

Breaker(s, requests, failures, successes) ==
  [state |-> s, requests |-> requests, failures |-> failures, successes |-> successes]

ClientTypeOK ==
  /\ brk \in [state : {"closed", "open", "half-open"}, requests : 0..MaxWindow,
              failures : 0..MaxWindow, successes : 0..MaxWindow]
  /\ pc \in [Calls -> {"idle", "send", "waiting", "returned", "answered"}]
  /\ attempt \in [Calls -> 1..MaxAttempts]
  /\ code \in [Calls -> Codes]
  /\ ctx \in [Calls -> {"alive", "DeadlineExceeded", "Canceled"}]
  /\ counts \subseteq Calls
  /\ others \in 0..MaxWindow

ClientInit ==
  /\ brk = Breaker("closed", 0, 0, 0)
  /\ pc = [c \in Calls |-> "idle"]
  /\ attempt = [c \in Calls |-> 1]
  /\ code = [c \in Calls |-> "OK"]
  /\ ctx = [c \in Calls |-> "alive"]
  /\ counts = {}
  /\ others = 0

Goto(c, from, to) == pc[c] = from /\ pc' = [pc EXCEPT ![c] = to]
-----------------------------------------------------------------------------
(* Which failures say what.                                                *)

\* The target itself is in trouble; its other codes that say so (ResourceExhausted,
\* Unknown, DataLoss) do nothing here that Internal does not.
unhealthy(code_) == code_ \in {"Unavailable", "DeadlineExceeded", "Internal"}

\* IsExcluded: a caller that gave up is not evidence.
excluded(code_) == code_ = "Canceled"

retryable(code_) == code_ \in {"Unavailable", "DeadlineExceeded"}

\* ReadyToTrip, with BreakerFailureRatio at its default of one half.
ReadyToTrip(requests, failures) ==
  requests >= MinRequests /\ failures * 2 >= requests
-----------------------------------------------------------------------------
(* The breaker, around the retries.                                        *)

Admits ==
  \/ brk.state = "closed"
  \/ brk.state = "half-open" /\ brk.requests < HalfOpenRequests

Begun == Admits /\ brk.requests < MaxWindow /\ brk' = [brk EXCEPT !.requests = @ + 1]

\* breakerUnary: the call goes out and will be counted.
Admit(c) ==
  /\ Goto(c, "idle", "send")
  /\ Begun
  /\ counts' = counts \cup {c}
  /\ UNCHANGED <<attempt, code, ctx, others>>

\* ErrOpenState and ErrTooManyRequests, as the status the caller knows.
ShutOut(c) ==
  /\ Goto(c, "idle", "answered")
  /\ ~Admits
  /\ code' = [code EXCEPT ![c] = "Unavailable"]
  /\ UNCHANGED <<breaker, attempt, ctx>>

\* A new generation: the counts start again and calls in flight no longer count.
NewGeneration(s) == brk' = Breaker(s, 0, 0, 0) /\ counts' = {} /\ others' = 0

\* afterRequest, for a call of this generation: C and n are those that are left.
Counted(code_, C, n) ==
  LET Left == counts' = C /\ others' = n
  IN  CASE excluded(code_) -> brk' = [brk EXCEPT !.requests = @ - 1] /\ Left
        [] ~excluded(code_) /\ unhealthy(code_) ->
             IF brk.state = "half-open" \/ ReadyToTrip(brk.requests, brk.failures + 1)
             THEN NewGeneration("open")
             ELSE brk' = [brk EXCEPT !.failures = @ + 1] /\ Left
        [] OTHER ->
             CASE brk.state = "closed" -> UNCHANGED brk /\ Left
               [] brk.state # "closed" /\ brk.successes + 1 >= HalfOpenRequests -> NewGeneration("closed")
               [] OTHER -> brk' = [brk EXCEPT !.successes = @ + 1] /\ Left

\* Bug variant: the outcome counts whatever has become of the breaker meanwhile.
ReportStale(c) ==
  /\ Goto(c, "returned", "answered")
  /\ Counted(code[c], counts \ {c}, others)
  /\ UNCHANGED <<attempt, code, ctx>>

\* The retries are over, at the latest when wait finds the budget shorter than the
\* backoff; the breaker counts the outcome of the whole call.
Report(c) ==
  /\ Goto(c, "returned", "answered")
  /\ IF c \in counts THEN Counted(code[c], counts \ {c}, others) ELSE UNCHANGED breaker
  /\ UNCHANGED <<attempt, code, ctx>>

\* Another call is shut out, goes out, or its outcome is counted.
OtherShutOut == ~Admits /\ UNCHANGED client

OtherBegins ==
  /\ Begun
  /\ others' = others + 1
  /\ UNCHANGED <<counts, pc, attempt, code, ctx>>

OtherEnds(code_) ==
  /\ others > 0
  /\ Counted(code_, counts, others - 1)
  /\ UNCHANGED <<pc, attempt, code, ctx>>

\* BreakerInterval passes.
WindowEnds ==
  /\ brk.state = "closed"
  /\ brk.requests > 0
  /\ NewGeneration("closed")
  /\ UNCHANGED <<pc, attempt, code, ctx>>

\* BreakerTimeout passes.
RestEnds ==
  /\ brk.state = "open"
  /\ NewGeneration("half-open")
  /\ UNCHANGED <<pc, attempt, code, ctx>>
-----------------------------------------------------------------------------
(* The attempts, inside it.                                                *)

\* The invoker has a code for the attempt.
Returns(c, code_) ==
  /\ pc' = [pc EXCEPT ![c] = "returned"]
  /\ code' = [code EXCEPT ![c] = code_]
  /\ UNCHANGED <<breaker, attempt>>

\* The caller's deadline passes or the caller goes away.
ContextEnds(c, why) ==
  /\ ctx[c] = "alive"
  /\ pc[c] \in {"send", "waiting", "returned"}
  /\ ctx' = [ctx EXCEPT ![c] = why]
  /\ IF pc[c] = "waiting" THEN Returns(c, why) ELSE UNCHANGED <<breaker, pc, attempt, code>>

\* An attempt with a context that is over is not sent.
SendTooLate(c) ==
  /\ pc[c] = "send"
  /\ ctx[c] # "alive"
  /\ Returns(c, ctx[c])
  /\ UNCHANGED ctx

\* retryUnary's test, and wait's.
Retries(c, safe) ==
  attempt[c] < MaxAttempts /\ safe /\ retryable(code[c]) /\ ctx[c] = "alive"

\* The next attempt; `safe' is whether the method is idempotent.
Retry(c, safe) ==
  /\ Goto(c, "returned", "send")
  /\ Retries(c, safe)
  /\ attempt' = [attempt EXCEPT ![c] = @ + 1]
  /\ UNCHANGED <<breaker, code, ctx>>
=============================================================================
