----------------------------- MODULE SellerCall -----------------------------
(***************************************************************************)
(* One logical call to a seller tool, from SellerSession.call_with_retry   *)
(* through call_seller_tool to _call_once, for several coroutines sharing  *)
(* the seller's session and circuit breaker.                               *)
(*                                                                         *)
(* Two loops resend a request: call_seller_tool on transient failures, and *)
(* call_with_retry once more when the seller says the context expired.     *)
(* They share one RetryBudget.  The breaker is the module CircuitBreaker.  *)
(***************************************************************************)
EXTENDS Naturals

CONSTANTS
  Callers,           \* coroutines, each making one logical call at a time
  FailureThreshold,  \* of the breaker
  RecoveryTimeout,   \* of the breaker, in clock ticks
  MaxRetries,        \* RetryBudget.max_retries, after its clamp to 0..3
  MaxSeconds,        \* RetryBudget.max_seconds in ticks, after its clamp
  Delays,            \* what a backoff or a retry_after hint can ask for
  Contexts,          \* context ids the seller hands out
  NoContext          \* context_id is None

ASSUME CallAssumption ==
  /\ FailureThreshold \in Nat \ {0}
  /\ RecoveryTimeout \in Nat \ {0}
  /\ MaxRetries \in Nat
  /\ MaxSeconds \in Nat
  /\ Delays \subseteq Nat \ {0}
  /\ Delays # {}
  /\ NoContext \notin Contexts

VARIABLES
  state, failureCount, cooldown, halfOpenInFlight, call,  \* the breaker
  supported,  \* agent.idempotency_supported of the session's agent
  contextId,  \* SellerSession.context_id
  pc,         \* where each coroutine is
  tool,       \* what it calls: a read, a mutation with or without a key
  own,        \* the context_id its caller put into params (provide_input does)
  carried,    \* the context_id in its full_params
  retries,    \* budget.retries_attempted
  elapsed,    \* ticks since budget.started_at; MaxSeconds + 1 is "longer"
  wait,       \* what is left of its backoff sleep
  resent,     \* in the second `call` of call_with_retry
  sends       \* requests of this logical call that went out (history)

Breaker == INSTANCE CircuitBreaker

breakerVars == <<state, failureCount, cooldown, halfOpenInFlight, call>>
budgetVars == <<retries, elapsed, wait>>
vars == <<breakerVars, budgetVars, supported, contextId, pc, tool, own, carried,
          resent, sends>>

Tools == {"read", "keyed", "bare"}

\* What a failed attempt tells its caller.  A connection failure is always
\* unhealthy; a tool error is unhealthy exactly when it is transient.
Errors ==
  {e \in [transient : BOOLEAN, unhealthy : BOOLEAN, expired : BOOLEAN] :
     e.transient => e.unhealthy}

TypeOK ==
  /\ Breaker!TypeOK
  /\ supported \in BOOLEAN
  /\ contextId \in Contexts \cup {NoContext}
  /\ pc \in [Callers -> {"idle", "gate", "out", "sleeping"}]
  /\ tool \in [Callers -> Tools]
  /\ own \in [Callers -> Contexts \cup {NoContext}]
  /\ carried \in [Callers -> Contexts \cup {NoContext}]
  /\ retries \in [Callers -> 0 .. MaxRetries]
  /\ elapsed \in [Callers -> 0 .. MaxSeconds + 1]
  /\ wait \in [Callers -> Nat]
  /\ resent \in [Callers -> BOOLEAN]
  /\ sends \in [Callers -> Nat]

Init ==
  /\ Breaker!Init
  /\ supported \in BOOLEAN
  /\ contextId = NoContext
  /\ pc = [c \in Callers |-> "idle"]
  /\ tool = [c \in Callers |-> "read"]
  /\ own = [c \in Callers |-> NoContext]
  /\ carried = [c \in Callers |-> NoContext]
  /\ retries = [c \in Callers |-> 0]
  /\ elapsed = [c \in Callers |-> 0]
  /\ wait = [c \in Callers |-> 0]
  /\ resent = [c \in Callers |-> FALSE]
  /\ sends = [c \in Callers |-> 0]

-----------------------------------------------------------------------------
(* The retry budget.  As in CircuitBreaker, X_Something is X with a bug    *)
(* that a check must notice.                                               *)

\* Reads always; mutations only with a key, on a replay-safe seller.
RetryPermitted(c) ==
  \/ tool[c] = "read"
  \/ tool[c] = "keyed" /\ supported

Exhausted_OffByOne(c) == retries[c] > MaxRetries

Exhausted(c) == retries[c] >= MaxRetries

Granted_IgnoresDelay(c, d) == ~Exhausted(c) /\ elapsed[c] <= MaxSeconds

\* RetryBudget.next_delay grants the delay d.
Granted(c, d) == ~Exhausted(c) /\ elapsed[c] + d <= MaxSeconds

Retriable_AnyTool(c, transient, d) == transient /\ Granted(c, d)

Retriable(c, transient, d) ==
  transient /\ RetryPermitted(c) /\ Granted(c, d)

\* Consume one retry and sleep.
Backoff(c, d) ==
  /\ pc' = [pc EXCEPT ![c] = "sleeping"]
  /\ retries' = [retries EXCEPT ![c] = @ + 1]
  /\ wait' = [wait EXCEPT ![c] = d]
  /\ UNCHANGED <<elapsed, supported, contextId, tool, own, carried, resent, sends>>

-----------------------------------------------------------------------------
(* One logical call. *)

\* The coroutine is done; what it held goes back to the initial value.
Leave(c) ==
  /\ pc' = [pc EXCEPT ![c] = "idle"]
  /\ tool' = [tool EXCEPT ![c] = "read"]
  /\ own' = [own EXCEPT ![c] = NoContext]
  /\ carried' = [carried EXCEPT ![c] = NoContext]
  /\ retries' = [retries EXCEPT ![c] = 0]
  /\ elapsed' = [elapsed EXCEPT ![c] = 0]
  /\ wait' = [wait EXCEPT ![c] = 0]
  /\ resent' = [resent EXCEPT ![c] = FALSE]
  /\ sends' = [sends EXCEPT ![c] = 0]
  /\ UNCHANGED supported

\* The session's context_id, if it has one, wins over the caller's.
FullContext(session, x) == IF session # NoContext THEN session ELSE x

\* call_with_retry makes a budget and enters `call`, which copies context_id.
\* Only provide_input has a context id of its own, and never a key.
Begin(c, t, x) ==
  /\ pc[c] = "idle"
  /\ x # NoContext => t = "bare"
  /\ pc' = [pc EXCEPT ![c] = "gate"]
  /\ tool' = [tool EXCEPT ![c] = t]
  /\ own' = [own EXCEPT ![c] = x]
  /\ carried' = [carried EXCEPT ![c] = FullContext(contextId, x)]
  /\ UNCHANGED <<breakerVars, budgetVars, supported, contextId, resent, sends>>

Send(c) ==
  /\ pc[c] = "gate"
  /\ Breaker!AllowRequest(c)
  /\ pc' = [pc EXCEPT ![c] = "out"]
  /\ sends' = [sends EXCEPT ![c] = @ + 1]
  /\ UNCHANGED <<budgetVars, supported, contextId, tool, own, carried, resent>>

\* CircuitOpenError is terminal: never retried, whatever is left of the budget.
FailFast(c) ==
  /\ pc[c] = "gate"
  /\ Breaker!RefuseRequest(c)
  /\ Leave(c)
  /\ UNCHANGED contextId

Answered_Unrecorded(c) ==
  /\ pc[c] = "out"
  /\ Breaker!Hangup(c)
  /\ UNCHANGED <<state, failureCount, cooldown, halfOpenInFlight>>
  /\ contextId' \in Contexts \cup {contextId, NoContext}
  /\ Leave(c)

\* The response is handed back; `call` saves the context_id if it has one
\* (it may be null).
Answered(c) ==
  /\ pc[c] = "out"
  /\ Breaker!Succeed(c)
  /\ contextId' \in Contexts \cup {contextId, NoContext}
  /\ Leave(c)

\* A response that carries only transient AdCP errors: healthy for the
\* breaker, retried if it may be, and otherwise returned like any other.
Throttled(c, d) ==
  /\ pc[c] = "out"
  /\ Breaker!Succeed(c)
  /\ Retriable(c, TRUE, d)
  /\ Backoff(c, d)

\* SellerSession.reset, and `call` again with the same params and budget.
ContextRetry(c) ==
  /\ pc' = [pc EXCEPT ![c] = "gate"]
  /\ retries' = [retries EXCEPT ![c] = @ + 1]
  /\ contextId' = NoContext
  /\ carried' = [carried EXCEPT ![c] = FullContext(NoContext, own[c])]
  /\ resent' = [resent EXCEPT ![c] = TRUE]
  /\ UNCHANGED <<elapsed, wait, supported, tool, own, sends>>

MayContextRetry_NoBudget(c, e) == e.expired /\ ~resent[c]

MayContextRetry(c, e) == e.expired /\ ~resent[c] /\ ~Exhausted(c)

\* The attempt raised a SellerError.
Errored(c, e, d) ==
  /\ pc[c] = "out"
  /\ \/ e.unhealthy /\ Breaker!Fail(c)
     \/ ~e.unhealthy /\ Breaker!Succeed(c)
  /\ \/ /\ Retriable(c, e.transient, d)
        /\ Backoff(c, d)
     \/ /\ ~Retriable(c, e.transient, d)
        /\ MayContextRetry(c, e)
        /\ ContextRetry(c)
     \/ /\ ~Retriable(c, e.transient, d)
        /\ ~MayContextRetry(c, e)
        /\ Leave(c)
        /\ UNCHANGED contextId

Wake_InTime(c) ==
  /\ pc[c] = "sleeping"
  /\ wait[c] = 0
  /\ elapsed[c] <= MaxSeconds
  /\ pc' = [pc EXCEPT ![c] = "gate"]
  /\ UNCHANGED <<breakerVars, budgetVars, supported, contextId, tool, own, carried,
                 resent, sends>>

Wake(c) ==
  /\ pc[c] = "sleeping"
  /\ wait[c] = 0
  /\ pc' = [pc EXCEPT ![c] = "gate"]
  /\ UNCHANGED <<breakerVars, budgetVars, supported, contextId, tool, own, carried,
                 resent, sends>>

\* One tick of the monotonic clock that breaker, budgets and sleeps read.
Tick ==
  /\ cooldown' = IF cooldown > 0 THEN cooldown - 1 ELSE 0
  /\ elapsed' = [c \in Callers |->
                   IF pc[c] # "idle" /\ elapsed[c] <= MaxSeconds
                   THEN elapsed[c] + 1 ELSE elapsed[c]]
  /\ wait' = [c \in Callers |-> IF wait[c] > 0 THEN wait[c] - 1 ELSE 0]
  /\ UNCHANGED <<state, failureCount, halfOpenInFlight, call, retries,
                 supported, contextId, pc, tool, own, carried, resent, sends>>

\* The breaker's state is read from outside (/health).
Health ==
  /\ Breaker!ReadState
  /\ UNCHANGED <<budgetVars, supported, contextId, pc, tool, own, carried, resent,
                 sends>>

Finish(c) ==
  \/ Answered(c)
  \/ \E d \in Delays : Throttled(c, d) \/ \E e \in Errors : Errored(c, e, d)

Next ==
  \/ \E c \in Callers :
       \/ \E t \in Tools, x \in Contexts \cup {NoContext} : Begin(c, t, x)
       \/ Send(c)
       \/ FailFast(c)
       \/ Finish(c)
       \/ Wake(c)
  \/ Health
  \/ Tick

Spec == Init /\ [][Next]_vars

\* The event loop runs every coroutine that can run, attempts end, time goes.
Fairness ==
  /\ WF_vars(Tick)
  /\ \A c \in Callers :
       /\ WF_vars(Send(c) \/ FailFast(c))
       /\ WF_vars(Finish(c))
       /\ WF_vars(Wake(c))

FairSpec == Spec /\ Fairness

-----------------------------------------------------------------------------
(* Properties. *)

(***************************************************************************)
(* However the two retry loops alternate, one logical call reaches the     *)
(* seller at most 1 + max_retries times: every resend used up one retry of *)
(* the one budget ("at most 3 retries per operation").                     *)
(***************************************************************************)
SendCeiling ==
  \A c \in Callers :
    /\ sends[c] <= retries[c] + (IF pc[c] = "out" THEN 1 ELSE 0)
    /\ retries[c] <= MaxRetries

(***************************************************************************)
(* A backoff sleep never outlasts the time budget, whatever retry_after    *)
(* the seller hints: it ends within max_seconds of the first attempt.      *)
(***************************************************************************)
SleepWithinBudget ==
  \A c \in Callers :
    pc[c] = "sleeping" /\ wait[c] > 0 => elapsed[c] + wait[c] <= MaxSeconds

(***************************************************************************)
(* A mutation that the seller could apply twice is sent a second time only *)
(* in the one context-expiry retry, whatever transient errors it meets.    *)
(***************************************************************************)
BlindResendOnlyAfterExpiry ==
  \A c \in Callers :
    ~RetryPermitted(c) => sends[c] <= 1 + (IF resent[c] THEN 1 ELSE 0)

(***************************************************************************)
(* Every logical call ends, with the circuit breaker's help or without.    *)
(***************************************************************************)
CallsEnd == \A c \in Callers : (pc[c] # "idle") ~> (pc[c] = "idle")

(***************************************************************************)
(* Whatever the retry loops do, the breaker only ever takes its own steps: *)
(* all that is shown of CircuitBreaker holds of it here.                   *)
(***************************************************************************)
UsesBreaker == Breaker!Spec

(***************************************************************************)
(* session.py:85 "If the seller indicates the context is expired/not       *)
(* found, resets context_id and retries once": the retry does not carry a  *)
(* context id again.                                                       *)
(***************************************************************************)
ExpiredContextDropped ==
  \A c \in Callers : resent[c] => carried[c] = NoContext

(***************************************************************************)
(* retry.py:72 "Operations that change seller state; retried only with an  *)
(* idempotency_key on a seller that explicitly declares                    *)
(* adcp.idempotency.supported: true."                                      *)
(***************************************************************************)
UnsafeMutationSentOnce ==
  \A c \in Callers : ~RetryPermitted(c) => sends[c] <= 1

=============================================================================
