-------------------------- MODULE SellerCallProofs --------------------------
(***************************************************************************)
(* What is proved of SellerCall, for any callers, budgets and delays: its  *)
(* retry loops only ever take the breaker's own steps, and they keep to    *)
(* the limits on resends.                                                  *)
(***************************************************************************)
EXTENDS SellerCall, TLAPS

-----------------------------------------------------------------------------
(* The breaker underneath. *)

\* What each step does to the breaker's variables.
BreakerStep ==
  \/ \E c \in Callers :
       \/ Breaker!AllowRequest(c) \/ Breaker!RefuseRequest(c)
       \/ Breaker!Succeed(c) \/ Breaker!Fail(c)
  \/ Breaker!ReadState
  \/ Breaker!Tick
  \/ UNCHANGED breakerVars

\* The shared clock ticks for the breaker too, unless it has nothing to count.
LEMMA TickIsBreakerTick ==
  ASSUME Breaker!TypeOK, Tick
  PROVE  Breaker!Tick \/ UNCHANGED breakerVars
  <1>1. CASE cooldown > 0
    BY <1>1 DEF Tick, Breaker!Tick
  <1>2. CASE ~(cooldown > 0)
    <2>1. cooldown' = cooldown
      BY <1>2 DEF Breaker!TypeOK, Tick
    <2> QED
      BY <2>1 DEF Tick, breakerVars
  <1> QED
    BY <1>1, <1>2

LEMMA NextIsBreakerStep ==
  ASSUME Breaker!TypeOK, [Next]_vars
  PROVE  BreakerStep
  <1>1. ASSUME NEW c \in Callers, NEW t \in Tools,
               NEW x \in Contexts \cup {NoContext}, Begin(c, t, x)
        PROVE  BreakerStep
    BY <1>1 DEF Begin, BreakerStep
  <1>2. ASSUME NEW c \in Callers, Send(c) PROVE BreakerStep
    BY <1>2 DEF Send, BreakerStep
  <1>3. ASSUME NEW c \in Callers, FailFast(c) PROVE BreakerStep
    BY <1>3 DEF FailFast, BreakerStep
  <1>4. ASSUME NEW c \in Callers, Answered(c) PROVE BreakerStep
    BY <1>4 DEF Answered, BreakerStep
  <1>5. ASSUME NEW c \in Callers, NEW d \in Delays, Throttled(c, d)
        PROVE  BreakerStep
    BY <1>5 DEF Throttled, BreakerStep
  <1>6. ASSUME NEW c \in Callers, NEW d \in Delays, NEW e \in Errors,
               Errored(c, e, d)
        PROVE  BreakerStep
    BY <1>6 DEF Errored, BreakerStep
  <1>7. ASSUME NEW c \in Callers, Wake(c) PROVE BreakerStep
    BY <1>7 DEF Wake, BreakerStep
  <1>8. CASE Health
    BY <1>8 DEF Health, BreakerStep
  <1>9. CASE Tick
    BY <1>9, TickIsBreakerTick DEF BreakerStep
  <1>10. CASE UNCHANGED vars
    BY <1>10 DEF vars, BreakerStep
  <1> QED
    BY <1>1, <1>2, <1>3, <1>4, <1>5, <1>6, <1>7, <1>8, <1>9, <1>10
    DEF Next, Finish

LEMMA BreakerStepKeepsTypes ==
  ASSUME Breaker!TypeOK, BreakerStep
  PROVE  Breaker!TypeOK'
  <1>1. Breaker!CurrentState \in Breaker!CircuitState
    BY DEF Breaker!TypeOK, Breaker!CurrentState, Breaker!CircuitState
  <1>2. Breaker!BumpedCount \in 0 .. FailureThreshold
    BY CallAssumption DEF Breaker!TypeOK, Breaker!BumpedCount
  <1>3. ASSUME NEW c \in Callers, Breaker!AllowRequest(c)
        PROVE  Breaker!TypeOK'
    BY <1>1, <1>3 DEF Breaker!TypeOK, Breaker!AllowRequest
  <1>4. ASSUME Breaker!ReadState PROVE Breaker!TypeOK'
    BY <1>1, <1>4 DEF Breaker!TypeOK, Breaker!ReadState
  <1>5. ASSUME NEW c \in Callers, Breaker!Succeed(c) PROVE Breaker!TypeOK'
    <2>1. halfOpenInFlight' \in BOOLEAN
      BY <1>5 DEF Breaker!Succeed, Breaker!RecordSuccess
    <2> QED
      BY <1>5, <2>1, CallAssumption
      DEF Breaker!TypeOK, Breaker!CircuitState, Breaker!Succeed, Breaker!Hangup,
          Breaker!RecordSuccess
  <1>6. ASSUME NEW c \in Callers, Breaker!Fail(c) PROVE Breaker!TypeOK'
    <2>1. halfOpenInFlight' \in BOOLEAN
      BY <1>6 DEF Breaker!Fail, Breaker!RecordFailure
    <2> QED
      BY <1>2, <1>6, <2>1, CallAssumption
      DEF Breaker!TypeOK, Breaker!CircuitState, Breaker!Fail, Breaker!Hangup,
          Breaker!RecordFailure
  <1>7. CASE Breaker!Tick
    <2>1. halfOpenInFlight' \in BOOLEAN
      BY <1>7 DEF Breaker!TypeOK, Breaker!Tick
    <2>2. cooldown' \in 0 .. RecoveryTimeout
      BY <1>7, CallAssumption DEF Breaker!TypeOK, Breaker!Tick
    <2> QED
      BY <1>7, <2>1, <2>2 DEF Breaker!TypeOK, Breaker!Tick
  <1>8. CASE UNCHANGED breakerVars
    BY <1>8 DEF Breaker!TypeOK, breakerVars
  <1> QED
    BY <1>3, <1>4, <1>5, <1>6, <1>7, <1>8 DEF BreakerStep, Breaker!RefuseRequest

LEMMA SpecBreakerTypes == Spec => []Breaker!TypeOK
  <1>1. Init => Breaker!TypeOK
    <2>1. Init => halfOpenInFlight \in BOOLEAN
      BY DEF Init, Breaker!Init
    <2> QED
      BY <2>1, CallAssumption
      DEF Init, Breaker!Init, Breaker!TypeOK, Breaker!CircuitState
  <1>2. Breaker!TypeOK /\ [Next]_vars => Breaker!TypeOK'
    BY NextIsBreakerStep, BreakerStepKeepsTypes
  <1> QED
    BY <1>1, <1>2, PTL DEF Spec

(***************************************************************************)
(* However many coroutines retry at once, what they do to the circuit      *)
(* breaker is a behaviour of CircuitBreaker: its theorems hold here.       *)
(***************************************************************************)
THEOREM CallsUseBreaker == Spec => UsesBreaker
  <1>1. Init => Breaker!Init
    BY DEF Init
  <1>2. Breaker!TypeOK /\ [Next]_vars => [Breaker!Next]_(Breaker!breakerVars)
    BY NextIsBreakerStep
    DEF BreakerStep, Breaker!Next, breakerVars, Breaker!breakerVars
  <1> QED
    BY <1>1, <1>2, SpecBreakerTypes, PTL DEF Spec, UsesBreaker, Breaker!Spec

-----------------------------------------------------------------------------
(* The resends of one call. *)

CallTypes ==
  /\ supported \in BOOLEAN
  /\ contextId \in Contexts \cup {NoContext}
  /\ pc \in [Callers -> {"idle", "gate", "out", "sleeping"}]
  /\ tool \in [Callers -> Tools]
  /\ own \in [Callers -> Contexts \cup {NoContext}]
  /\ carried \in [Callers -> Contexts \cup {NoContext}]
  /\ retries \in [Callers -> 0 .. MaxRetries]
  /\ elapsed \in [Callers -> 0 .. MaxSeconds + 1]
  /\ wait \in [Callers -> Nat]
  /\ resent \in [Callers -> BOOLEAN]
  /\ sends \in [Callers -> Nat]

\* A new call starts from nothing.
IdleIsFresh(c) ==
  pc[c] = "idle" => sends[c] = 0 /\ tool[c] = "read"

\* Every request but the one that is out has used up a retry.
RetriesCoverSends(c) ==
  sends[c] <= retries[c] + (IF pc[c] = "out" THEN 1 ELSE 0)

\* A call that may not be retried is never asleep, and every request of it but
\* the one that is out was given up for the context retry.
BlindSends(c) ==
  ~RetryPermitted(c) =>
    /\ pc[c] # "sleeping"
    /\ sends[c] <= (IF pc[c] = "out" THEN 1 ELSE 0) + (IF resent[c] THEN 1 ELSE 0)

SleepEndsInTime(c) ==
  pc[c] = "sleeping" /\ wait[c] > 0 => elapsed[c] + wait[c] <= MaxSeconds

CallerInv(c) ==
  IdleIsFresh(c) /\ RetriesCoverSends(c) /\ BlindSends(c) /\ SleepEndsInTime(c)

CallIInv == CallTypes /\ \A c \in Callers : CallerInv(c)

LEMMA InitCallIInv == Init => CallIInv
  <1> SUFFICES ASSUME Init PROVE CallIInv
    OBVIOUS
  <1>1. resent \in [Callers -> BOOLEAN] /\ supported \in BOOLEAN
    BY DEF Init
  <1>2. CallTypes
    BY <1>1, CallAssumption DEF Init, CallTypes, Tools
  <1>3. ASSUME NEW c \in Callers PROVE CallerInv(c)
    BY CallAssumption
    DEF Init, CallerInv, IdleIsFresh, RetriesCoverSends, BlindSends,
        SleepEndsInTime, RetryPermitted
  <1> QED
    BY <1>2, <1>3 DEF CallIInv

LEMMA LeaveKeepsCallIInv ==
  ASSUME CallIInv, NEW c \in Callers, Leave(c),
         contextId' \in Contexts \cup {NoContext}
  PROVE  CallIInv'
  <1>1. resent' \in [Callers -> BOOLEAN] /\ supported' \in BOOLEAN
    BY DEF CallIInv, CallTypes, Leave
  <1>2. CallTypes'
    BY <1>1, CallAssumption DEF CallIInv, CallTypes, Leave, Tools
  <1>3. ASSUME NEW d \in Callers PROVE CallerInv(d)'
    BY <1>2
    DEF CallIInv, CallTypes, CallerInv, IdleIsFresh, RetriesCoverSends,
        BlindSends, SleepEndsInTime, RetryPermitted, Leave
  <1> QED
    BY <1>2, <1>3 DEF CallIInv

LEMMA BackoffKeepsCallIInv ==
  ASSUME CallIInv, NEW c \in Callers, NEW d \in Delays,
         pc[c] = "out", RetryPermitted(c), Granted(c, d), Backoff(c, d)
  PROVE  CallIInv'
  <1>1. resent' \in [Callers -> BOOLEAN] /\ supported' \in BOOLEAN
    BY DEF CallIInv, CallTypes, Backoff
  <1>2. CallTypes'
    BY <1>1, CallAssumption
    DEF CallIInv, CallTypes, Backoff, Granted, Exhausted
  <1>3. ASSUME NEW b \in Callers PROVE CallerInv(b)'
    BY <1>2, CallAssumption
    DEF CallIInv, CallTypes, CallerInv, IdleIsFresh, RetriesCoverSends,
        BlindSends, SleepEndsInTime, RetryPermitted, Backoff, Granted
  <1> QED
    BY <1>2, <1>3 DEF CallIInv

LEMMA BeginKeepsCallIInv ==
  ASSUME CallIInv, NEW c \in Callers, NEW t \in Tools,
         NEW x \in Contexts \cup {NoContext}, Begin(c, t, x)
  PROVE  CallIInv'
  <1>1. resent' \in [Callers -> BOOLEAN] /\ supported' \in BOOLEAN
    BY DEF CallIInv, CallTypes, Begin
  <1>2. CallTypes'
    BY <1>1, CallAssumption
    DEF CallIInv, CallTypes, Tools, Begin, FullContext, budgetVars
  <1>3. ASSUME NEW b \in Callers PROVE CallerInv(b)'
    BY <1>2, CallAssumption
    DEF CallIInv, CallTypes, CallerInv, IdleIsFresh, RetriesCoverSends,
        BlindSends, SleepEndsInTime, RetryPermitted, Begin,
        budgetVars
  <1> QED
    BY <1>2, <1>3 DEF CallIInv

LEMMA SendKeepsCallIInv ==
  ASSUME CallIInv, NEW c \in Callers, Send(c)
  PROVE  CallIInv'
  <1>1. resent' \in [Callers -> BOOLEAN] /\ supported' \in BOOLEAN
    BY DEF CallIInv, CallTypes, Send
  <1>2. CallTypes'
    BY <1>1, CallAssumption
    DEF CallIInv, CallTypes, Tools, Send, budgetVars
  <1>3. ASSUME NEW b \in Callers PROVE CallerInv(b)'
    BY <1>2, CallAssumption
    DEF CallIInv, CallTypes, CallerInv, IdleIsFresh, RetriesCoverSends,
        BlindSends, SleepEndsInTime, RetryPermitted, Send, budgetVars
  <1> QED
    BY <1>2, <1>3 DEF CallIInv

LEMMA ContextRetryKeepsCallIInv ==
  ASSUME CallIInv, NEW c \in Callers, NEW e \in Errors,
         pc[c] = "out", MayContextRetry(c, e), ContextRetry(c)
  PROVE  CallIInv'
  <1>1. resent' \in [Callers -> BOOLEAN] /\ supported' \in BOOLEAN
    BY DEF CallIInv, CallTypes, ContextRetry
  <1>2. CallTypes'
    BY <1>1, CallAssumption
    DEF CallIInv, CallTypes, Tools, ContextRetry,
        FullContext, MayContextRetry, Exhausted
  <1>3. ASSUME NEW b \in Callers PROVE CallerInv(b)'
    BY <1>2, CallAssumption
    DEF CallIInv, CallTypes, CallerInv, IdleIsFresh, RetriesCoverSends,
        BlindSends, SleepEndsInTime, RetryPermitted, ContextRetry,
        MayContextRetry
  <1> QED
    BY <1>2, <1>3 DEF CallIInv

LEMMA WakeKeepsCallIInv ==
  ASSUME CallIInv, NEW c \in Callers, Wake(c)
  PROVE  CallIInv'
  <1>1. resent' \in [Callers -> BOOLEAN] /\ supported' \in BOOLEAN
    BY DEF CallIInv, CallTypes, Wake
  <1>2. CallTypes'
    BY <1>1, CallAssumption
    DEF CallIInv, CallTypes, Tools, Wake, budgetVars
  <1>3. ASSUME NEW b \in Callers PROVE CallerInv(b)'
    BY <1>2, CallAssumption
    DEF CallIInv, CallTypes, CallerInv, IdleIsFresh, RetriesCoverSends,
        BlindSends, SleepEndsInTime, RetryPermitted, Wake, budgetVars
  <1> QED
    BY <1>2, <1>3 DEF CallIInv

LEMMA TickKeepsCallIInv ==
  ASSUME CallIInv, Tick
  PROVE  CallIInv'
  <1>1. resent' \in [Callers -> BOOLEAN] /\ supported' \in BOOLEAN
    BY DEF CallIInv, CallTypes, Tick
  <1>2. CallTypes'
    BY <1>1, CallAssumption
    DEF CallIInv, CallTypes, Tools, Tick
  <1>3. ASSUME NEW b \in Callers PROVE CallerInv(b)'
    BY <1>2, CallAssumption
    DEF CallIInv, CallTypes, CallerInv, IdleIsFresh, RetriesCoverSends,
        BlindSends, SleepEndsInTime, RetryPermitted, Tick
  <1> QED
    BY <1>2, <1>3 DEF CallIInv

\* Health, and stuttering.
LEMMA StillKeepsCallIInv ==
  ASSUME CallIInv,
         UNCHANGED <<budgetVars, supported, contextId, pc, tool, own, carried,
                     resent, sends>>
  PROVE  CallIInv'
  <1>1. resent' \in [Callers -> BOOLEAN] /\ supported' \in BOOLEAN
    BY DEF CallIInv, CallTypes, budgetVars
  <1>2. CallTypes'
    BY <1>1, CallAssumption
    DEF CallIInv, CallTypes, Tools, budgetVars
  <1>3. ASSUME NEW b \in Callers PROVE CallerInv(b)'
    BY <1>2, CallAssumption
    DEF CallIInv, CallTypes, CallerInv, IdleIsFresh, RetriesCoverSends,
        BlindSends, SleepEndsInTime, RetryPermitted, budgetVars
  <1> QED
    BY <1>2, <1>3 DEF CallIInv

LEMMA ErroredKeepsCallIInv ==
  ASSUME CallIInv, NEW c \in Callers, NEW d \in Delays, NEW e \in Errors,
         Errored(c, e, d)
  PROVE  CallIInv'
  <1>1. CASE Retriable(c, e.transient, d) /\ Backoff(c, d)
    BY <1>1, BackoffKeepsCallIInv DEF Errored, Retriable
  <1>2. CASE MayContextRetry(c, e) /\ ContextRetry(c)
    BY <1>2, ContextRetryKeepsCallIInv DEF Errored
  <1>3. CASE Leave(c) /\ UNCHANGED contextId
    BY <1>3, LeaveKeepsCallIInv DEF CallIInv, CallTypes
  <1> QED
    BY <1>1, <1>2, <1>3 DEF Errored

LEMMA NextCallIInv == CallIInv /\ [Next]_vars => CallIInv'
  <1> SUFFICES ASSUME CallIInv, [Next]_vars PROVE CallIInv'
    OBVIOUS
  <1>1. ASSUME NEW c \in Callers, NEW t \in Tools,
               NEW x \in Contexts \cup {NoContext}, Begin(c, t, x)
        PROVE  CallIInv'
    BY <1>1, BeginKeepsCallIInv
  <1>2. ASSUME NEW c \in Callers, Send(c) PROVE CallIInv'
    BY <1>2, SendKeepsCallIInv
  <1>3. ASSUME NEW c \in Callers, FailFast(c) PROVE CallIInv'
    BY <1>3, LeaveKeepsCallIInv DEF FailFast, CallIInv, CallTypes
  <1>4. ASSUME NEW c \in Callers, Answered(c) PROVE CallIInv'
    BY <1>4, LeaveKeepsCallIInv DEF Answered, CallIInv, CallTypes
  <1>5. ASSUME NEW c \in Callers, NEW d \in Delays, Throttled(c, d)
        PROVE  CallIInv'
    BY <1>5, BackoffKeepsCallIInv DEF Throttled, Retriable
  <1>6. ASSUME NEW c \in Callers, NEW d \in Delays, NEW e \in Errors,
               Errored(c, e, d)
        PROVE  CallIInv'
    BY <1>6, ErroredKeepsCallIInv
  <1>7. ASSUME NEW c \in Callers, Wake(c) PROVE CallIInv'
    BY <1>7, WakeKeepsCallIInv
  <1>8. CASE Health
    BY <1>8, StillKeepsCallIInv DEF Health
  <1>9. CASE Tick
    BY <1>9, TickKeepsCallIInv
  <1>10. CASE UNCHANGED vars
    BY <1>10, StillKeepsCallIInv DEF vars
  <1> QED
    BY <1>1, <1>2, <1>3, <1>4, <1>5, <1>6, <1>7, <1>8, <1>9, <1>10
    DEF Next, Finish

LEMMA SpecCallIInv == Spec => []CallIInv
  BY InitCallIInv, NextCallIInv, PTL DEF Spec

(***************************************************************************)
(* The fields of the breaker, the session and every call keep their types: *)
(* above all, the budget of retries is never overdrawn.                    *)
(***************************************************************************)
THEOREM CallsTypes == Spec => []TypeOK
  <1>1. Breaker!TypeOK /\ CallIInv => TypeOK
    BY DEF CallIInv, CallTypes, TypeOK
  <1> QED
    BY <1>1, SpecBreakerTypes, SpecCallIInv, PTL

(***************************************************************************)
(* One logical call reaches the seller at most 1 + max_retries times: the  *)
(* two loops that resend draw on one budget.                               *)
(***************************************************************************)
THEOREM CallsSendCeiling == Spec => []SendCeiling
  <1>1. ASSUME CallIInv, NEW c \in Callers PROVE retries[c] <= MaxRetries
    <2>1. retries \in [Callers -> 0 .. MaxRetries] /\ MaxRetries \in Nat
      BY <1>1, CallAssumption DEF CallIInv, CallTypes
    <2>2. retries[c] \in 0 .. MaxRetries
      BY <2>1
    <2> QED
      BY <2>1, <2>2
  <1>2. CallIInv => SendCeiling
    BY <1>1 DEF CallIInv, CallerInv, RetriesCoverSends, SendCeiling
  <1> QED
    BY <1>2, SpecCallIInv, PTL

(***************************************************************************)
(* No backoff, whatever the seller hints, ends after the time budget.      *)
(***************************************************************************)
THEOREM CallsSleepWithinBudget == Spec => []SleepWithinBudget
  <1>1. CallIInv => SleepWithinBudget
    BY DEF CallIInv, CallerInv, SleepEndsInTime, SleepWithinBudget
  <1> QED
    BY <1>1, SpecCallIInv, PTL

(***************************************************************************)
(* Apart from the one context retry, a mutation that is not safe to replay *)
(* is sent once.                                                           *)
(***************************************************************************)
THEOREM CallsBlindResend == Spec => []BlindResendOnlyAfterExpiry
  <1>1. CallIInv => BlindResendOnlyAfterExpiry
    BY DEF CallIInv, CallTypes, CallerInv, BlindSends, BlindResendOnlyAfterExpiry
  <1> QED
    BY <1>1, SpecCallIInv, PTL

=============================================================================
