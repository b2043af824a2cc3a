--------------------------- MODULE CircuitBreaker ---------------------------
(***************************************************************************)
(* The circuit breaker of one seller (src/connections/circuit_breaker.py)  *)
(* and the coroutines that call that seller through it (_call_once in      *)
(* src/connections/seller.py).                                             *)
(*                                                                         *)
(* allow_request, record_success and record_failure await nothing inside   *)
(* their asyncio.Lock, so each is one step.  What interleaves is the time  *)
(* between a call's admission and its result: the breaker does not know    *)
(* which admission a result belongs to.                                    *)
(***************************************************************************)
EXTENDS Naturals

CONSTANTS
  Callers,           \* coroutines that call the seller
  FailureThreshold,  \* failures in a row that open the circuit
  RecoveryTimeout    \* clock ticks the circuit stays open

ASSUME BreakerAssumption ==
  /\ FailureThreshold \in Nat \ {0}
  /\ RecoveryTimeout \in Nat \ {0}

VARIABLES
  state,             \* _state, as last written
  failureCount,      \* _failure_count; FailureThreshold stands for "or more"
  cooldown,          \* ticks until _last_failure_time is RecoveryTimeout old
  halfOpenInFlight,  \* _half_open_in_flight
  call               \* per caller: no call out, or how the call was admitted

breakerVars == <<state, failureCount, cooldown, halfOpenInFlight, call>>

CircuitState == {"CLOSED", "OPEN", "HALF_OPEN"}

TypeOK ==
  /\ state \in CircuitState
  /\ failureCount \in 0 .. FailureThreshold
  /\ cooldown \in 0 .. RecoveryTimeout
  /\ halfOpenInFlight \in BOOLEAN
  /\ call \in [Callers -> {"idle", "regular", "probe"}]

Init ==
  /\ state = "CLOSED"
  /\ failureCount = 0
  /\ cooldown = 0
  /\ halfOpenInFlight = FALSE
  /\ call = [c \in Callers |-> "idle"]

-----------------------------------------------------------------------------
(* The breaker's operations.  A definition called X_Something is not part  *)
(* of the model: it is X with a plausible bug, which a check must notice.  *)

CurrentState_NoTimer ==
  IF state = "OPEN" THEN "HALF_OPEN" ELSE state

\* What the `state` property returns, and what reading it leaves in _state.
CurrentState ==
  IF state = "OPEN" /\ cooldown = 0 THEN "HALF_OPEN" ELSE state

\* /health and status_summary read the property, and so may write _state.
ReadState ==
  /\ state' = CurrentState
  /\ UNCHANGED <<failureCount, cooldown, halfOpenInFlight, call>>

\* allow_request returns True: the call goes out, as a probe if half-open.
AllowRequest(c) ==
  /\ call[c] = "idle"
  /\ state' = CurrentState
  /\ \/ /\ CurrentState = "CLOSED"
        /\ call' = [call EXCEPT ![c] = "regular"]
        /\ UNCHANGED halfOpenInFlight
     \/ /\ CurrentState = "HALF_OPEN"
        /\ ~halfOpenInFlight
        /\ halfOpenInFlight' = TRUE
        /\ call' = [call EXCEPT ![c] = "probe"]
  /\ UNCHANGED <<failureCount, cooldown>>

\* allow_request returns False: CircuitOpenError, nothing is sent.
RefuseRequest(c) ==
  /\ call[c] = "idle"
  /\ \/ CurrentState = "OPEN"
     \/ CurrentState = "HALF_OPEN" /\ halfOpenInFlight
  /\ ReadState

RecordSuccess_KeepsCount ==
  /\ halfOpenInFlight' = FALSE
  /\ state' = "CLOSED"
  /\ UNCHANGED <<failureCount, cooldown>>

RecordSuccess_StaysOpen ==
  /\ failureCount' = 0
  /\ halfOpenInFlight' = FALSE
  /\ UNCHANGED <<state, cooldown>>

RecordSuccess ==
  /\ failureCount' = 0
  /\ halfOpenInFlight' = FALSE
  /\ state' = "CLOSED"
  /\ UNCHANGED cooldown

BumpedCount_NoCap == failureCount + 1

\* The count is only ever compared with the threshold, so it saturates there.
BumpedCount ==
  IF failureCount < FailureThreshold THEN failureCount + 1 ELSE failureCount

RecordFailure_KeepsSlot ==
  /\ failureCount' = BumpedCount
  /\ cooldown' = RecoveryTimeout
  /\ state' = IF BumpedCount = FailureThreshold THEN "OPEN" ELSE state
  /\ UNCHANGED halfOpenInFlight

RecordFailure ==
  /\ failureCount' = BumpedCount
  /\ cooldown' = RecoveryTimeout
  /\ halfOpenInFlight' = FALSE
  /\ state' = IF BumpedCount = FailureThreshold THEN "OPEN" ELSE state

-----------------------------------------------------------------------------
(* How _call_once uses them. *)

Hangup(c) ==
  /\ call[c] # "idle"
  /\ call' = [call EXCEPT ![c] = "idle"]

\* The seller answered: a result, or an error that is not about its health.
Succeed(c) == Hangup(c) /\ RecordSuccess

\* The connection failed, or the seller answered with a transient error.
Fail(c) == Hangup(c) /\ RecordFailure

Tick ==
  /\ cooldown > 0
  /\ cooldown' = cooldown - 1
  /\ UNCHANGED <<state, failureCount, halfOpenInFlight, call>>

Next ==
  \/ \E c \in Callers :
       AllowRequest(c) \/ RefuseRequest(c) \/ Succeed(c) \/ Fail(c)
  \/ ReadState
  \/ Tick

Spec == Init /\ [][Next]_breakerVars

(***************************************************************************)
(* Every admitted call ends (the transport times out), the clock runs, and *)
(* callers keep calling: the poller retries every pending operation.       *)
(***************************************************************************)
Fairness ==
  /\ WF_breakerVars(Tick)
  /\ \A c \in Callers :
       /\ WF_breakerVars(Succeed(c) \/ Fail(c))
       /\ WF_breakerVars(AllowRequest(c))

FairSpec == Spec /\ Fairness

-----------------------------------------------------------------------------
(* Properties. *)

(***************************************************************************)
(* The two fields that say "the seller is down" never disagree, whatever   *)
(* order late results arrive in: the circuit is closed exactly while fewer *)
(* than FailureThreshold failures followed the last success.               *)
(***************************************************************************)
StateMatchesCount ==
  (state = "CLOSED") <=> (failureCount < FailureThreshold)

(***************************************************************************)
(* The half-open slot is never leaked: while it is taken, some probe is    *)
(* still out, whose result will free it.  A slot nobody holds would refuse *)
(* every call to the seller for the life of the process.                   *)
(***************************************************************************)
SlotHeldByProbe ==
  halfOpenInFlight => \E c \in Callers : call[c] = "probe"

(***************************************************************************)
(* After FailureThreshold failures in a row nothing is sent until a full   *)
(* RecoveryTimeout has passed since the latest failure, unless a success   *)
(* was recorded meanwhile.                                                 *)
(***************************************************************************)
AdmissionRespectsCooldown ==
  [][\A c \in Callers :
       call[c] = "idle" /\ call'[c] # "idle"
         => failureCount < FailureThreshold \/ cooldown = 0]_breakerVars

(***************************************************************************)
(* If the seller stops failing, the circuit closes for good, whichever     *)
(* calls were in flight when it opened.                                    *)
(***************************************************************************)
RecoversWithSeller ==
  <>[][~ \E c \in Callers : Fail(c)]_breakerVars => <>[](state = "CLOSED")

=============================================================================
