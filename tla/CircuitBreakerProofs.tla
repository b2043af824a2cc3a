------------------------ MODULE CircuitBreakerProofs ------------------------
(***************************************************************************)
(* What is proved of CircuitBreaker, for any set of callers, threshold and *)
(* recovery timeout.                                                       *)
(*                                                                         *)
(* The inductive invariant adds one fact to the checked ones: a half-open  *)
(* circuit has no cooldown left.  Without it nothing says that a probe     *)
(* admitted by a circuit that is half-open already waited long enough.     *)
(***************************************************************************)
EXTENDS CircuitBreaker, TLAPS

HalfOpenIsCool == state = "HALF_OPEN" => cooldown = 0

IInv ==
  /\ TypeOK
  /\ StateMatchesCount
  /\ HalfOpenIsCool
  /\ SlotHeldByProbe

-----------------------------------------------------------------------------
(* The operations of the breaker. *)

\* Reading the state opens the half-open circuit, and nothing else: it keeps
\* every relation between state, count and cooldown.
LEMMA CurrentStateFacts ==
  ASSUME TypeOK, StateMatchesCount, HalfOpenIsCool
  PROVE  /\ CurrentState \in CircuitState
         /\ CurrentState = "CLOSED" <=> failureCount < FailureThreshold
         /\ CurrentState = "HALF_OPEN" => cooldown = 0
  BY DEF TypeOK, StateMatchesCount, HalfOpenIsCool, CurrentState, CircuitState

\* The count climbs to the threshold and stays there.
LEMMA BumpedCountFacts ==
  ASSUME TypeOK
  PROVE  /\ BumpedCount \in 0 .. FailureThreshold
         /\ failureCount = FailureThreshold => BumpedCount = FailureThreshold
  BY BreakerAssumption DEF TypeOK, BumpedCount

LEMMA ReadKeepsIInv ==
  ASSUME IInv, ReadState
  PROVE  IInv'
  <1>1. /\ CurrentState \in CircuitState
        /\ CurrentState = "CLOSED" <=> failureCount < FailureThreshold
        /\ CurrentState = "HALF_OPEN" => cooldown = 0
    BY CurrentStateFacts DEF IInv
  <1>2. TypeOK'
    BY <1>1 DEF IInv, TypeOK, ReadState
  <1>3. StateMatchesCount' /\ HalfOpenIsCool'
    BY <1>1 DEF StateMatchesCount, HalfOpenIsCool, ReadState
  <1>4. SlotHeldByProbe'
    BY DEF IInv, SlotHeldByProbe, ReadState
  <1> QED
    BY <1>2, <1>3, <1>4 DEF IInv

LEMMA AllowKeepsIInv ==
  ASSUME IInv, NEW c \in Callers, AllowRequest(c)
  PROVE  IInv'
  <1>1. /\ CurrentState \in CircuitState
        /\ CurrentState = "CLOSED" <=> failureCount < FailureThreshold
        /\ CurrentState = "HALF_OPEN" => cooldown = 0
    BY CurrentStateFacts DEF IInv
  <1>2. TypeOK'
    BY <1>1 DEF IInv, TypeOK, AllowRequest
  <1>3. StateMatchesCount' /\ HalfOpenIsCool'
    BY <1>1 DEF StateMatchesCount, HalfOpenIsCool, AllowRequest
  <1>4. SlotHeldByProbe'
    <2>1. CASE CurrentState = "CLOSED"
      \* The caller was idle, so whoever holds the slot is another one.
      BY <2>1 DEF IInv, TypeOK, SlotHeldByProbe, AllowRequest
    <2>2. CASE CurrentState = "HALF_OPEN"
      BY <2>2 DEF IInv, TypeOK, SlotHeldByProbe, AllowRequest
    <2> QED
      BY <2>1, <2>2 DEF AllowRequest
  <1> QED
    BY <1>2, <1>3, <1>4 DEF IInv

LEMMA SucceedKeepsIInv ==
  ASSUME IInv, NEW c \in Callers, Succeed(c)
  PROVE  IInv'
  <1>1. halfOpenInFlight' \in BOOLEAN
    BY DEF Succeed, RecordSuccess
  <1>2. TypeOK'
    BY <1>1, BreakerAssumption
    DEF IInv, TypeOK, CircuitState, Succeed, Hangup, RecordSuccess
  <1>3. StateMatchesCount' /\ HalfOpenIsCool'
    BY BreakerAssumption
    DEF StateMatchesCount, HalfOpenIsCool, Succeed, RecordSuccess
  <1>4. SlotHeldByProbe'
    BY DEF SlotHeldByProbe, Succeed, RecordSuccess
  <1> QED
    BY <1>2, <1>3, <1>4 DEF IInv

LEMMA FailKeepsIInv ==
  ASSUME IInv, NEW c \in Callers, Fail(c)
  PROVE  IInv'
  <1>1. /\ BumpedCount \in 0 .. FailureThreshold
        /\ failureCount = FailureThreshold => BumpedCount = FailureThreshold
    BY BumpedCountFacts DEF IInv
  <1>2. TypeOK'
    <2>1. halfOpenInFlight' \in BOOLEAN
      BY DEF Fail, RecordFailure
    <2> QED
      BY <1>1, <2>1, BreakerAssumption
      DEF IInv, TypeOK, CircuitState, Fail, Hangup, RecordFailure
  <1>3. StateMatchesCount' /\ HalfOpenIsCool'
    \* A circuit that is not closed is at the threshold, and reopens.
    BY <1>1, BreakerAssumption
    DEF IInv, TypeOK, StateMatchesCount, HalfOpenIsCool, CircuitState, Fail,
        RecordFailure
  <1>4. SlotHeldByProbe'
    BY DEF SlotHeldByProbe, Fail, RecordFailure
  <1> QED
    BY <1>2, <1>3, <1>4 DEF IInv

LEMMA TickKeepsIInv ==
  ASSUME IInv, Tick
  PROVE  IInv'
  BY BreakerAssumption
  DEF IInv, TypeOK, StateMatchesCount, HalfOpenIsCool, SlotHeldByProbe, Tick

-----------------------------------------------------------------------------
(* The specification. *)

LEMMA InitIInv == Init => IInv
  <1> SUFFICES ASSUME Init PROVE IInv
    OBVIOUS
  <1>1. halfOpenInFlight \in BOOLEAN
    BY DEF Init
  <1>2. TypeOK
    BY <1>1, BreakerAssumption DEF Init, TypeOK, CircuitState
  <1>3. StateMatchesCount
    BY BreakerAssumption DEF Init, StateMatchesCount
  <1>4. HalfOpenIsCool /\ SlotHeldByProbe
    BY DEF Init, HalfOpenIsCool, SlotHeldByProbe
  <1> QED
    BY <1>2, <1>3, <1>4 DEF IInv

LEMMA NextIInv == IInv /\ [Next]_breakerVars => IInv'
  <1> SUFFICES ASSUME IInv, [Next]_breakerVars PROVE IInv'
    OBVIOUS
  <1>1. ASSUME NEW c \in Callers, AllowRequest(c) PROVE IInv'
    BY <1>1, AllowKeepsIInv
  <1>2. ASSUME NEW c \in Callers, RefuseRequest(c) PROVE IInv'
    BY <1>2, ReadKeepsIInv DEF RefuseRequest
  <1>3. ASSUME NEW c \in Callers, Succeed(c) PROVE IInv'
    BY <1>3, SucceedKeepsIInv
  <1>4. ASSUME NEW c \in Callers, Fail(c) PROVE IInv'
    BY <1>4, FailKeepsIInv
  <1>5. CASE ReadState
    BY <1>5, ReadKeepsIInv
  <1>6. CASE Tick
    BY <1>6, TickKeepsIInv
  <1>7. CASE UNCHANGED breakerVars
    BY <1>7
    DEF breakerVars, IInv, TypeOK, StateMatchesCount, HalfOpenIsCool,
        SlotHeldByProbe
  <1> QED
    BY <1>1, <1>2, <1>3, <1>4, <1>5, <1>6, <1>7 DEF Next

LEMMA SpecIInv == Spec => []IInv
  BY InitIInv, NextIInv, PTL DEF Spec

(***************************************************************************)
(* The fields of CircuitBreaker keep their types; the count never passes   *)
(* the threshold once it saturates there.                                  *)
(***************************************************************************)
THEOREM BreakerTypes == Spec => []TypeOK
  BY SpecIInv, PTL DEF IInv

(***************************************************************************)
(* _state and _failure_count always agree on whether the circuit is        *)
(* closed, for any number of calls whose results arrive in any order.      *)
(***************************************************************************)
THEOREM BreakerStateMatchesCount == Spec => []StateMatchesCount
  BY SpecIInv, PTL DEF IInv

(***************************************************************************)
(* _half_open_in_flight is never left set with no probe out to clear it.   *)
(***************************************************************************)
THEOREM BreakerSlotHeldByProbe == Spec => []SlotHeldByProbe
  BY SpecIInv, PTL DEF IInv

-----------------------------------------------------------------------------
(* Admission. *)

\* Whatever allow_request admits finds the circuit closed or cooled down.
LEMMA AllowRespectsCooldown ==
  ASSUME IInv, NEW c \in Callers, AllowRequest(c)
  PROVE  failureCount < FailureThreshold \/ cooldown = 0
  BY CurrentStateFacts DEF IInv, AllowRequest

\* No other step turns an idle caller into one with a call out.
LEMMA OnlyAllowAdmits ==
  ASSUME IInv, [Next]_breakerVars,
         NEW c \in Callers, call[c] = "idle", call'[c] # "idle"
  PROVE  AllowRequest(c)
  <1>1. ASSUME NEW d \in Callers, AllowRequest(d) PROVE c = d
    BY <1>1 DEF IInv, TypeOK, AllowRequest
  <1>2. ASSUME NEW d \in Callers, RefuseRequest(d) PROVE FALSE
    BY <1>2 DEF RefuseRequest, ReadState
  <1>3. ASSUME NEW d \in Callers, Succeed(d) PROVE FALSE
    BY <1>3 DEF IInv, TypeOK, Succeed, Hangup
  <1>4. ASSUME NEW d \in Callers, Fail(d) PROVE FALSE
    BY <1>4 DEF IInv, TypeOK, Fail, Hangup
  <1>5. ~ReadState
    BY DEF ReadState
  <1>6. ~Tick
    BY DEF Tick
  <1>7. ~UNCHANGED breakerVars
    BY DEF breakerVars
  <1> QED
    BY <1>1, <1>2, <1>3, <1>4, <1>5, <1>6, <1>7 DEF Next

(***************************************************************************)
(* After a threshold of failures, no call is admitted before the recovery  *)
(* timeout has passed since the last failure or a success was recorded.    *)
(***************************************************************************)
THEOREM BreakerAdmission == Spec => AdmissionRespectsCooldown
  <1>1. IInv /\ [Next]_breakerVars =>
          [\A c \in Callers :
             call[c] = "idle" /\ call'[c] # "idle"
               => failureCount < FailureThreshold \/ cooldown = 0]_breakerVars
    BY OnlyAllowAdmits, AllowRespectsCooldown
  <1> QED
    BY <1>1, SpecIInv, PTL DEF Spec, AdmissionRespectsCooldown

=============================================================================
