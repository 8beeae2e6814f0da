------------------------ MODULE CircuitBreaker_proofs ------------------------
(***************************************************************************)
(* Proofs about the circuit breaker for every number of callers and every  *)
(* threshold, cooldown, probe lease and retry budget.                      *)
(***************************************************************************)
EXTENDS CircuitBreaker, TLAPS

\* A saturating age stays in its range.
LEMMA OlderType ==
    ASSUME NEW b \in Nat, NEW a \in {None} \cup 0..b
    PROVE  Older(a, b) \in {None} \cup 0..b /\ (Older(a, b) = None <=> a = None)
  BY DEF Older, None

\* Init establishes the inductive invariant: nothing is open and no clock runs.
LEMMA BreakerInit == Init => BreakerInv
  BY BreakerAssumption
  DEF Init, BreakerInv, TypeOK, NeverWedged, CooldownFollowsProbe, None

\* allow(), record_success() and record_failure() and every step of the
\* attempt loop preserve the inductive invariant.
LEMMA BreakerStep == BreakerInv /\ [Next]_vars => BreakerInv'
  <1> SUFFICES ASSUME BreakerInv, [Next]_vars PROVE BreakerInv'
    OBVIOUS
  <1> USE BreakerAssumption DEF BreakerInv, TypeOK, NeverWedged, CooldownFollowsProbe,
        breakerVars, None
  <1>1. ASSUME NEW c \in Callers, Start(c) PROVE BreakerInv'
    BY <1>1 DEF Start
  <1>2. ASSUME NEW c \in Callers, AdmitCall(c) PROVE BreakerInv'
    BY <1>2 DEF AdmitCall, AllowClosed
  <1>3. ASSUME NEW c \in Callers, AdmitProbe(c) PROVE BreakerInv'
    BY <1>3 DEF AdmitProbe, AllowProbe
  <1>4. ASSUME NEW c \in Callers, Outage(c) PROVE BreakerInv'
    BY <1>4 DEF Outage, Deny, LeaseExpired, Leave
  <1>5. ASSUME NEW c \in Callers, Succeed(c) PROVE BreakerInv'
    BY <1>5 DEF Succeed, RecordSuccess, Leave
  <1>6. ASSUME NEW c \in Callers, Retry(c) PROVE BreakerInv'
    BY <1>6 DEF Retry
  <1>7. ASSUME NEW c \in Callers, Fail(c) PROVE BreakerInv'
    BY <1>7 DEF Fail, RecordFailure, Counted, Leave
  <1>8. ASSUME NEW c \in Callers, GiveUp(c) PROVE BreakerInv'
    BY <1>8 DEF GiveUp, Leave
  <1>9. CASE Tick
    <2>1. TypeOK'
      BY <1>9, OlderType DEF Tick
    <2>2. NeverWedged'
      BY <1>9, OlderType DEF Tick
    <2>3. CooldownFollowsProbe'
      BY <1>9 DEF Tick, Older
    <2> QED BY <2>1, <2>2, <2>3
  <1>10. CASE GoDown
    BY <1>10 DEF GoDown, callerVars
  <1>11. CASE ComeUp
    BY <1>11 DEF ComeUp, callerVars
  <1>12. CASE UNCHANGED vars
    BY <1>12 DEF vars, callerVars
  <1> QED
    BY <1>1, <1>2, <1>3, <1>4, <1>5, <1>6, <1>7, <1>8, <1>9, <1>10, <1>11, <1>12
    DEF Next, Allow

\* Type correctness of the breaker and its callers.
THEOREM BreakerTypeCorrect == Spec => []TypeOK
  BY BreakerInit, BreakerStep, PTL DEF Spec, BreakerInv

\* allow() can never be stuck answering False for lack of a clock reading.
THEOREM BreakerNeverWedged == Spec => []NeverWedged
  BY BreakerInit, BreakerStep, PTL DEF Spec, BreakerInv

\* A step that turns a caller into a probe happens a full cooldown after the
\* previous probe.
LEMMA ProbeStep ==
    BreakerInv /\ [Next]_vars =>
        [state = "open" /\ state' = "half_open" => sinceProbe \in {None, Cooldown}]_vars
  <1> SUFFICES ASSUME BreakerInv, Next, state = "open", state' = "half_open"
               PROVE  sinceProbe \in {None, Cooldown}
    BY DEF vars
  <1> USE BreakerAssumption DEF BreakerInv, TypeOK
  <1>1. ASSUME NEW c \in Callers, AdmitProbe(c) PROVE sinceProbe \in {None, Cooldown}
    BY <1>1 DEF AdmitProbe, AllowProbe, CooldownFollowsProbe, NeverWedged, None
  <1>2. ASSUME NEW c \in Callers,
               Start(c) \/ AdmitCall(c) \/ Outage(c) \/ Succeed(c) \/ Retry(c) \/ Fail(c) \/ GiveUp(c)
        PROVE  FALSE
    BY <1>2 DEF Start, AdmitCall, AllowClosed, Outage, Deny, Succeed, RecordSuccess, Retry,
                Fail, RecordFailure, GiveUp, breakerVars
  <1>3. CASE Tick \/ GoDown \/ ComeUp
    BY <1>3 DEF Tick, GoDown, ComeUp, breakerVars
  <1> QED
    BY <1>1, <1>2, <1>3 DEF Next, Allow

\* Probes are spaced by the cooldown for every configuration.
THEOREM BreakerProbesSpaced == Spec => ProbesSpaced
  BY BreakerInit, BreakerStep, ProbeStep, PTL DEF Spec, ProbesSpaced
=============================================================================
