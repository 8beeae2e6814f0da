---------------------------- MODULE CircuitBreaker ----------------------------
(***************************************************************************)
(* The LLM outage breaker (services/circuit_breaker.py) together with the  *)
(* callers that drive it: the per-attempt loop of a BatchProcessor         *)
(* sub-batch (services/batch_processor.py), which asks allow() before each *)
(* attempt and records at most one outcome when the sub-batch ends.        *)
(*                                                                         *)
(* The breaker's asyncio.Lock guards critical sections that contain no     *)
(* await, so allow() and record_*() are single steps.  A clock reading is  *)
(* kept as an AGE that saturates at the only bound the code compares it    *)
(* with; the failure counter saturates at the threshold for the same       *)
(* reason.  Neither saturation loses a comparison the code makes.          *)
(***************************************************************************)
EXTENDS Integers

CONSTANTS
    Callers,       \* concurrently running sub-batches
    Threshold,     \* llm_outage_breaker_threshold
    Cooldown,      \* _cooldown_seconds, in ticks
    ProbeTimeout,  \* _half_open_probe_timeout, in ticks
    MaxRetries     \* _LLM_MAX_RETRIES

ASSUME BreakerAssumption ==
    /\ Threshold \in Nat \ {0}
    /\ Cooldown \in Nat \ {0}
    /\ ProbeTimeout \in Nat \ {0}
    /\ MaxRetries \in Nat

VARIABLES
    state,         \* self._state
    failures,      \* self._consecutive_failures, saturating at Threshold
    openedAge,     \* now - self._opened_at, saturating at Cooldown; None
    halfOpenAge,   \* now - self._half_open_at, saturating at ProbeTimeout; None
    upstream,      \* "down" | "up": whether the provider answers
    pc,            \* per caller: "idle" | "ready" | "calling"
    attempt,       \* per caller: index of the current attempt
    sinceProbe     \* history: ticks since the last probe was admitted; None

breakerVars == <<state, failures, openedAge, halfOpenAge>>
callerVars  == <<pc, attempt, sinceProbe>>
vars        == <<breakerVars, upstream, callerVars>>

None == -1   \* Python None for the two clock readings

-----------------------------------------------------------------------------

Older(age, bound) == IF age = None \/ age = bound THEN age ELSE age + 1

Counted == IF failures = Threshold THEN failures ELSE failures + 1

Init ==
    /\ state = "closed"
    /\ failures = 0
    /\ openedAge = None
    /\ halfOpenAge = None
    /\ upstream = "up"
    /\ pc = [c \in Callers |-> "idle"]
    /\ attempt = [c \in Callers |-> 0]
    /\ sinceProbe = None

-----------------------------------------------------------------------------
(* The breaker's operations, as state changes shared by the caller actions. *)

\* allow() on a closed breaker.
AllowClosed ==
    /\ state = "closed"
    /\ UNCHANGED breakerVars

\* allow() on an open breaker whose cooldown has elapsed: the caller becomes
\* the half-open probe.
AllowProbe ==
    /\ state = "open"
    /\ openedAge # None
    /\ openedAge >= Cooldown
    /\ state' = "half_open"
    /\ halfOpenAge' = 0
    /\ UNCHANGED <<failures, openedAge>>

\* allow() that answers False: open and cooling down, or half-open.  A
\* half-open breaker whose probe outlived its lease rolls back to open first.
LeaseExpired == halfOpenAge # None /\ halfOpenAge >= ProbeTimeout

\* Mutant: allow() without the probe lease.
DenyWithoutLease ==
    /\ state = "half_open" \/ (state = "open" /\ (openedAge = None \/ openedAge < Cooldown))
    /\ UNCHANGED breakerVars

Deny ==
    \/ /\ state = "open"
       /\ openedAge = None \/ openedAge < Cooldown
       /\ UNCHANGED breakerVars
    \/ /\ state = "half_open"
       /\ ~LeaseExpired
       /\ UNCHANGED breakerVars
    \/ /\ state = "half_open"
       /\ LeaseExpired
       /\ state' = "open"
       /\ openedAge' = 0
       /\ halfOpenAge' = None
       /\ UNCHANGED failures

RecordSuccess ==
    /\ failures' = 0
    /\ IF state \in {"open", "half_open"}
         THEN /\ state' = "closed"
              /\ openedAge' = None
              /\ halfOpenAge' = None
         ELSE UNCHANGED <<state, openedAge, halfOpenAge>>

\* Mutant: a failed probe re-opens without a fresh cooldown.
RecordFailureKeepsClock ==
    /\ failures' = Counted
    /\ IF state = "half_open" \/ Counted >= Threshold
         THEN /\ state' = "open"
              /\ openedAge' = IF state = "closed" THEN 0 ELSE openedAge
              /\ halfOpenAge' = None
         ELSE UNCHANGED <<state, openedAge, halfOpenAge>>

\* Mutant: the trip from closed forgets to stamp opened_at.
RecordFailureNoStamp ==
    /\ failures' = Counted
    /\ IF state = "half_open" \/ Counted >= Threshold
         THEN /\ state' = "open"
              /\ openedAge' = IF state = "half_open" THEN 0 ELSE openedAge
              /\ halfOpenAge' = None
         ELSE UNCHANGED <<state, openedAge, halfOpenAge>>

RecordFailure ==
    /\ failures' = Counted
    /\ \/ /\ state = "half_open"
          /\ state' = "open"
          /\ openedAge' = 0
          /\ halfOpenAge' = None
       \/ /\ state = "closed" /\ Counted >= Threshold
          /\ state' = "open"
          /\ openedAge' = 0
          /\ UNCHANGED halfOpenAge
       \/ /\ state = "open" \/ (state = "closed" /\ Counted < Threshold)
          /\ UNCHANGED <<state, openedAge, halfOpenAge>>

-----------------------------------------------------------------------------
(* The attempt loop of one sub-batch.                                       *)

Start(c) ==
    /\ pc[c] = "idle"
    /\ pc' = [pc EXCEPT ![c] = "ready"]
    /\ attempt' = [attempt EXCEPT ![c] = 0]
    /\ UNCHANGED <<breakerVars, upstream, sinceProbe>>

Leave(c) ==
    /\ pc' = [pc EXCEPT ![c] = "idle"]
    /\ UNCHANGED <<upstream, attempt, sinceProbe>>

AdmitCall(c) ==
    /\ pc[c] = "ready"
    /\ AllowClosed
    /\ pc' = [pc EXCEPT ![c] = "calling"]
    /\ UNCHANGED <<upstream, attempt, sinceProbe>>

AdmitProbe(c) ==
    /\ pc[c] = "ready"
    /\ AllowProbe
    /\ pc' = [pc EXCEPT ![c] = "calling"]
    /\ sinceProbe' = 0
    /\ UNCHANGED <<upstream, attempt>>

\* allow() answered False: ProviderOutageError ends the sub-batch.
Outage(c) ==
    /\ pc[c] = "ready"
    /\ Deny
    /\ Leave(c)

Succeed(c) ==
    /\ pc[c] = "calling"
    /\ upstream = "up"
    /\ RecordSuccess
    /\ Leave(c)

\* Mutant: one attempt too many.
RetryOffByOne(c) ==
    /\ pc[c] = "calling"
    /\ upstream = "down"
    /\ attempt[c] <= MaxRetries
    /\ attempt' = [attempt EXCEPT ![c] = @ + 1]
    /\ pc' = [pc EXCEPT ![c] = "ready"]
    /\ UNCHANGED <<breakerVars, upstream, sinceProbe>>

\* A resumable, truncation or network error with attempts left: the loop
\* backs off and asks allow() again.  Nothing is recorded.
Retry(c) ==
    /\ pc[c] = "calling"
    /\ upstream = "down"
    /\ attempt[c] < MaxRetries
    /\ attempt' = [attempt EXCEPT ![c] = @ + 1]
    /\ pc' = [pc EXCEPT ![c] = "ready"]
    /\ UNCHANGED <<breakerVars, upstream, sinceProbe>>

\* A resumable error on the last attempt: one failure is recorded.
Fail(c) ==
    /\ pc[c] = "calling"
    /\ upstream = "down"
    /\ attempt[c] = MaxRetries
    /\ RecordFailure
    /\ Leave(c)

\* The sub-batch ends without recording: the last network drop, an error that
\* is not resumable, a batch too small to halve, or a cancelled task.
GiveUp(c) ==
    /\ pc[c] = "calling"
    /\ upstream = "down"
    /\ Leave(c)
    /\ UNCHANGED breakerVars

-----------------------------------------------------------------------------
(* The environment.                                                         *)

Tick ==
    /\ openedAge' = Older(openedAge, Cooldown)
    /\ halfOpenAge' = Older(halfOpenAge, ProbeTimeout)
    /\ sinceProbe' = Older(sinceProbe, Cooldown)
    /\ UNCHANGED <<state, failures, upstream, pc, attempt>>

GoDown == upstream = "up"   /\ upstream' = "down" /\ UNCHANGED <<breakerVars, callerVars>>
ComeUp == upstream = "down" /\ upstream' = "up"   /\ UNCHANGED <<breakerVars, callerVars>>

Allow(c) == AdmitCall(c) \/ AdmitProbe(c) \/ Outage(c)

Next ==
    \/ \E c \in Callers : Start(c) \/ Allow(c) \/ Succeed(c) \/ Retry(c) \/ Fail(c) \/ GiveUp(c)
    \/ Tick \/ GoDown \/ ComeUp

Spec == Init /\ [][Next]_vars

\* Time passes; the ingestion backlog keeps starting sub-batches; a call to a
\* provider that answers returns.  Nothing obliges a failing call to end in a
\* particular way, and nothing obliges the provider to come back.
Fairness ==
    /\ WF_vars(Tick)
    /\ \A c \in Callers : WF_vars(Start(c)) /\ WF_vars(Allow(c)) /\ WF_vars(Succeed(c))

FairSpec == Spec /\ Fairness

-----------------------------------------------------------------------------
(* Properties.                                                              *)

\* Types; a sub-batch never starts an attempt past its last retry.
TypeOK ==
    /\ state \in {"closed", "open", "half_open"}
    /\ failures \in 0..Threshold
    /\ openedAge \in {None} \cup 0..Cooldown
    /\ halfOpenAge \in {None} \cup 0..ProbeTimeout
    /\ upstream \in {"up", "down"}
    /\ pc \in [Callers -> {"idle", "ready", "calling"}]
    /\ attempt \in [Callers -> 0..MaxRetries]
    /\ sinceProbe \in {None} \cup 0..Cooldown

\* A breaker that denies calls always has a running clock that will let it
\* move on: opened_at while open, the probe lease while half-open.  allow()
\* answers False forever on an open breaker whose opened_at is None.
NeverWedged ==
    /\ state = "open" => openedAge # None
    /\ state = "half_open" => halfOpenAge # None

\* Probes are at least one cooldown apart, whatever mix of late failures,
\* lease expiries and re-trips happened between them: the provider that is
\* still unhealthy is not re-flooded.
ProbesSpaced ==
    [][state = "open" /\ state' = "half_open" => sinceProbe \in {None, Cooldown}]_vars

\* Once the provider answers for good, the breaker closes for good: no lost
\* probe, denied retry or stale failure count can keep it open.
Recovers == <>[](upstream = "up") => <>[](state = "closed")

\* What makes ProbesSpaced inductive: while open, the cooldown was restarted no
\* earlier than the last probe was admitted.
CooldownFollowsProbe ==
    state = "open" /\ sinceProbe # None => openedAge <= sinceProbe

BreakerInv == TypeOK /\ NeverWedged /\ CooldownFollowsProbe
=============================================================================
