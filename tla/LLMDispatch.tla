------------------------------ MODULE LLMDispatch ------------------------------
(***************************************************************************)
(* LLM calls from resolution to outcome: LLMProvider.resolve_for_call      *)
(* (llm/provider.py) chooses the endpoint by the endpoints' breakers,      *)
(* dispatch_completion and dispatch_embedding (services/llm_dispatch.py)   *)
(* wait for the endpoint's sliding window (services/llm_throttle.py), make *)
(* the call and report its outcome to the throttle and to the breaker      *)
(* (services/circuit_breaker.py).                                          *)
(*                                                                         *)
(* A member of Calls is one call, or a caller that makes the same call     *)
(* again and again, at most once in a window.  An entry of a bucket's      *)
(* _events is the call that made it; clock readings are kept as ages that  *)
(* saturate where the code stops telling them apart.  Buckets exist from   *)
(* the start (the code creates one, empty, at its first use), and their    *)
(* locks guard sections without an await, so each section is one step.     *)
(* Routing, credentials and the call log are left out.                     *)
(***************************************************************************)
EXTENDS Naturals, FiniteSets, FiniteSetsExt

CONSTANTS
    Calls,        \* the calls of a run
    Recurring,    \* those that are made again
    Endpoints,
    Shared,       \* the provider-wide bucket of calls without an endpoint
    NoEndpoint,   \* no fallback_endpoint_id, or a row that does not exist
    Primary,      \* per call: its assignment's endpoint, Shared for a call
                  \* made without an assignment
    Fallback,     \* per call: its assignment's fallback endpoint or NoEndpoint
    Est,          \* per call: est_tokens
    Rpm, Tpm,     \* rpm_limit and tpm_limit of every bucket
    Window,       \* _WINDOW_SECONDS, in ticks
    Cooldown,     \* _cooldown_seconds, in ticks
    Threshold     \* llm_outage_breaker_threshold

ASSUME DispatchAssumption ==
    /\ IsFiniteSet(Calls) /\ Recurring \subseteq Calls
    /\ Shared \notin Endpoints /\ NoEndpoint \notin Endpoints \cup {Shared}
    /\ Primary \in [Calls -> Endpoints \cup {Shared}]
    /\ Fallback \in [Calls -> Endpoints \cup {NoEndpoint}]
    /\ Est \in [Calls -> Nat \ {0}]
    /\ {Rpm, Tpm, Window, Cooldown, Threshold} \subseteq Nat \ {0}

Buckets == Endpoints \cup {Shared}

VARIABLES
    call,         \* pc, bucket, wait (ticks left to sleep) and outcome of a call
    events,       \* per bucket: _events
    cooling,      \* per bucket: ticks until _cooldown_until
    failures,     \* per endpoint: _consecutive_failures, saturating
    open,         \* per endpoint: _state = "open"
    age           \* per call: ticks since its entry in _events, saturating

breakerVars  == <<failures, open>>
throttleVars == <<events, cooling>>
vars == <<call, throttleVars, breakerVars, age>>

-----------------------------------------------------------------------------
(* The throttle's arithmetic.                                               *)

Older(n) == IF n > Window THEN n ELSE n + 1

\* effective_limits: halved, but at least one, inside the cooldown.
Effective(b, limit) ==
    IF cooling[b] > 0 THEN Max({1, limit \div 2}) ELSE limit

Tokens(S) == MapThenSumSet(LAMBDA c : Est[c], S)

\* mutant: an entry is dropped one tick before it has left the window
TrimEarly(b) == {c \in events[b] : age[c] < Window}

\* trim: entries strictly older than the window are dropped.
Trim(b) == {c \in events[b] : age[c] <= Window}

Fits(b, c) ==
    /\ Cardinality(Trim(b)) + 1 <= Effective(b, Rpm)
    /\ Tokens(Trim(b)) + Est[c] <= Effective(b, Tpm)

\* mutant: an oversized request waits like any other
NeverTooLarge(b, c) == FALSE

\* _compute_wait raises: nothing can leave the window to make room.
TooLarge(b, c) == Trim(b) = {} /\ Est[c] > Effective(b, Tpm)

Oldest(b) == CHOOSE c \in Trim(b) : \A d \in Trim(b) : age[d] <= age[c]

\* mutant: the entry's age is added instead of taken off
RpmWaitTooLong(b) ==
    IF Cardinality(Trim(b)) + 1 > Effective(b, Rpm)
    THEN Window + age[Oldest(b)] ELSE 0

RpmWait(b) ==
    IF Cardinality(Trim(b)) + 1 > Effective(b, Rpm)
    THEN Window - age[Oldest(b)] ELSE 0

\* Until enough of the oldest entries have left; the whole window when no
\* number of them would do.
TpmWait(b, c) ==
    LET room == {d \in Trim(b) :
                    Tokens({x \in Trim(b) : age[x] < age[d]}) + Est[c]
                        <= Effective(b, Tpm)}
    IN  IF Tokens(Trim(b)) + Est[c] <= Effective(b, Tpm) THEN 0
        ELSE IF room = {} THEN Window
        ELSE Min({Window - age[d] : d \in room})

\* The sleep has a floor of 10 ms, which is one tick here.
Wait(b, c) ==
    IF Trim(b) = {} THEN Window ELSE Max({RpmWait(b), TpmWait(b, c), 1})

-----------------------------------------------------------------------------
(* The breaker of an endpoint: nothing calls allow(), so it is closed or    *)
(* open, never half-open.                                                   *)

IsOpen(b) == b \in Endpoints /\ open[b]

RecordSuccess(b) ==
    IF b \in Endpoints
    THEN /\ failures' = [failures EXCEPT ![b] = 0]
         /\ open' = [open EXCEPT ![b] = FALSE]
    ELSE UNCHANGED breakerVars

RecordFailure(b) ==
    IF b \in Endpoints
    THEN LET n == Min({Threshold, failures[b] + 1})
         IN  /\ failures' = [failures EXCEPT ![b] = n]
             /\ open' = [open EXCEPT ![b] = @ \/ n = Threshold]
    ELSE UNCHANGED breakerVars

NewCall == [pc |-> "new", bucket |-> NoEndpoint, wait |-> 0, outcome |-> "none"]

Init ==
    /\ call = [c \in Calls |-> NewCall]
    /\ events = [b \in Buckets |-> {}]
    /\ cooling = [b \in Buckets |-> 0]
    /\ failures = [e \in Endpoints |-> 0]
    /\ open = [e \in Endpoints |-> FALSE]
    /\ age = [c \in Calls |-> Window + 1]

Route(c, b) == call' = [call EXCEPT ![c].pc = "acquire", ![c].bucket = b]

Over(c, outcome) ==
    call' = [call EXCEPT ![c].pc = "over", ![c].wait = 0, ![c].outcome = outcome]

-----------------------------------------------------------------------------
(* resolve_for_call.                                                        *)

\* The primary endpoint, unless its breaker is open; a call without an
\* assignment has no endpoint to ask about.
Resolve(c) ==
    /\ call[c].pc = "new"
    /\ \/ ~IsOpen(Primary[c]) /\ Route(c, Primary[c])
       \/ IsOpen(Primary[c]) /\ call' = [call EXCEPT ![c].pc = "fallback"]
    /\ UNCHANGED <<throttleVars, breakerVars, age>>

\* The fallback has been loaded: it is used unless there is none or it is open
\* too.
FailOver(c) ==
    /\ call[c].pc = "fallback"
    /\ LET usable == Fallback[c] # NoEndpoint /\ ~IsOpen(Fallback[c])
       IN  \/ usable /\ Route(c, Fallback[c])
           \/ ~usable /\ Over(c, "refused")
    /\ UNCHANGED <<throttleVars, breakerVars, age>>

\* Loading the fallback raises: the breaker check is given up and the call
\* goes to the primary, open as it is.
FallbackUnread(c) ==
    /\ call[c].pc = "fallback" /\ Fallback[c] # NoEndpoint
    /\ Route(c, Primary[c])
    /\ UNCHANGED <<throttleVars, breakerVars, age>>

-----------------------------------------------------------------------------
(* LLMThrottle.acquire, one turn of its loop.                               *)

Acquire(c) ==
    LET b == call[c].bucket
    IN  /\ call[c].pc = "acquire"
        /\ \/ /\ Fits(b, c)
              /\ events' = [events EXCEPT ![b] = Trim(b) \cup {c}]
              /\ call' = [call EXCEPT ![c].pc = "calling"]
              /\ age' = [age EXCEPT ![c] = 0]
           \/ /\ ~Fits(b, c) /\ TooLarge(b, c)
              /\ events' = [events EXCEPT ![b] = Trim(b)]
              /\ Over(c, "too_large")
              /\ UNCHANGED age
           \/ /\ ~Fits(b, c) /\ ~TooLarge(b, c)
              /\ events' = [events EXCEPT ![b] = Trim(b)]
              /\ call' = [call EXCEPT ![c].pc = "asleep", ![c].wait = Wait(b, c)]
              /\ UNCHANGED age
        /\ UNCHANGED <<cooling, breakerVars>>

Wake(c) ==
    /\ call[c].pc = "asleep" /\ call[c].wait = 0
    /\ call' = [call EXCEPT ![c].pc = "acquire"]
    /\ UNCHANGED <<throttleVars, breakerVars, age>>

-----------------------------------------------------------------------------
(* The outcome of the call.                                                 *)

Succeeds(c) ==
    /\ call[c].pc = "calling"
    /\ Over(c, "answered")
    /\ RecordSuccess(call[c].bucket)
    /\ UNCHANGED <<throttleVars, age>>

\* mutant: a 429 is recorded as an outage too
RateLimitedAsFailure(c) ==
    /\ call[c].pc = "calling"
    /\ Over(c, "limited")
    /\ cooling' = [cooling EXCEPT ![call[c].bucket] = Cooldown]
    /\ RecordFailure(call[c].bucket)
    /\ UNCHANGED <<events, age>>

\* A 429, raised or in the response: report_429, and nothing for the breaker.
RateLimited(c) ==
    /\ call[c].pc = "calling"
    /\ Over(c, "limited")
    /\ cooling' = [cooling EXCEPT ![call[c].bucket] = Cooldown]
    /\ UNCHANGED <<events, breakerVars, age>>

\* Any other exception, the cancellation by the caller's timeout included.
Fails(c) ==
    /\ call[c].pc = "calling"
    /\ Over(c, "failed")
    /\ RecordFailure(call[c].bucket)
    /\ UNCHANGED <<throttleVars, age>>

\* The caller's timeout ends the wait for the throttle.
GivesUp(c) ==
    /\ call[c].pc \in {"acquire", "asleep"}
    /\ Over(c, "gave_up")
    /\ UNCHANGED <<throttleVars, breakerVars, age>>

\* The next call of a caller whose last one got through and has left the window:
\* every reader of _events trims it first, so its entry may be dropped here.
Again(c) ==
    /\ c \in Recurring
    /\ call[c].outcome \in {"answered", "limited"} /\ age[c] > Window
    /\ call' = [call EXCEPT ![c] = NewCall]
    /\ events' = [b \in Buckets |-> events[b] \ {c}]
    /\ UNCHANGED <<cooling, breakerVars, age>>

Tick ==
    /\ age' = [c \in Calls |-> Older(age[c])]
    /\ cooling' = [b \in Buckets |-> Max({0, cooling[b] - 1})]
    /\ call' = [c \in Calls |-> [call[c] EXCEPT !.wait = Max({0, @ - 1})]]
    /\ UNCHANGED <<events, breakerVars>>

Ends(c) == Succeeds(c) \/ RateLimited(c) \/ Fails(c)

Proceed(c) == Resolve(c) \/ FailOver(c) \/ Acquire(c) \/ Wake(c) \/ Ends(c)

Next ==
    \/ \E c \in Calls : Proceed(c) \/ FallbackUnread(c) \/ GivesUp(c) \/ Again(c)
    \/ Tick

\* The event loop runs every call on, LiteLLM's own timeout ends each call to
\* a provider, and time passes.
Fairness == WF_vars(Tick) /\ \A c \in Calls : WF_vars(Proceed(c))

Spec == Init /\ [][Next]_vars /\ Fairness

-----------------------------------------------------------------------------
(* Properties.                                                              *)

Outcomes == {"none", "refused", "too_large", "answered", "limited", "failed",
             "gave_up"}

\* Every variable has its type.
TypeOK ==
    /\ call \in [Calls -> [pc : {"new", "fallback", "acquire", "asleep",
                                 "calling", "over"},
                           bucket : Buckets \cup {NoEndpoint},
                           wait : 0..Max({Window, 1}), outcome : Outcomes]]
    /\ events \in [Buckets -> SUBSET Calls]
    /\ cooling \in [Buckets -> 0..Cooldown]
    /\ failures \in [Endpoints -> 0..Threshold]
    /\ open \in [Endpoints -> BOOLEAN]
    /\ age \in [Calls -> 0..Window + 1]

\* The calls of bucket b that were let through within the last Window ticks.
Sent(b) ==
    {c \in Calls : /\ call[c].bucket = b /\ age[c] <= Window
                   /\ \/ call[c].pc = "calling"
                      \/ call[c].outcome \in {"answered", "limited", "failed"}}

\* In no window do more calls, or more tokens, reach a provider than its limits
\* allow (llm_throttle.py 181-253), whatever mix of waiting, waking, giving up
\* and cooling down the calls go through.
WindowRespected ==
    \A b \in Buckets : Cardinality(Sent(b)) <= Rpm /\ Tokens(Sent(b)) <= Tpm

\* A breaker is open only after Threshold calls to its endpoint failed for
\* another reason than a 429 (llm_dispatch.py 397-423): rate limits, cooldowns
\* and callers that gave up waiting for the throttle never trip it.
TripsOnFailures ==
    \A e \in Endpoints : open[e] =>
        Cardinality({c \in Calls : /\ call[c].bucket = e
                                   /\ call[c].outcome = "failed"}) >= Threshold

\* A call ends, or others of its bucket get through again and again
\* (llm_throttle.py 197-253, 474-530): no call, too large ones included, waits
\* for room that nobody takes.  A call may still wait for ever behind others: the
\* throttle has no queue, and refuses a call that can never fit only when it
\* finds the window empty.
NoStandstill ==
    \A c \in Calls :
        \/ []<>(call[c].pc = "over")
        \/ []<>(\E d \in Calls \ {c} : /\ call[d].pc = "calling"
                                        /\ call[d].bucket = call[c].bucket)

=============================================================================
