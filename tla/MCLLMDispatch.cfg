SPECIFICATION Spec
CONSTANTS
    c1 = c1
    c2 = c2
    c3 = c3
    c4 = c4
    e1 = e1
    e2 = e2
    Shared = Shared
    NoEndpoint = NoEndpoint
    Calls <- FourCalls
    Recurring = {c1}
    Endpoints <- TwoEndpoints
    Primary <- PrimaryOf
    Fallback <- FallbackOf
    Est <- EstOf
    Rpm = 2
    Tpm = 4
    Window = 2
    Cooldown = 3
    Threshold = 2
INVARIANTS TypeOK WindowRespected TripsOnFailures
PROPERTIES NoStandstill
