SPECIFICATION Spec
CONSTANTS
    Requests = {r1, r2}
    TTL = 2
    Latency = 1
    Lag = 2
    MaxHead = 3
CHECK_DEADLOCK FALSE
INVARIANTS HonestHealth
PROPERTIES FreshAnswers Recovers
