SPECIFICATION FairRateSpec
CONSTANTS
    c1 = c1
    c2 = c2
    c3 = c3
    Callers = {c1, c2, c3}
    Slots = 2
    Capacity <- MCCapacity
    Rate <- MCRate
    Costs = {1, 4}
    NoLimit = NoLimit
    MaxWaits = {0, 1}
INVARIANT AdmissionExact
INVARIANT RateExact
PROPERTY NothingConsumedOnRefusal
PROPERTY QueueDrains
