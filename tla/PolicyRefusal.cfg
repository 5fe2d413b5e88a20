\* A gateway with one model.
CONSTANTS
    small = small
    middle = middle
    large = large
    low = low
    high = high
    p = p
    q = q
    None = None
    Unlimited = Unlimited
    Models <- MCModels
    Labels <- MCLabels
    Needs = {"vision"}
    Profile <- MCProfile
    Catalogs <- MCOneModel
    Facts <- MCFacts
    Charges = {1}
    Providers <- MCProviders
    MaxClock = 1
    MaxTurn = 2
    SwitchBound = 2
    CounterBound = 1
    MaxInFlight = 1
SPECIFICATION Spec
INVARIANT RefusedOnlyUnconfigured
