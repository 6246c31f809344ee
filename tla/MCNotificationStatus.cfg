SPECIFICATION Spec
CONSTANTS
    created = created
    canceled = canceled
    updated = updated
    Messages = {created, canceled, updated}
    KindOf <- MCKindOf
    Prefetch = 2
    MaxFaults = 2
    Idle = Idle
INVARIANT EveryTransitionIsMailed
CHECK_DEADLOCK FALSE
