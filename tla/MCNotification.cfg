SPECIFICATION FairSpec
CONSTANTS
    created = created
    canceled = canceled
    updated = updated
    Messages = {created, canceled, updated}
    KindOf <- MCKindOf
    Prefetch = 2
    MaxFaults = 3
    Idle = Idle
INVARIANTS
    TypeOK
    NothingVanishes
    SettledForAReason
    MailsNeedFaults
PROPERTIES
    LostOnlyWhenAway
    EveryEventSettles
CHECK_DEADLOCK FALSE
