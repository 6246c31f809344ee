SPECIFICATION Spec
CONSTANTS
    admin = admin
    ann = ann
    Names = {admin, ann}
    Emails = {admin, ann}
    MaxUsers = 3
    MaxTokens = 2
    Seeds <- MCSeeds
    Registrations <- MCRegistrations
    Profiles <- MCProfiles
    MaxHandlers = 2
    Replicas = {r1, r2}
    JwtExpMins = 240
    MaxRequests = 5
    NoUser = NoUser
    Keep = Keep
    Idle = Idle
CHECK_DEADLOCK FALSE
INVARIANT TokensLastAsConfigured
