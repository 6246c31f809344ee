SPECIFICATION FairSpec
CONSTANTS
    ada = ada
    max = max
    s1 = s1
    s2 = s2
    Users = {ada, max}
    RoleOf <- MCRoleOf
    AccessLife = 2
    Slots = {s1, s2}
    Sends <- MCSends
    Careful = {s2}
    Guest = Guest
    NoToken = NoToken
    Idle = Idle
INVARIANTS
    TypeOK
    RolesAgree
    RequestsCanSucceed
    NothingMissingGetsThrough
PROPERTIES
    AccessEnds
    DeletedUsersFade
