CONSTANTS
    a1 = a1
    Stas = {s1}
    Aps = {a1}
    Clients = {}
    ApOf <- MCApOf
    Tids = {t1}
    MaxRoles = 3
    MaxLinks = 6
    MaxStations = 1
    MaxBa = 1
    Faults = {"cmd"}
SPECIFICATION Spec
INVARIANTS
    NoLinkLost RolesOwned RocOwned OneRoleInUse SingleRoleFirmware BaOnLiveLinks
