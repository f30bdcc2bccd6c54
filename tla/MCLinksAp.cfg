CONSTANTS
    a1 = a1
    Stas = {}
    Aps = {a1, a2}
    Clients = {c1}
    ApOf <- MCApOf
    Tids = {t1}
    MaxRoles = 3
    MaxLinks = 6
    MaxStations = 2
    MaxBa = 1
    Faults = {"cmd"}
SPECIFICATION Spec
INVARIANTS NoLinkLost ClientsTracked BaOnLiveLinks
