CONSTANTS
    v1 = v1
    v2 = v2
    c1 = c1
    c2 = c2
    c3 = c3
    NoVif = NoVif
    Vifs <- MCVifs
    Channels <- MCChannels
    Band <- MCBand
    PassiveOnly <- MCPassiveOnly
    Disabled = {}
    Requests <- MCRequests
    MaxChannels = 1
SPECIFICATION FairSpec
INVARIANT SuccessCovers
PROPERTIES FreshTimeout EveryScanAnswered
