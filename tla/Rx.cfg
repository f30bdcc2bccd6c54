CONSTANTS
    MaxPackets = 3
    Descs = 3
    CntMod = 3
    DeferLimit = 1
    EndOfTransaction = TRUE
SPECIFICATION FairSpec
INVARIANTS PacketInOnePlace OnlyInHandOvertaken
    StreamingEnds TimerGone
PROPERTIES EveryPacketHandled
