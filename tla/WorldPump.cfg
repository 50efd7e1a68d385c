SPECIFICATION FairSpec
CONSTANTS
    PacketCapacity = 1
    CommandCapacity = 1
    ServerKinds <- MixedKinds
    MaxPackets = 3
    MaxCommands = 1
    MaxPings = 1
INVARIANTS
    ChannelsExact
    CleanHandover
    OneAckPerNewWorld
PROPERTIES
    NobodyWaits
