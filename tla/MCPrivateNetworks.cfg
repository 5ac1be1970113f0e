CONSTANTS
    Peers <- MCPeers
    Snapshots <- MCSnapshots
    Private <- MCPrivate
    Network <- MCNetwork
    Software <- MCSoftware
    Site <- MCSite
    Rank <- MCRank
    Pointer = {"row", "insight", "peer", "mini"}
    All = all
    None = none
    all = all
    none = none
SPECIFICATION NetworksSpec
INVARIANTS
    TimersServeTheMode
    PollingSettles
