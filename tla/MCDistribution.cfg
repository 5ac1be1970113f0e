CONSTANTS
    Peers <- MCPeers
    Snapshots <- MCSnapshots
    Provider <- MCProvider
    Country <- MCCountry
    Network <- MCNetwork
    Direction <- MCDirection
    Measured <- MCMeasured
    Site <- MCSite
    Pointer = {"row", "panelrow", "country", "insight", "nav", "nested", "rank", "item"}
    MaxSegments = 1
    Insights = {"insight-fastest"}
    All = all
    None = none
    all = all
    none = none
SPECIFICATION DistributionSpec
INVARIANTS
    LayersNest
    PollingSettles
PROPERTIES
    EscapeDescends
