SPECIFICATION RaccoonSpec
CHECK_DEADLOCK FALSE
CONSTANTS
    None = None
    MaxNotes <- MCMaxNotes
    MayHang <- MCMayHang
    Sources <- MCSources
    Clusters <- MCClusters
    PollLimit <- MCPollLimit
    PageLimit <- MCPageLimit
    MaxResults <- MCMaxResults
    MaxOthers <- MCMaxOthers
    CommandLines <- MCCommandLines
INVARIANT
    IsolationLossReported
