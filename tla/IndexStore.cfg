SPECIFICATION FairSpec
CONSTANTS
    Urls = {u1, u2}
    Words <- MCWords
    Shards <- MCShards
    ShardOf <- MCShardOf
    Pages <- MCPages
    Crawlers = {w1, k}
    Consoles = {k}
    Erasers = {e}
    Faults <- MCFaults
    MaxVisits = 2
    MaxErasures = 2
    MaxCrashes = 1
    None = None
INVARIANTS TypeOK WordsFollowDocuments LoneWriteRepairs IndexedWereVisited
PROPERTIES DeletionIsComplete EverybodySettles
CHECK_DEADLOCK FALSE
