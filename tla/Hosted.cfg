SPECIFICATION HostedSpec
CONSTANTS
    n1 = n1
    n2 = n2
    n3 = n3
    Peers <- MCPeers
    prefixOf <- MCprefixOf
    Loads <- MCLoads
    HKeys = {"k1", "k2"}
    Accounts = {"A", "B"}
    Groups = {"g"}
    HConns = {"c1", "c2", "c3"}
    hostPrefix <- MChostPrefix
    groupOf <- MCgroupOf
    Hostings <- MCHostings
INVARIANTS
    BooksBalance
    

    
CHECK_DEADLOCK FALSE
