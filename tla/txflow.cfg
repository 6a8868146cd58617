CONSTANTS
    alice = alice
    bob = bob
    carol = carol
    Accounts = {alice, bob, carol}
    MaxU64 = 4
    GenesisAccounts <- MCGenesis
    Txs <- MCTxs
    MaxSize = 3
    MaxTxPerAccount = 2
    PeerBlocks <- MCPeerBlocks
    MaxBlockTxs = 2
    MaxHeight = 2
SPECIFICATION Spec
INVARIANTS
    TypeOK
    SupplyConserved
    NoReplay
    NonceCountsConfirmed
    PoolConsistent
