CONSTANTS
    ETH_BUFFERS = 4
    eth_buffer_phys <- MCPhys
    Foreign <- MCForeign
SPECIFICATION FairSpec
INVARIANTS
    TypeOK
    SingleHolder
    FreeListExact
PROPERTIES
    OwnershipSpec
    PoolRefills
