SPECIFICATION MeshFairSpec
CONSTANTS
    MESH_MSG_BUFFER_LEN = 3
    MaxMessages = 5
INVARIANTS
    KeptOnce
PROPERTIES
    ReadGetsMessage
    AllRead
