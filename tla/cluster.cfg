\* Two contexts from Bootstrap and a composed one share a registry.
SPECIFICATION Spec
CONSTANTS
    None = None
    NodeIds = {1, 2, 3}
    Metadata = {"", "eu"}
    Capabilities = {"sync", " "}
    Unusable = {" "}
    Bootstrapped = {1, 2}
    Advertises <- Sync
    Announced <- AnyState
INVARIANTS
    TypeOK
    StoppedIsGone
PROPERTIES
    EachIsAProcess
    AdvertisedUnchanged
    ViewOnlyAges
