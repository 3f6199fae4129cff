CONSTANTS
    web = web
    db = db
    ext = ext
    Containers <- MC_Containers
    Foreign <- MC_Foreign
    Links <- MC_Links
    ExternalLinks <- MC_ExternalLinks
    Ids <- MC_Ids
    InitialId <- MC_InitialId
    Ordered = TRUE
    MaxFaults = 1
    MaxCrashes = 1
SPECIFICATION Spec
INVARIANT ErrorsSurface
