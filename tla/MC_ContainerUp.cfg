CONSTANTS
    web = web
    db = db
    ext = ext
    Containers <- MC_Containers
    Foreign <- MC_Foreign
    Links <- MC_Links
    ExternalLinks <- MC_ExternalLinks
    Ids <- MC_Ids
    InitialId <- MC_InitialId
    Ordered = TRUE
    MaxFaults = 2
    MaxCrashes = 2
SPECIFICATION Spec
INVARIANT NoDuplicateNames
INVARIANT LinkedWhenOrdered
