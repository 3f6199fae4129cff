CONSTANTS
    web = web
    db = db
    Services <- MC_Services
    Procs <- MC_Procs
    Target <- MC_Target
    LinkTargets <- MC_LinkTargets
    InitialId <- MC_InitialId
    Ids <- MC_Ids
    NoLinkSetup = {}
    MaxFaults = 1
    MaxCrashes = 0
    RemoteErrors = FALSE

SPECIFICATION Spec
INVARIANT TypeOK
INVARIANT FaultFreeSuccessMeansActive
PROPERTY ImplementsServiceSet
