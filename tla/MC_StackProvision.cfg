CONSTANTS
    s1 = s1
    s2 = s2
    p1 = p1
    p2 = p2
    StackNames <- MC_StackNames
    Ids <- MC_Ids
    InitialId <- MC_InitialId
    Procs = {p1}
    MaxFaults = 2
    MaxReruns = 2
SPECIFICATION Spec
PROPERTY ImplementsStackSet
