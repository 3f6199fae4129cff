CONSTANTS
    a = a
    b = b
    p1 = p1
    p2 = p2
    HostSets <- MC_HostSets
    Count <- MC_Count
    Template <- MC_Template
    Procs = {p1}
    MaxIndex = 3
    MaxCopies = 2
    MaxFaults = 2
    MaxReruns = 2
SPECIFICATION Spec
INVARIANT TypeOK
INVARIANT HostConfigCamelCase
PROPERTY ImplementsHostSet
