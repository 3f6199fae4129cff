CONSTANTS
    web = web
    db = db
    p80 = p80
    fa = fa
    fb = fb
    fc = fc
    fm = fm
    Names <- MC_Names
    Images <- MC_Images
    Ports = {p80}
    Dirs = {"a", "b"}
    EnvKeys = {"X", "XY"}
    KeyPrefix <- MC_KeyPrefix
    Vals = {"1", "2", "3"}
    EnvFiles = {fa, fb, fc, fm}
    EnvContent <- MC_EnvContent
    Readable = {fa, fb, fc}
    Docs <- MC_Docs
    MaxLoads = 3
SPECIFICATION Spec
CHECK_DEADLOCK FALSE
INVARIANT EnvFilePrecedence
