CONSTANTS
    Keys <- MC_Keys
    OsEnv <- MC_OsEnv
    EnvFile <- MC_EnvFile
    FileStatus = "ok"
    CatalogDoc <- MC_CatalogDoc
    Input <- MC_Input
    FinalNewline = TRUE

SPECIFICATION Spec
INVARIANT QuestionsAnswered
