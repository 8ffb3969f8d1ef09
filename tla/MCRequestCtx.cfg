CONSTANTS
    Configs <- MCConfigs
    Variables = {"x", "y"}
    NoVar = "-"
    Codes <- MCCodes
    MaxScripts = 8
SPECIFICATION FairSpec
INVARIANTS TypeOK ReferencesBalance ScriptsStartOnce BodyBeforeScripts OwnVariables
PROPERTY RequestFreed
CHECK_DEADLOCK FALSE
