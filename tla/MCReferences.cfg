SPECIFICATION Spec
CONSTANTS
    Rows <- AllRows
    Singles <- MCSingles
    Words <- MCWords
    Lists <- MCLists
    Homes <- MCHomes
    Defaults <- MCDefaults
    IAppFolders <- MCIAppFolders
    Stored <- MCStored
    Bare <- MCBare
INVARIANTS ConvertedTargetsAreFound DanglingOnlyOutOfSight OwnCertificatesAreFound
CHECK_DEADLOCK FALSE
