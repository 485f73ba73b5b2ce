SPECIFICATION Spec
CONSTANTS
    EndsOf <- MCEndsOf
    Schema <- MCSchema
    DoSchema <- MCDoSchema
INVARIANTS BlocksComeBack RuleKeepsItsAttributes TlsProfilesStay ServersKeepTheirSettings OnlyTheDeletedGoes ReportedUnderOwnKey
    MonitorsReadBack SecuritySettingsAreKept DefaultsComeBack
CHECK_DEADLOCK FALSE
