CONSTANTS
    Inputs <- MCInputs
    Width = 8
    UnitSecs <- MCUnitSecs
    Soon = 45
    Minute = 60
    Hour = 3600
    Day = 86400
    Month = 2592000
    Skew = 60
    None = None
SPECIFICATION Spec
INVARIANT
    DurationsRoundTrip
    LifetimesAgree
    ConditionIsHonoured
    AuthorIsNamed
    SnippetKeepsText
    BodyKeepsText
    AgeIsClose
