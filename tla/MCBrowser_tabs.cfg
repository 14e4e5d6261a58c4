CONSTANTS
    Browsers = {b1}
    Exchanges = {e1, e2, e3}
    Handles = {alice}
    Configs <- MCConfigs
    Lifetime = 2
    MaxClock = 3
    MaxRestarts = 1
    None = None
SYMMETRY Symmetry
SPECIFICATION Spec
CHECK_DEADLOCK FALSE
INVARIANT
    LogoutSticks
    LoginTakesHold
    LoginIsLoggedFirst
