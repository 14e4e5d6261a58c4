CONSTANTS
    Handles = {alice}
    Passwords = {old, new}
    Commands = {run1, run2}
    Orders <- MCOrders
    Requests = {q1, q2}
    OldPassword = old
    Lifetime = 1
    MaxClock = 1
    None = None
    alice = alice
    old = old
    new = new
SYMMETRY Symmetry
SPECIFICATION Spec
INVARIANTS
    TypeOK
    ReplacedPasswordIsShut
    NewPasswordOpens
    TokenKeepsOpening
    SuspendedIsShut
PROPERTIES
    RevokedIsShut
