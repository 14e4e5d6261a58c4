CONSTANTS
    Files = {Upper, Lower, Blank}
    Pages = {notes}
    Texts = {line, at}
    PageOf <- MCPageOf
    ReadAs <- MCReadAs
    Body <- MCBody
    Named <- MCNamed
    MaxChanges = 5
    None = None
    Partial = Partial
    Upper = Upper
    Lower = Lower
    Blank = Blank
    notes = notes
    line = line
    at = at
SPECIFICATION Spec
CHECK_DEADLOCK FALSE
INVARIANT
    MirroredOrMissed
PROPERTY
    ComesToRest
