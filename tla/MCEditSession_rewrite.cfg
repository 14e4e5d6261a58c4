CONSTANTS
    Writers = {w1, w2, w3}
    Pages = {p1}
    Contents <- MCContents
    Revisions <- MCRevisions
    ContentHash <- MCContentHash
    Actors = {alice}
    Layers = {semantic}
    Requests <- MCRequests
    Background <- MCBackground
    Imported = {}
    Faults = {}
    Suspendable = {}
    Retirable = {}
    Agents = {agent}
    Browsers = {}
    Rewrites = TRUE
    None = None
    Torn = Torn
    p1 = p1
    c0 = c0
    c1 = c1
    c2 = c2
    r0 = r0
    r1 = r1
    r2 = r2
    alice = alice
    semantic = semantic
SYMMETRY Symmetry
SPECIFICATION SessionSpec
INVARIANT
    SavesOverWhatItRead
