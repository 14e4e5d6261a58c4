CONSTANTS
    Writers = {w1, w2, w3}
    Pages = {p1, p2}
    Contents <- MCContents
    Revisions <- MCRevisions
    ContentHash <- MCContentHash
    Actors = {alice, bob}
    Layers = {semantic}
    Requests <- TwoPageRequests
    Imported = {p2}
    Faults = {"storage", "crash"}
    Suspendable = {}
    Retirable = {}
    None = None
    Torn = Torn
    p1 = p1
    p2 = p2
    c0 = c0
    c1 = c1
    r0 = r0
    r1 = r1
    alice = alice
    bob = bob
    semantic = semantic
SYMMETRY WriterSymmetry
SPECIFICATION Spec
INVARIANTS
    TypeOK
    StoresAgree
    EditsFollowGit
    NoUnseenChangeErased
    ConditionsChain
    OutcomeIsTruthful
PROPERTIES
    ImplementsAtomicWiki
