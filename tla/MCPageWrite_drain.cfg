CONSTANTS
    Writers = {w1, w2}
    Pages = {p1}
    Contents <- MCContents
    Revisions <- MCRevisions
    ContentHash <- MCContentHash
    Actors = {alice, bob}
    Layers = {semantic}
    Requests <- OnePageRequests
    Imported = {}
    Faults = {"storage"}
    Suspendable = {alice}
    Retirable = {semantic}
    None = None
    Torn = Torn
    p1 = p1
    p2 = p2
    c0 = c0
    c1 = c1
    r0 = r0
    r1 = r1
    alice = alice
    bob = bob
    semantic = semantic
SPECIFICATION FairSpec
INVARIANTS
    StopIsClean
PROPERTIES
    SuspendedActorIsRefused
    EveryCallEnds
    AcceptedWriteCompletes
    DrainEnds
