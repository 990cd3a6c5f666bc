CONSTANTS
    NoManifest = NoManifest
    Reserve = 2
    Keep = 1
    MaxCommits = 2
    MaxBeats = 1
    MaxFaults = 1
    MaxCrashes = 1
    MaxLosses = 1
SPECIFICATION FairSpec
INVARIANTS
    ManifestIsReadable
    ShownIsServed
PROPERTIES
    SeqAdvances
    ReplicaKept
    Converges
