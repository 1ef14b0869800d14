SPECIFICATION FairSpec
INVARIANTS ArtifactSound NoMixing FailureEnvelope
PROPERTIES ImplementsOutcome SealedArtifact JobEnds
CHECK_DEADLOCK FALSE
