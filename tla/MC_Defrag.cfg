\* Trees of up to four keys in up to four level-1 nodes, one change by
\* another writer and one failed call over a behaviour.
SPECIFICATION Spec
CONSTANTS
    KeySpace <- MCKeySpace
    Kinds <- MCKinds
    Levels <- MCLevels
    MaxChanges <- MCMaxChanges
    MaxFaults <- MCMaxFaults
INVARIANT TypeOK
PROPERTY DefragTerminates
