\* A tree nobody changes, and no failed call: the pass stops when
\* defrag_progress equals defrag_max, before the last level-1 node.
SPECIFICATION Spec
CONSTANTS
    KeySpace <- MCKeySpace
    Kinds <- MCKinds
    Levels <- MCLevels
    MaxChanges <- MCNoChanges
    MaxFaults <- MCNoFaults

INVARIANT DefragCoversAll
