\* A tree nobody changes, and one failed call: apfs_find_next_key fails
\* after the first realloc, and the pass ends with 0 before defrag_max.
SPECIFICATION Spec
CONSTANTS
    KeySpace <- MCKeySpace
    Kinds <- MCKinds
    Levels <- MCLevels
    MaxChanges <- MCNoChanges
    MaxFaults <- MCMaxFaults

INVARIANT DefragCoversBeforeMax
