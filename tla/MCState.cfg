SPECIFICATION Spec
INVARIANTS  TrieExact
PROPERTIES SnapshotsRestore
CHECK_DEADLOCK FALSE
