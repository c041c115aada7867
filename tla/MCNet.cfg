SPECIFICATION Spec
INVARIANTS ConnectionsExact
 
CHECK_DEADLOCK FALSE
